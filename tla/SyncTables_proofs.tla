-------------------------- MODULE SyncTables_proofs --------------------------
(***************************************************************************)
(* What one batch item does to the target tables, for every value of the   *)
(* constants.  These lemmas carry the theorems about the service.          *)
(***************************************************************************)
EXTENDS SyncTables, TLAPS

\* A row written to a table leaves a table.
LEMMA PutTable ==
    ASSUME NEW tbl, IsTable(tbl), NEW id \in Ids, NEW row, IsRow(row)
    PROVE  IsTable(Put(tbl, id, row))
BY DEF Put, IsTable

\* INSERT and upsert take well-formed tables to well-formed tables.
LEMMA SaveTables ==
    ASSUME NEW t, IsTables(t), NEW m \in AutoModels, NEW id \in Ids,
           NEW row, IsRow(row)
    PROVE  IsTables(Save(t, m, id, row))
<1>1. IsTable(Put(t.rows[m], id, row))
  BY PutTable DEF IsTables, AutoModels
<1>2. [t.seq EXCEPT ![m] = Larger(id, t.seq[m])] \in [AutoModels -> 0 .. MaxRowid]
  BY RowidAssumption DEF IsTables, Ids, Larger
<1> QED
  BY <1>1, <1>2 DEF Save, IsTables, AutoModels

\* The same for the employees table, which has no sequence.
LEMMA SaveEmployeeTables ==
    ASSUME NEW t, IsTables(t), NEW id \in Ids, NEW row, IsRow(row)
    PROVE  IsTables(SaveEmployee(t, id, row))
<1>1. "employees" \in Models
  BY DEF Models
<1>2. IsTable(Put(t.rows["employees"], id, row))
  BY <1>1, PutTable DEF IsTables
<1> QED
  BY <1>1, <1>2 DEF SaveEmployee, Employees, IsTables

\* A statement that raises no error writes a legal rowid that no other row's
\* UNIQUE column objects to.
LEMMA SaveErrorZero ==
    ASSUME NEW t, IsTables(t), NEW m \in AutoModels, NEW item,
           item.id \in 0 .. MaxRowid
    PROVE  /\ SaveError(t, m, item) \in {0, 409, 500}
           /\ SaveError(t, m, item) = 0 =>
                 /\ TargetId(t, m, item) \in Ids
                 /\ ~Taken(t.rows[m], TargetId(t, m, item), item.key)
<1>1. t.seq[m] \in 0 .. MaxRowid
  BY DEF IsTables
<1>2. SaveError(t, m, item) \in {0, 409, 500}
  BY DEF SaveError
<1>3. SaveError(t, m, item) = 0 => ~Taken(t.rows[m], TargetId(t, m, item), item.key)
  BY DEF SaveError
<1>4. SaveError(t, m, item) = 0 => TargetId(t, m, item) \in Ids
  BY <1>1, RowidAssumption DEF SaveError, TargetId, Ids, NoId
<1> QED
  BY <1>2, <1>3, <1>4

-----------------------------------------------------------------------------
\* Every write of processItem has this form: one row under one rowid, to which
\* the UNIQUE column does not object and whose references exist if they are
\* enforced.
ReferencesOf(t, row) ==
    /\ row.cust \in DOMAIN Customers(t)
    /\ \A k \in DOMAIN row.lines : row.lines[k].product \in DOMAIN Products(t)

Writes(t, m, id, row, u) ==
    /\ id \in Ids
    /\ IsRow(row)
    /\ ~Taken(t.rows[m], id, row.key)
    /\ u = IF m \in AutoModels THEN Save(t, m, id, row) ELSE SaveEmployee(t, id, row)

\* The customers branch of processItem fails with 400, 409 or 500, or makes one
\* such write.
LEMMA CustomerOutcome ==
    ASSUME NEW t, IsTables(t), NEW item \in Item, NEW by \in Reqs
    PROVE  LET res == ProcessCustomer(t, item, by)
           IN  /\ res.err \in {0, 400, 409, 500}
               /\ res.err = 0 => \E id, row : Writes(t, "customers", id, row, res.tabs)
<1> DEFINE id == TargetId(t, "customers", item)
           row == [key |-> item.key, by |-> by]
           u == Save(t, "customers", id, row)
           err == SaveError(t, "customers", item)
<1>1. "customers" \in AutoModels /\ item.id \in 0 .. MaxRowid /\ item.key \in Keys
  BY DEF AutoModels, Models, Item, Keys
<1>2. err \in {0, 409, 500} /\ (err = 0 => id \in Ids /\ ~Taken(t.rows["customers"], id, item.key))
  BY <1>1, SaveErrorZero
<1>3. IsRow(row) /\ row.key = item.key
  BY <1>1 DEF IsRow
<1>4. err = 0 => id \in Ids /\ Writes(t, "customers", id, row, u)
  BY <1>1, <1>2, <1>3 DEF Writes
<1>5. ProcessCustomer(t, item, by) =
          IF ~item.valid THEN Failure(400, t)
          ELSE IF err # 0 THEN Failure(err, t) ELSE Done(u, id, item)
  BY DEF ProcessCustomer
<1> HIDE DEF id, row, u, err
<1>6. Done(u, id, item).err = 0 /\ Done(u, id, item).tabs = u
  BY DEF Done
<1>7. Failure(400, t).err = 400 /\ Failure(err, t).err = err
  BY DEF Failure
<1> QED
  BY <1>2, <1>4, <1>5, <1>6, <1>7

\* The products branch of processItem fails with 400, 409 or 500, or makes one
\* such write.
LEMMA ProductOutcome ==
    ASSUME NEW t, IsTables(t), NEW item \in Item, NEW by \in Reqs
    PROVE  LET res == ProcessProduct(t, item, by)
           IN  /\ res.err \in {0, 400, 409, 500}
               /\ res.err = 0 => \E id, row : Writes(t, "products", id, row, res.tabs)
<1> DEFINE id == TargetId(t, "products", item)
           row == [key |-> item.key, by |-> by]
           u == Save(t, "products", id, row)
           err == SaveError(t, "products", item)
<1>1. "products" \in AutoModels /\ item.id \in 0 .. MaxRowid /\ item.key \in Keys
  BY DEF AutoModels, Models, Item, Keys
<1>2. err \in {0, 409, 500} /\ (err = 0 => id \in Ids /\ ~Taken(t.rows["products"], id, item.key))
  BY <1>1, SaveErrorZero
<1>3. IsRow(row) /\ row.key = item.key
  BY <1>1 DEF IsRow
<1>4. err = 0 => id \in Ids /\ Writes(t, "products", id, row, u)
  BY <1>1, <1>2, <1>3 DEF Writes
<1>5. ProcessProduct(t, item, by) =
          IF ~item.valid THEN Failure(400, t)
          ELSE IF err # 0 THEN Failure(err, t) ELSE Done(u, id, item)
  BY DEF ProcessProduct
<1> HIDE DEF id, row, u, err
<1>6. Done(u, id, item).err = 0 /\ Done(u, id, item).tabs = u
  BY DEF Done
<1>7. Failure(400, t).err = 400 /\ Failure(err, t).err = err
  BY DEF Failure
<1> QED
  BY <1>2, <1>4, <1>5, <1>6, <1>7

\* The orders branch of processItem fails with 400, 409 or 500, or makes one
\* such write, and one whose references
\* exist when they are enforced.
LEMMA OrderOutcome ==
    ASSUME NEW t, IsTables(t), NEW item \in Item, NEW fk, NEW by \in Reqs
    PROVE  LET res == ProcessOrder(t, item, fk, by)
           IN  /\ res.err \in {0, 400, 409, 500}
               /\ res.err = 0 => \E id, row :
                     /\ Writes(t, "orders", id, row, res.tabs)
                     /\ fk = "ON" /\ References(t) => ReferencesOf(t, row)
<1> DEFINE id == TargetId(t, "orders", item)
           row == [key |-> item.key, by |-> by, cust |-> item.cust,
                   amount |-> CalculatedAmount(item),
                   lines |-> LinesAfter(t, id, item)]
           u == Save(t, "orders", id, row)
           err == SaveError(t, "orders", item)
<1>1. "orders" \in AutoModels /\ item.id \in 0 .. MaxRowid /\ item.key \in Keys
  BY DEF AutoModels, Models, Item, Keys
<1>2. err \in {0, 409, 500} /\ (err = 0 => id \in Ids /\ ~Taken(t.rows["orders"], id, item.key))
  BY <1>1, SaveErrorZero
<1>3. /\ IsRow(row)
      /\ row.key = item.key /\ row.cust = item.cust
      /\ row.lines = LinesAfter(t, id, item)
  BY <1>1 DEF IsRow
<1>4. err = 0 => id \in Ids /\ Writes(t, "orders", id, row, u)
  BY <1>1, <1>2, <1>3 DEF Writes
<1>5. ProcessOrder(t, item, fk, by) =
          IF ~item.valid \/ OrderInvalid(item) THEN Failure(400, t)
          ELSE IF err # 0 THEN Failure(err, t)
          ELSE IF fk = "ON" /\ OrderDangling(t, item) THEN Failure(500, t)
          ELSE Done(u, id, item)
  BY DEF ProcessOrder
<1> HIDE DEF id, row, u, err
<1>6. ~OrderDangling(t, item) /\ References(t) => ReferencesOf(t, row)
  <2>1. CASE item.hasItems
    BY <1>3, <2>1 DEF OrderDangling, LinesAfter, ReferencesOf
  <2>2. CASE ~item.hasItems /\ id \in DOMAIN Orders(t)
    BY <1>3, <2>2 DEF OrderDangling, LinesAfter, References, ReferencesOf
  <2>3. CASE ~item.hasItems /\ id \notin DOMAIN Orders(t)
    BY <1>3, <2>3 DEF OrderDangling, LinesAfter, ReferencesOf
  <2> QED
    BY <2>1, <2>2, <2>3
<1>7. Done(u, id, item).err = 0 /\ Done(u, id, item).tabs = u
  BY DEF Done
<1>8. /\ Failure(400, t).err = 400 /\ Failure(err, t).err = err
      /\ Failure(500, t).err = 500
  BY DEF Failure
<1> QED
  BY <1>2, <1>4, <1>5, <1>6, <1>7, <1>8

\* The employees branch of processItem fails with 400, 409 or 500, or makes one
\* such write.
LEMMA EmployeeOutcome ==
    ASSUME NEW t, IsTables(t), NEW item \in Item, NEW rnd \in Ids, NEW by \in Reqs
    PROVE  LET res == ProcessEmployee(t, item, rnd, by)
           IN  /\ res.err \in {0, 400, 409, 500}
               /\ res.err = 0 => \E id, row : Writes(t, "employees", id, row, res.tabs)
<1> DEFINE id == IF item.id # NoId THEN item.id ELSE rnd
           row == [key |-> item.key, by |-> by]
           u == SaveEmployee(t, id, row)
           clash == \/ item.id = NoId /\ rnd \in DOMAIN Employees(t)
                    \/ Taken(Employees(t), id, item.key)
<1>1. "employees" \notin AutoModels /\ item.id \in 0 .. MaxRowid /\ item.key \in Keys
  BY DEF AutoModels, Models, Item, Keys
<1>2. id \in Ids
  BY <1>1, RowidAssumption DEF Ids, NoId
<1>3. IsRow(row) /\ row.key = item.key
  BY <1>1 DEF IsRow
<1>4. ~clash => Writes(t, "employees", id, row, u)
  BY <1>1, <1>2, <1>3 DEF Writes, Employees
<1>5. ProcessEmployee(t, item, rnd, by) =
          IF ~item.valid THEN Failure(400, t)
          ELSE IF clash THEN Failure(409, t) ELSE Done(u, id, item)
  BY DEF ProcessEmployee
<1> HIDE DEF id, row, u, clash
<1>6. Done(u, id, item).err = 0 /\ Done(u, id, item).tabs = u
  BY DEF Done
<1>7. Failure(400, t).err = 400 /\ Failure(409, t).err = 409
  BY DEF Failure
<1> QED
  BY <1>2, <1>4, <1>5, <1>6, <1>7

\* processItem answers 0, 400, 409 or 500 and, without an error, has written
\* one row.
LEMMA ItemOutcome ==
    ASSUME NEW t, IsTables(t), NEW m \in Models, NEW item \in Item,
           NEW rnd \in Ids, NEW fk, NEW by \in Reqs
    PROVE  LET res == ProcessItem(t, m, item, rnd, fk, by)
           IN  /\ res.err \in {0, 400, 409, 500}
               /\ res.err = 0 => \E id, row : Writes(t, m, id, row, res.tabs)
<1>1. CASE m = "customers"
  <2>1. ProcessItem(t, m, item, rnd, fk, by) = ProcessCustomer(t, item, by)
    BY <1>1 DEF ProcessItem
  <2> QED
    BY <1>1, <2>1, CustomerOutcome
<1>2. CASE m = "products"
  <2>1. ProcessItem(t, m, item, rnd, fk, by) = ProcessProduct(t, item, by)
    BY <1>2 DEF ProcessItem
  <2> QED
    BY <1>2, <2>1, ProductOutcome
<1>3. CASE m = "orders"
  <2>1. ProcessItem(t, m, item, rnd, fk, by) = ProcessOrder(t, item, fk, by)
    BY <1>3 DEF ProcessItem
  <2> QED
    BY <1>3, <2>1, OrderOutcome
<1>4. CASE m = "employees"
  <2>1. ProcessItem(t, m, item, rnd, fk, by) = ProcessEmployee(t, item, rnd, by)
    BY <1>4 DEF ProcessItem
  <2> QED
    BY <1>4, <2>1, EmployeeOutcome
<1> QED
  BY <1>1, <1>2, <1>3, <1>4 DEF Models

\* Without an error processItem leaves well-formed tables.
LEMMA ProcessItemTables ==
    ASSUME NEW t, IsTables(t), NEW m \in Models, NEW item \in Item,
           NEW rnd \in Ids, NEW fk, NEW by \in Reqs,
           ProcessItem(t, m, item, rnd, fk, by).err = 0
    PROVE  IsTables(ProcessItem(t, m, item, rnd, fk, by).tabs)
<1>1. PICK id, row : Writes(t, m, id, row, ProcessItem(t, m, item, rnd, fk, by).tabs)
  BY ItemOutcome
<1> QED
  BY <1>1, SaveTables, SaveEmployeeTables DEF Writes

-----------------------------------------------------------------------------
\* The schema's promises that hold whatever the foreign-key setting.
Consistent(t) == UniqueKeys(t) /\ SequenceAhead(t)

\* A write that the UNIQUE column does not object to keeps them.
LEMMA SaveConsistent ==
    ASSUME NEW t, IsTables(t), Consistent(t), NEW m \in AutoModels,
           NEW id \in Ids, NEW row, ~Taken(t.rows[m], id, row.key)
    PROVE  Consistent(Save(t, m, id, row))
<1> DEFINE u == Save(t, m, id, row)
<1>1. \A k \in Models : u.rows[k] = IF k = m THEN Put(t.rows[m], id, row) ELSE t.rows[k]
  BY DEF Save, IsTables, AutoModels
<1>2. \A k \in AutoModels : u.seq[k] = IF k = m THEN Larger(id, t.seq[m]) ELSE t.seq[k]
  BY DEF Save, IsTables
<1>3. \A k \in AutoModels : t.seq[k] \in 0 .. MaxRowid
  BY DEF IsTables
<1>4. UniqueKeys(u)
  <2> SUFFICES ASSUME NEW k \in Models, NEW i \in DOMAIN u.rows[k],
                      NEW j \in DOMAIN u.rows[k],
                      u.rows[k][i].key = u.rows[k][j].key
               PROVE  i = j
    BY DEF UniqueKeys
  <2>1. CASE k # m
    <3>1. u.rows[k] = t.rows[k]
      BY <1>1, <2>1
    <3> QED
      BY <3>1 DEF Consistent, UniqueKeys
  <2>2. CASE k = m
    <3>1. u.rows[k] = Put(t.rows[k], id, row)
      BY <1>1, <2>2
    <3> HIDE DEF u
    <3> QED
      BY <2>2, <3>1 DEF Consistent, UniqueKeys, Taken, Put
  <2> QED
    BY <2>1, <2>2
<1>5. SequenceAhead(u)
  <2> SUFFICES ASSUME NEW k \in AutoModels, NEW i \in DOMAIN u.rows[k]
               PROVE  i <= u.seq[k]
    BY DEF SequenceAhead
  <2>1. k \in Models /\ \A j \in DOMAIN t.rows[k] : j <= t.seq[k] /\ j \in Ids
    BY DEF Consistent, SequenceAhead, AutoModels, IsTables, IsTable
  <2>2. CASE k = m
    <3>1. i \in DOMAIN t.rows[m] \cup {id}
      BY <1>1, <2>1, <2>2 DEF Put
    <3>2. u.seq[k] = Larger(id, t.seq[m])
      BY <1>2, <2>2
    <3> QED
      BY <1>3, <2>1, <2>2, <3>1, <3>2, RowidAssumption DEF Larger, Ids
  <2>3. CASE k # m
    BY <1>1, <1>2, <2>1, <2>3
  <2> QED
    BY <2>2, <2>3
<1> QED
  BY <1>4, <1>5 DEF Consistent

\* The same for employees.
LEMMA SaveEmployeeConsistent ==
    ASSUME NEW t, IsTables(t), Consistent(t),
           NEW id \in Ids, NEW row, ~Taken(Employees(t), id, row.key)
    PROVE  Consistent(SaveEmployee(t, id, row))
<1> DEFINE u == SaveEmployee(t, id, row)
<1>0. "employees" \in Models /\ "employees" \notin AutoModels
  BY DEF Models, AutoModels
<1>1. \A k \in Models : u.rows[k] =
          IF k = "employees" THEN Put(Employees(t), id, row) ELSE t.rows[k]
  BY <1>0 DEF SaveEmployee, IsTables
<1>2. u.seq = t.seq
  BY DEF SaveEmployee
<1>4. UniqueKeys(u)
  <2> SUFFICES ASSUME NEW k \in Models, NEW i \in DOMAIN u.rows[k],
                      NEW j \in DOMAIN u.rows[k],
                      u.rows[k][i].key = u.rows[k][j].key
               PROVE  i = j
    BY DEF UniqueKeys
  <2>1. CASE k # "employees"
    <3>1. u.rows[k] = t.rows[k]
      BY <1>1, <2>1
    <3> QED
      BY <3>1 DEF Consistent, UniqueKeys
  <2>2. CASE k = "employees"
    <3>1. u.rows[k] = Put(t.rows[k], id, row)
      BY <1>1, <2>2 DEF Employees
    <3> HIDE DEF u
    <3> QED
      BY <2>2, <3>1 DEF Consistent, UniqueKeys, Taken, Put, Employees
  <2> QED
    BY <2>1, <2>2
<1>5. SequenceAhead(u)
  BY <1>0, <1>1, <1>2 DEF Consistent, SequenceAhead, AutoModels
<1> QED
  BY <1>4, <1>5 DEF Consistent

\* processItem keeps the UNIQUE columns unique and automatic ids fresh.
LEMMA ProcessItemConsistent ==
    ASSUME NEW t, IsTables(t), Consistent(t), NEW m \in Models,
           NEW item \in Item, NEW rnd \in Ids, NEW fk, NEW by \in Reqs,
           ProcessItem(t, m, item, rnd, fk, by).err = 0
    PROVE  Consistent(ProcessItem(t, m, item, rnd, fk, by).tabs)
<1>1. PICK id, row : Writes(t, m, id, row, ProcessItem(t, m, item, rnd, fk, by).tabs)
  BY ItemOutcome
<1>2. m \notin AutoModels => t.rows[m] = Employees(t)
  BY DEF AutoModels, Models, Employees
<1> QED
  BY <1>1, <1>2, SaveConsistent, SaveEmployeeConsistent DEF Writes

-----------------------------------------------------------------------------
\* Which tables a write touches.
LEMMA SaveEffect ==
    ASSUME NEW t, IsTables(t), NEW m \in AutoModels, NEW id, NEW row, NEW j \in Models
    PROVE  Save(t, m, id, row).rows[j] =
               IF j = m THEN Put(t.rows[m], id, row) ELSE t.rows[j]
BY DEF Save, IsTables, AutoModels

\* A write whose references exist leaves no dangling reference.
LEMMA WritesReferences ==
    ASSUME NEW t, IsTables(t), References(t), NEW m \in Models, NEW id \in Ids,
           NEW row, NEW u, Writes(t, m, id, row, u),
           m = "orders" => ReferencesOf(t, row)
    PROVE  References(u)
<1>0. "customers" \in Models /\ "products" \in Models /\ "orders" \in Models
      /\ "employees" \in Models /\ AutoModels \subseteq Models
  BY DEF AutoModels, Models
<1>2. CASE m \in AutoModels \ {"orders"}
  <2>1. u = Save(t, m, id, row)
    BY <1>2 DEF Writes
  <2>2. Orders(u) = Orders(t)
    BY <1>0, <1>2, <2>1, SaveEffect DEF Orders
  <2>a. \A tbl : DOMAIN tbl \subseteq DOMAIN Put(tbl, id, row)
    BY DEF Put
  <2>3. DOMAIN Customers(t) \subseteq DOMAIN Customers(u)
    BY <1>0, <1>2, <2>1, <2>a, SaveEffect DEF Customers
  <2>4. DOMAIN Products(t) \subseteq DOMAIN Products(u)
    BY <1>0, <1>2, <2>1, <2>a, SaveEffect DEF Products
  <2> QED
    BY <2>2, <2>3, <2>4 DEF References
<1>3. CASE m = "orders"
  <2>0. "orders" \in AutoModels
    BY DEF AutoModels, Models
  <2>1. u = Save(t, "orders", id, row)
    BY <1>3, <2>0 DEF Writes
  <2>2. Orders(u) = Put(Orders(t), id, row)
    BY <1>0, <2>0, <2>1, SaveEffect DEF Orders
  <2>3. Customers(u) = Customers(t) /\ Products(u) = Products(t)
    BY <1>0, <2>0, <2>1, SaveEffect DEF Customers, Products
  <2> QED
    BY <1>3, <2>2, <2>3 DEF References, ReferencesOf, Put
<1>4. CASE m \notin AutoModels
  <2>1. u = SaveEmployee(t, id, row)
    BY <1>4 DEF Writes
  <2>2. Orders(u) = Orders(t) /\ Products(u) = Products(t) /\ Customers(u) = Customers(t)
    BY <1>0, <2>1 DEF SaveEmployee, Orders, Products, Customers, IsTables
  <2> QED
    BY <2>2 DEF References
<1> QED
  BY <1>2, <1>3, <1>4

\* While foreign keys are enforced, processItem keeps every reference alive.
LEMMA ProcessItemReferences ==
    ASSUME NEW t, IsTables(t), References(t), NEW m \in Models,
           NEW item \in Item, NEW rnd \in Ids, NEW fk, fk = "ON", NEW by \in Reqs,
           ProcessItem(t, m, item, rnd, fk, by).err = 0
    PROVE  References(ProcessItem(t, m, item, rnd, fk, by).tabs)
<1>1. CASE m = "orders"
  <2>1. ProcessItem(t, m, item, rnd, fk, by) = ProcessOrder(t, item, fk, by)
    BY <1>1 DEF ProcessItem
  <2>2. PICK id, row :
            /\ Writes(t, "orders", id, row, ProcessOrder(t, item, fk, by).tabs)
            /\ fk = "ON" /\ References(t) => ReferencesOf(t, row)
    BY <2>1, OrderOutcome
  <2>3. ReferencesOf(t, row) /\ id \in Ids
    BY <2>2 DEF Writes
  <2> QED
    BY <1>1, <2>1, <2>2, <2>3, WritesReferences
<1>2. CASE m # "orders"
  <2>1. PICK id, row : Writes(t, m, id, row, ProcessItem(t, m, item, rnd, fk, by).tabs)
    BY ItemOutcome
  <2>2. id \in Ids
    BY <2>1 DEF Writes
  <2> QED
    BY <1>2, <2>1, <2>2, WritesReferences
<1> QED
  BY <1>1, <1>2

-----------------------------------------------------------------------------
\* The health probe's INSERT keeps all of it: its e-mail is its own.
LEMMA ProbeInsertKeeps ==
    ASSUME NEW t, IsTables(t), NEW r \in Reqs, ProbeInsertError(t, r) = 0
    PROVE  /\ IsTables(ProbeInsert(t, r))
           /\ Consistent(t) => Consistent(ProbeInsert(t, r))
           /\ References(t) => References(ProbeInsert(t, r))
<1> DEFINE id == TargetId(t, "customers", ProbeItem(r))
           row == [key |-> r, by |-> r]
           u == ProbeInsert(t, r)
<1>0. "customers" \in AutoModels /\ "customers" \in Models
      /\ "orders" \in Models /\ "products" \in Models
  BY DEF AutoModels, Models
<1>1. ProbeItem(r).id \in 0 .. MaxRowid /\ ProbeItem(r).key = r
  BY RowidAssumption DEF ProbeItem, NoId
<1>2. id \in Ids /\ ~Taken(t.rows["customers"], id, row.key)
  BY <1>0, <1>1, SaveErrorZero DEF ProbeInsertError
<1>3. IsRow(row)
  BY DEF IsRow, Keys
<1>4. u = Save(t, "customers", id, row)
  BY DEF ProbeInsert
<1>5. IsTables(u)
  BY <1>0, <1>2, <1>3, <1>4, SaveTables
<1>6. Consistent(t) => Consistent(u)
  BY <1>0, <1>2, <1>4, SaveConsistent
<1>7. /\ Orders(u) = Orders(t) /\ Products(u) = Products(t)
      /\ DOMAIN Customers(t) \subseteq DOMAIN Customers(u)
  BY <1>0, <1>4 DEF Save, IsTables, Orders, Products, Customers, Put
<1>8. References(t) => References(u)
  BY <1>7 DEF References
<1> QED
  BY <1>5, <1>6, <1>8

\* So does its DELETE, which SQLite refuses under an order that uses the row.
LEMMA ProbeDeleteKeeps ==
    ASSUME NEW t, IsTables(t), NEW r \in Reqs
    PROVE  /\ IsTables(ProbeDelete(t, r))
           /\ Consistent(t) => Consistent(ProbeDelete(t, r))
           /\ References(t) /\ ~ProbeDeleteRefused(t, r, "ON")
                  => References(ProbeDelete(t, r))
<1> DEFINE u == ProbeDelete(t, r)
<1>0. "customers" \in AutoModels /\ "customers" \in Models
      /\ "orders" \in Models /\ "products" \in Models
  BY DEF AutoModels, Models
<1>1. /\ \A k \in Models \ {"customers"} : u.rows[k] = t.rows[k]
      /\ u.rows["customers"] = Without(Customers(t), ProbeIds(t, r))
      /\ u.rows = [m \in Models |-> u.rows[m]]
      /\ u.seq = t.seq
      /\ u = [rows |-> u.rows, seq |-> u.seq]
  BY <1>0 DEF ProbeDelete, IsTables
<1>2. IsTable(u.rows["customers"])
  <2>1. IsTable(Customers(t))
    BY <1>0 DEF IsTables, Customers
  <2>2. \A tbl, ids : IsTable(tbl) => IsTable(Without(tbl, ids))
    BY DEF IsTable, Without
  <2> QED
    BY <1>1, <2>1, <2>2
<1>3. IsTables(u)
  BY <1>0, <1>1, <1>2 DEF IsTables
<1>4. Consistent(t) => Consistent(u)
  <2>1. UniqueKeys(t) => UniqueKeys(u)
    BY <1>0, <1>1 DEF UniqueKeys, Without, Customers
  <2>2. SequenceAhead(t) => SequenceAhead(u)
    BY <1>0, <1>1 DEF SequenceAhead, Without, Customers, AutoModels
  <2> QED
    BY <2>1, <2>2 DEF Consistent
<1>5. References(t) /\ ~ProbeDeleteRefused(t, r, "ON") => References(u)
  BY <1>0, <1>1 DEF References, ProbeDeleteRefused, Without, Orders, Products, Customers
<1> QED
  BY <1>3, <1>4, <1>5
==============================================================================
