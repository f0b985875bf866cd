----------------------------- MODULE SyncTables -----------------------------
(***************************************************************************)
(* The target tables of the Go service and what one batch item does to     *)
(* them: processItem of internal/handlers/sync.go, run against the schema  *)
(* of internal/db/migrations/001_init.sql.                                 *)
(*                                                                         *)
(* A table is a function from the rowids in use to rows.  Of a row only    *)
(* the columns that a constraint or a check reads are kept: `key' is the   *)
(* UNIQUE column (customers.email, products.name, orders.order_number,     *)
(* employees.email), an order also has its customer, its amount and its    *)
(* order_items.  `by' is a history variable: the request that wrote the    *)
(* row last.  Names, currencies and time stamps are not represented.       *)
(***************************************************************************)
EXTENDS Integers, Sequences, FiniteSets, SequencesExt

CONSTANTS MaxRowid,     \* the largest rowid; 2^63 - 1 in SQLite
          Names,        \* values of the UNIQUE columns that clients send
          Reqs,         \* HTTP requests
          IntBound      \* Go's int is -IntBound .. IntBound - 1

ASSUME RowidAssumption == MaxRowid \in Nat \ {0}
ASSUME IntAssumption == IntBound \in Nat \ {0}

Ids == 1 .. MaxRowid
NoId == 0               \* the item carries no id (for employees: no numeric id)

\* A health probe's e-mail holds a fresh UUID, so it is unique to its request.
Keys == Names \cup Reqs

Models == {"customers", "products", "orders", "employees"}
AutoModels == Models \ {"employees"}    \* the tables with AUTOINCREMENT

-----------------------------------------------------------------------------
(***************************************************************************)
(* Types                                                                   *)
(***************************************************************************)
IsRow(row) == row.key \in Keys /\ row.by \in Reqs

IsTable(tbl) ==
    /\ tbl = [i \in DOMAIN tbl |-> tbl[i]]
    /\ DOMAIN tbl \subseteq Ids
    /\ \A i \in DOMAIN tbl : IsRow(tbl[i])

\* The four tables and sqlite_sequence, which an AUTOINCREMENT column keeps
\* and which rolls back with the transaction like any table.
IsTables(t) ==
    /\ t = [rows |-> t.rows, seq |-> t.seq]
    /\ t.rows = [m \in Models |-> t.rows[m]]
    /\ \A m \in Models : IsTable(t.rows[m])
    /\ t.seq \in [AutoModels -> 0 .. MaxRowid]

\* PRAGMA foreign_keys of a connection; SQLite's default is OFF.
ForeignKeys == {"ON", "OFF"}

EmptyTable == [i \in {} |-> NoId]
EmptyTables ==
    [rows |-> [m \in Models |-> EmptyTable], seq |-> [m \in AutoModels |-> 0]]

Customers(t) == t.rows["customers"]
Products(t)  == t.rows["products"]
Orders(t)    == t.rows["orders"]
Employees(t) == t.rows["employees"]

\* One element of payload.Data.  valid is FALSE when the JSON of the item does
\* not decode or the DTO's validation tags fail.  An absent amount is {}.
\* hasItems tells a nil Items pointer from an empty list.
OrderLine == [product : Ids, qty : Int, price : Int, valid : BOOLEAN]
Item == [valid : BOOLEAN, id : 0 .. MaxRowid, key : Names,
         cust : Ids, amount : SUBSET Int,
         hasItems : BOOLEAN, items : Seq(OrderLine)]

-----------------------------------------------------------------------------
(***************************************************************************)
(* SQL statements                                                          *)
(***************************************************************************)
Put(tbl, id, row) ==
    [i \in DOMAIN tbl \cup {id} |-> IF i = id THEN row ELSE tbl[i]]

Without(tbl, ids) == [i \in DOMAIN tbl \ ids |-> tbl[i]]

\* The UNIQUE column: some row other than `id' already holds the key.
Taken(tbl, id, key) == \E i \in DOMAIN tbl \ {id} : tbl[i].key = key

\* AUTOINCREMENT: one more than any rowid the table ever held.
TargetId(t, model, item) ==
    IF item.id # NoId THEN item.id ELSE t.seq[model] + 1

\* Seeded fault: an automatic id is one more than the last, even at the limit.
SaveErrorPastLimit(t, model, item) ==
    IF Taken(t.rows[model], TargetId(t, model, item), item.key) THEN 409 ELSE 0

\* Seeded fault: the upsert of an existing row does not check its UNIQUE column.
SaveErrorLaxUpsert(t, model, item) ==
    IF item.id = NoId /\ t.seq[model] = MaxRowid THEN 500
    ELSE IF /\ TargetId(t, model, item) \notin DOMAIN t.rows[model]
            /\ Taken(t.rows[model], TargetId(t, model, item), item.key) THEN 409
    ELSE 0

\* INSERT without an id, or INSERT .. ON CONFLICT(id) DO UPDATE with one.
\* SQLITE_FULL once the last rowid has been used; UNIQUE failures are turned
\* into 409 by HandleDBError, every other database error into 500.
SaveError(t, model, item) ==
    IF item.id = NoId /\ t.seq[model] = MaxRowid THEN 500
    ELSE IF Taken(t.rows[model], TargetId(t, model, item), item.key) THEN 409
    ELSE 0

Larger(a, b) == IF a > b THEN a ELSE b

Save(t, model, id, row) ==
    [rows |-> [t.rows EXCEPT ![model] = Put(t.rows[model], id, row)],
     seq  |-> [t.seq EXCEPT ![model] = Larger(id, t.seq[model])]]

-----------------------------------------------------------------------------
(***************************************************************************)
(* processItem: what it answers and the tables it leaves.  A result with   *)
(* err # 0 leaves the tables to the caller's ROLLBACK.                     *)
(***************************************************************************)
Done(t, id, item) ==
    [err |-> 0, tabs |-> t, id |-> id,
     status |-> IF item.id = NoId THEN "created" ELSE "updated"]
Failure(code, t) == [err |-> code, tabs |-> t, id |-> NoId, status |-> "error"]

ProcessCustomer(t, item, by) ==
    LET err == SaveError(t, "customers", item)
        id  == TargetId(t, "customers", item)
    IN  IF ~item.valid THEN Failure(400, t)
        ELSE IF err # 0 THEN Failure(err, t)
        ELSE Done(Save(t, "customers", id, [key |-> item.key, by |-> by]), id, item)

ProcessProduct(t, item, by) ==
    LET err == SaveError(t, "products", item)
        id  == TargetId(t, "products", item)
    IN  IF ~item.valid THEN Failure(400, t)
        ELSE IF err # 0 THEN Failure(err, t)
        ELSE Done(Save(t, "products", id, [key |-> item.key, by |-> by]), id, item)

\* Two's complement: sum and product are Go ints and wrap silently.
WrapInt(n) == ((n + IntBound) % (2 * IntBound)) - IntBound

OrderSum(lines) ==
    FoldLeft(LAMBDA sum, l : WrapInt(sum + WrapInt(l.qty * l.price)), 0, lines)

\* The checks made before the first statement: a list that is present must not
\* be empty, its lines must validate and an explicit amount must equal the sum.
OrderInvalid(item) ==
    IF item.hasItems
    THEN \/ item.items = << >>
         \/ \E k \in DOMAIN item.items : ~item.items[k].valid
         \/ item.amount \notin {{}, {OrderSum(item.items)}}
    ELSE item.amount = {}

\* An item that is refused before its first statement.
ItemInvalid(model, item) == ~item.valid \/ (model = "orders" /\ OrderInvalid(item))

CalculatedAmount(item) ==
    IF item.hasItems THEN OrderSum(item.items) ELSE CHOOSE a \in item.amount : TRUE

\* FOREIGN KEY(customer_id) and FOREIGN KEY(product_id): enforced only on a
\* connection that ran PRAGMA foreign_keys = ON.  The message is not a UNIQUE
\* failure, so the answer is 500.
OrderDangling(t, item) ==
    \/ item.cust \notin DOMAIN Customers(t)
    \/ item.hasItems /\ \E k \in DOMAIN item.items :
                            item.items[k].product \notin DOMAIN Products(t)

\* The old lines are deleted and the new ones inserted only when the item has
\* a list; an item with just an amount keeps the lines of the row it updates.
LinesAfter(t, id, item) ==
    IF item.hasItems THEN item.items
    ELSE IF id \in DOMAIN Orders(t) THEN Orders(t)[id].lines
    ELSE << >>

ProcessOrder(t, item, fk, by) ==
    LET err == SaveError(t, "orders", item)
        id  == TargetId(t, "orders", item)
        row == [key |-> item.key, by |-> by, cust |-> item.cust,
                amount |-> CalculatedAmount(item),
                lines |-> LinesAfter(t, id, item)]
    IN  IF ~item.valid \/ OrderInvalid(item) THEN Failure(400, t)
        ELSE IF err # 0 THEN Failure(err, t)
        ELSE IF fk = "ON" /\ OrderDangling(t, item) THEN Failure(500, t)
        ELSE Done(Save(t, "orders", id, row), id, item)

SaveEmployee(t, id, row) ==
    [rows |-> [t.rows EXCEPT !["employees"] = Put(Employees(t), id, row)],
     seq  |-> t.seq]

\* employees.id has no AUTOINCREMENT.  A numeric id upserts; any other id is
\* replaced by 63 random bits, which may hit a row: UNIQUE failure on the id.
ProcessEmployee(t, item, rnd, by) ==
    LET id  == IF item.id # NoId THEN item.id ELSE rnd
        row == [key |-> item.key, by |-> by]
    IN  IF ~item.valid THEN Failure(400, t)
        ELSE IF \/ item.id = NoId /\ rnd \in DOMAIN Employees(t)
                \/ Taken(Employees(t), id, item.key) THEN Failure(409, t)
        ELSE Done(SaveEmployee(t, id, row), id, item)

ProcessItem(t, model, item, rnd, fk, by) ==
    CASE model = "customers" -> ProcessCustomer(t, item, by)
      [] model = "products"  -> ProcessProduct(t, item, by)
      [] model = "orders"    -> ProcessOrder(t, item, fk, by)
      [] model = "employees" -> ProcessEmployee(t, item, rnd, by)

-----------------------------------------------------------------------------
(***************************************************************************)
(* The health probe's two statements on customers (health.go).             *)
(***************************************************************************)
ProbeItem(r) == [id |-> NoId, key |-> r]

ProbeInsertError(t, r) == SaveError(t, "customers", ProbeItem(r))

ProbeInsert(t, r) ==
    Save(t, "customers", TargetId(t, "customers", ProbeItem(r)),
         [key |-> r, by |-> r])

ProbeIds(t, r) == {i \in DOMAIN Customers(t) : Customers(t)[i].key = r}

\* Seeded fault: the probe's customer is deleted under an order that uses it.
ProbeDeleteForced(t, r, fk) == FALSE

\* DELETE FROM customers WHERE email = ?: refused while an order refers to the
\* row and foreign keys are enforced.
ProbeDeleteRefused(t, r, fk) ==
    fk = "ON" /\ \E o \in DOMAIN Orders(t) : Orders(t)[o].cust \in ProbeIds(t, r)

ProbeDelete(t, r) ==
    [rows |-> [t.rows EXCEPT !["customers"] = Without(Customers(t), ProbeIds(t, r))],
     seq  |-> t.seq]

-----------------------------------------------------------------------------
(***************************************************************************)
(* What the schema declares.                                               *)
(***************************************************************************)
\* No two rows of a table share the value of its UNIQUE column.
UniqueKeys(t) ==
    \A m \in Models : \A i, j \in DOMAIN t.rows[m] :
        t.rows[m][i].key = t.rows[m][j].key => i = j

\* sqlite_sequence is at least every rowid in use, so the next automatic id is
\* free: an INSERT without an id never overwrites a row.
SequenceAhead(t) ==
    \A m \in AutoModels :
        \A i \in DOMAIN t.rows[m] : i <= t.seq[m]

\* Every order's customer and every order line's product exist.
References(t) ==
    \A o \in DOMAIN Orders(t) :
        /\ Orders(t)[o].cust \in DOMAIN Customers(t)
        /\ \A k \in DOMAIN Orders(t)[o].lines :
               Orders(t)[o].lines[k].product \in DOMAIN Products(t)
=============================================================================
