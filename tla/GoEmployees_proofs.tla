------------------------- MODULE GoEmployees_proofs -------------------------
(***************************************************************************)
(* Proofs about GoEmployees, for any number of calls, subscribers and      *)
(* employees and any capacity of the channels.                             *)
(*                                                                         *)
(* In GoEmployees no context is ever cancelled; in GoGraphQL the contexts  *)
(* of calls are.  The proofs are about the steps of both: Moves allows the *)
(* set `gone' to change at any time.                                       *)
(***************************************************************************)
EXTENDS GoEmployees, OrderedIds_proofs, SequenceTheorems

Cancel ==
    /\ gone' \subseteq Calls
    /\ UNCHANGED <<pc, input, existing, answer, result, employees, mu, todo, subVars, outVars, events>>

Moves == Next \/ Cancel

-----------------------------------------------------------------------------
(***************************************************************************)
(* The inductive invariant                                                 *)
(***************************************************************************)
Creates(m) == input[m].kind = "createEmployee"
CreatePcs  == {"insert", "readback", "publish", "sending"}
UpdatePcs  == {"read", "write", "reread"}

\* The calls: each goes through the labels of its kind, and holds an employee
\* between its read and its write, or its announcement.
CallInv ==
    /\ pc \in [Calls -> Pcs]
    /\ input \in [Calls -> Inputs \cup {Nil}]
    /\ existing \in [Calls -> Employee \cup {Nil}]
    /\ DOMAIN answer = Calls /\ DOMAIN result = Calls
    /\ \A m \in Calls :
          /\ pc[m] # "idle" => input[m] \in Inputs
          /\ pc[m] \in CreatePcs => Creates(m)
          /\ pc[m] \notin CreatePcs \cup {"idle", "done"} => ~Creates(m)
          /\ pc[m] \in CreatePcs \cup UpdatePcs \cup {"delete", "find"} => input[m] \in ById
          /\ pc[m] = "list" => input[m] \in Paged
          /\ pc[m] \in {"write", "publish", "sending"} => existing[m] \in Employee

Answers == {"none", "value", "null", "error", "true", "false"}

ResultInv ==
    /\ answer \in [Calls -> Answers]
    /\ result \in [Calls -> Seq(Employee)]
    /\ gone \subseteq Calls

IsTable(t) ==
    /\ DOMAIN t \subseteq EmployeeIds
    /\ \A i \in DOMAIN t : t[i] \in Row /\ t[i].id = i

Stamped == [no : Nat, by : Calls, emp : Employee]

BrokerTypeOK ==
    /\ mu \in Calls \cup {Nil}
    /\ todo \subseteq Subs
    /\ subscribers \subseteq Subs
    /\ state \in [Subs -> {"idle", "open", "leaving", "closed"}]
    /\ reading \subseteq Subs
    /\ chan \in [Subs -> Seq(Stamped)]
    /\ got \in [Subs -> Seq(Stamped)]
    /\ dropped \in [Subs -> SUBSET Stamped]
    /\ since \in [Subs -> Nat]
    /\ events \in Seq(Stamped)

\* The mutex is held by the one call that sends, and the last event is its event;
\* what it has still to send to is in the map.
MutexInv ==
    /\ \A m \in Calls : pc[m] = "sending" <=> mu = m
    /\ mu = Nil => todo = {}
    /\ mu # Nil => events # << >> /\ events[Len(events)].by = mu
    /\ todo \subseteq subscribers

SubInv == \A s \in Subs : s \in subscribers <=> state[s] \in {"open", "leaving"}

\* A call is announced once, with the employee it answers.
EventInv ==
    /\ \A k \in 1 .. Len(events) :
          /\ events[k].no = k
          /\ pc[events[k].by] \in {"sending", "done"}
          /\ pc[events[k].by] = "sending" => events[k].emp = existing[events[k].by]
          /\ pc[events[k].by] = "done" =>
                /\ answer[events[k].by] = "value"
                /\ result[events[k].by] = <<events[k].emp>>
    /\ \A j, k \in 1 .. Len(events) : events[j].by = events[k].by => j = k
    /\ \A m \in Calls :
          (pc[m] = "done" /\ Creates(m) /\ answer[m] = "value") \/ pc[m] = "sending" =>
              \E k \in 1 .. Len(events) : events[k].by = m

Increasing(q) == \A j, k \in 1 .. Len(q) : j < k => q[j].no < q[k].no

\* What a subscriber has taken comes before what is in its channel, and that before
\* what is about to be sent to it.
InOrder(taken, queue, bound) ==
    /\ Increasing(taken) /\ Increasing(queue)
    /\ \A j \in 1 .. Len(taken), k \in 1 .. Len(queue) : taken[j].no < queue[k].no
    /\ \A k \in 1 .. Len(taken) : taken[k].no <= bound
    /\ \A k \in 1 .. Len(queue) : queue[k].no <= bound

OrderInv ==
    \A s \in Subs :
        InOrder(got[s], chan[s], IF s \in todo THEN Len(events) - 1 ELSE Len(events))

\* The events that reached a subscriber's channel, or found it full.
Reached(s) == ToSet(got[s]) \cup ToSet(chan[s]) \cup dropped[s]

\* Only what was published reaches a subscriber, and channels keep to their capacity.
SourceInv ==
    \A s \in Subs : /\ Reached(s) \subseteq ToSet(events)
                    /\ since[s] <= Len(events)
                    /\ Len(chan[s]) <= Cap

IInv == /\ CallInv /\ IsTable(employees) /\ BrokerTypeOK /\ MutexInv /\ SubInv
        /\ EventInv /\ OrderInv /\ Accounted /\ ResultInv /\ SourceInv

-----------------------------------------------------------------------------
(***************************************************************************)
(* Which steps change what                                                 *)
(***************************************************************************)
brokerVars == <<mu, todo, events>>

\* A call that is stepped leaves the variables of the others alone.
LEMMA OthersRest ==
    ASSUME CallInv, NEW m \in Calls, Call(m) \/ ResolverStep(m), NEW n \in Calls, n # m
    PROVE  /\ pc'[n] = pc[n] /\ input'[n] = input[n] /\ existing'[n] = existing[n]
           /\ answer'[n] = answer[n] /\ result'[n] = result[n]
<1> USE DEF CallInv, Goto, Return
<1>1. CASE Call(m)
  BY <1>1 DEF Call, CallWith
<1>2. CASE Insert(m) \/ Publish(m) \/ Published(m) \/ Write(m) \/ Delete(m) \/ SayHello(m)
  BY <1>2 DEF Insert, Publish, Published, Write, Delete, SayHello
<1>3. CASE Readback(m) \/ Read(m)
  BY <1>3 DEF Readback, Read
<1>4. CASE Reread(m) \/ FindOne(m)
  BY <1>4 DEF Reread, FindOne, ReturnFound
<1>5. CASE ListPage(m)
  BY <1>5 DEF ListPage
<1>6. CASE \E s \in Subs : Send(m, s)
  BY <1>6 DEF Send, callVars
<1> QED
  BY <1>1, <1>2, <1>3, <1>4, <1>5, <1>6 DEF ResolverStep

\* Streams, cancellations and the end change no call.
LEMMA CallFrame ==
    ASSUME [Moves]_vars
    PROVE  \/ UNCHANGED <<pc, input, existing, answer, result>>
           \/ \E m \in Calls : Call(m) \/ ResolverStep(m)
<1>1. ASSUME NEW s \in Subs, StreamStep(s)
      PROVE  UNCHANGED <<pc, input, existing, answer, result>>
  BY <1>1 DEF StreamStep, Subscribe, Leave, Unsubscribe, Take, EndOfStream, callVars
<1>2. Cancel \/ Finished \/ UNCHANGED vars => UNCHANGED <<pc, input, existing, answer, result>>
  BY DEF Cancel, Finished, vars, callVars
<1> QED
  BY <1>1, <1>2 DEF Moves, Next

\* The mutex and the events are changed by Publish, its sends and its end.
LEMMA BrokerFrame ==
    ASSUME [Moves]_vars
    PROVE  \/ UNCHANGED brokerVars
           \/ \E m \in Calls : Publish(m) \/ Published(m) \/ \E s \in Subs : Send(m, s)
<1> USE DEF brokerVars
<1>1. ASSUME NEW s \in Subs, StreamStep(s)
      PROVE  UNCHANGED brokerVars
  BY <1>1 DEF StreamStep, Subscribe, Leave, Unsubscribe, Take, EndOfStream
<1>2. Cancel \/ Finished \/ UNCHANGED vars => UNCHANGED brokerVars
  BY DEF Cancel, Finished, vars
<1>3. ASSUME NEW m \in Calls, \/ Call(m) \/ Insert(m) \/ Readback(m) \/ Read(m) \/ Write(m) \/ Reread(m)
                              \/ Delete(m) \/ SayHello(m) \/ FindOne(m) \/ ListPage(m)
      PROVE  UNCHANGED brokerVars
  BY <1>3 DEF Call, CallWith, Insert, Readback, Read, Write, Reread, Delete, SayHello, FindOne, ListPage
<1> QED
  BY <1>1, <1>2, <1>3 DEF Moves, Next, ResolverStep

\* Subscriptions come and go in the steps of their streams.
LEMMA SubFrame ==
    ASSUME [Moves]_vars
    PROVE  UNCHANGED subVars \/ \E s \in Subs : StreamStep(s)
<1>1. ASSUME NEW m \in Calls, Call(m) \/ ResolverStep(m)
      PROVE  UNCHANGED subVars
  BY <1>1 DEF ResolverStep, Call, CallWith, Insert, Readback, Publish, Published, Read, Write, Reread,
     Delete, SayHello, FindOne, ListPage, Send
<1>2. Cancel \/ Finished \/ UNCHANGED vars => UNCHANGED subVars
  BY DEF Cancel, Finished, vars
<1> QED
  BY <1>1, <1>2 DEF Moves, Next

\* Channels are changed by sends and by readers.
LEMMA OutFrame ==
    ASSUME [Moves]_vars
    PROVE  \/ UNCHANGED outVars
           \/ \E m \in Calls, s \in Subs : Send(m, s)
           \/ \E s \in Subs : Take(s)
<1>1. ASSUME NEW m \in Calls, \/ Call(m) \/ Insert(m) \/ Readback(m) \/ Read(m) \/ Write(m) \/ Reread(m)
                              \/ Delete(m) \/ SayHello(m) \/ FindOne(m) \/ ListPage(m)
                              \/ Publish(m) \/ Published(m)
      PROVE  UNCHANGED outVars
  BY <1>1 DEF Call, CallWith, Insert, Readback, Read, Write, Reread, Delete, SayHello, FindOne, ListPage,
     Publish, Published
<1>2. ASSUME NEW s \in Subs, Subscribe(s) \/ Leave(s) \/ Unsubscribe(s) \/ EndOfStream(s)
      PROVE  UNCHANGED outVars
  BY <1>2 DEF Subscribe, Leave, Unsubscribe, EndOfStream
<1>3. Cancel \/ Finished \/ UNCHANGED vars => UNCHANGED outVars
  BY DEF Cancel, Finished, vars
<1> QED
  BY <1>1, <1>2, <1>3 DEF Moves, Next, ResolverStep, StreamStep

\* The table is changed by the three statements that write.
LEMMA TableFrame ==
    ASSUME [Moves]_vars
    PROVE  employees' = employees \/ \E m \in Calls : Insert(m) \/ Write(m) \/ Delete(m)
<1>1. ASSUME NEW m \in Calls, \/ Call(m) \/ Readback(m) \/ Read(m) \/ Reread(m) \/ SayHello(m)
                              \/ FindOne(m) \/ ListPage(m) \/ Publish(m) \/ Published(m)
                              \/ \E s \in Subs : Send(m, s)
      PROVE  employees' = employees
  BY <1>1 DEF Call, CallWith, Readback, Read, Reread, SayHello, FindOne, ListPage, Publish, Published, Send
<1>2. ASSUME NEW s \in Subs, StreamStep(s)
      PROVE  employees' = employees
  BY <1>2 DEF StreamStep, Subscribe, Leave, Unsubscribe, Take, EndOfStream
<1>3. Cancel \/ Finished \/ UNCHANGED vars => employees' = employees
  BY DEF Cancel, Finished, vars
<1> QED
  BY <1>1, <1>2, <1>3 DEF Moves, Next, ResolverStep

-----------------------------------------------------------------------------
(***************************************************************************)
(* Calls and the table                                                     *)
(***************************************************************************)
\* Calls that name an employee have its id, and a creation an e-mail.
LEMMA InputKinds ==
    ASSUME NEW in \in Inputs
    PROVE  /\ in.kind \in {"createEmployee", "updateEmployee", "deleteEmployee", "employee",
                           "employees", "searchEmployees", "hello"}
           /\ in.kind \in {"createEmployee", "updateEmployee", "deleteEmployee", "employee"} =>
                 in \in ById
           /\ in.kind = "createEmployee" => in.email \in Emails
           /\ in.kind \in {"employees", "searchEmployees"} => in \in Paged
<1>1. in \in ById \/ in \in Paged \/ in \in Plain
  BY InputsAssumption
<1>2. in \in ById => in.kind \in {"createEmployee", "updateEmployee", "deleteEmployee", "employee"}
  BY DEF ById
<1>3. in \in Paged => in.kind \in {"employees", "searchEmployees"}
  BY DEF Paged
<1>4. in \in Plain => in.kind = "hello"
  BY DEF Plain
<1>5. in.kind = "createEmployee" /\ in \in ById => in.email \in Emails
  BY <1>3, <1>4, InputsAssumption DEF ById
<1> QED
  BY <1>1, <1>2, <1>3, <1>4, <1>5

\* The label a call starts at.
LEMMA FirstSteps ==
    ASSUME NEW in \in Inputs
    PROVE  /\ FirstStep[in.kind] \in Pcs
           /\ FirstStep[in.kind] \in {"insert", "read", "delete", "find", "list", "hello"}
           /\ FirstStep[in.kind] = "insert" <=> in.kind = "createEmployee"
           /\ FirstStep[in.kind] \in {"insert", "read", "delete", "find"} => in \in ById
           /\ FirstStep[in.kind] = "list" => in \in Paged
<1>1. /\ FirstStep["createEmployee"] = "insert" /\ FirstStep["updateEmployee"] = "read"
      /\ FirstStep["deleteEmployee"] = "delete" /\ FirstStep["employee"] = "find"
      /\ FirstStep["employees"] = "list" /\ FirstStep["searchEmployees"] = "list"
      /\ FirstStep["hello"] = "hello"
  BY DEF FirstStep
<1> QED
  BY <1>1, InputKinds DEF Pcs

\* scanEmployee makes an Employee of every row.
LEMMA ScanType ==
    ASSUME NEW row \in Row
    PROVE  scanEmployee(row) \in Employee
<1>1. row.id \in EmployeeIds /\ row.email \in Emails /\ row.middle \in MiddleNames
  BY DEF Row
<1>2. FullName(row) \in {<< >>} \cup {<<n>> : n \in Middles}
  BY <1>1 DEF FullName, MiddleNames
<1> QED
  BY <1>1, <1>2 DEF scanEmployee, Employee

\* getEmployeeByID finds the row of the id, or nothing.
LEMMA Found ==
    ASSUME IsTable(employees), NEW m \in Calls, NEW r \in getEmployeeByID(m)
    PROVE  /\ r[2] \in Employee \cup {Nil}
           /\ r[2] # Nil => Holds(Id(m)) /\ r[2] = scanEmployee(employees[Id(m)])
<1>1. CASE Fails(m)
  <2>1. r = <<TRUE, Nil>> \/ r = <<FALSE, Nil>>
    BY <1>1 DEF getEmployeeByID
  <2>2. r = <<TRUE, Nil>> => r[2] = Nil
    OBVIOUS
  <2>3. r = <<FALSE, Nil>> => r[2] = Nil
    OBVIOUS
  <2> QED
    BY <2>1, <2>2, <2>3
<1>2. CASE ~Fails(m)
  <2>1. r[2] = IF Holds(Id(m)) THEN scanEmployee(employees[Id(m)]) ELSE Nil
    BY <1>2 DEF getEmployeeByID
  <2>2. Holds(Id(m)) => scanEmployee(employees[Id(m)]) \in Employee
    BY ScanType DEF Holds, IsTable
  <2> QED
    BY <2>1, <2>2
<1> QED
  BY <1>1, <1>2

\* A step of a call goes to a label of its kind, with what is needed there.
LEMMA CallMoves ==
    ASSUME CallInv, IsTable(employees), NEW m \in Calls, Call(m) \/ ResolverStep(m)
    PROVE  /\ pc'[m] \in Pcs /\ input'[m] \in Inputs
           /\ existing'[m] \in Employee \cup {Nil}
           /\ pc'[m] \in CreatePcs => input'[m].kind = "createEmployee"
           /\ pc'[m] \notin CreatePcs \cup {"done"} => input'[m].kind # "createEmployee"
           /\ pc'[m] \in CreatePcs \cup UpdatePcs \cup {"delete", "find"} => input'[m] \in ById
           /\ pc'[m] = "list" => input'[m] \in Paged
           /\ pc'[m] \in {"write", "publish", "sending"} => existing'[m] \in Employee
           /\ pc' \in [Calls -> Pcs] /\ input' \in [Calls -> Inputs \cup {Nil}]
           /\ existing' \in [Calls -> Employee \cup {Nil}]
           /\ DOMAIN answer' = Calls /\ DOMAIN result' = Calls
<1> USE DEF CallInv, Goto, Return, Creates, CreatePcs, UpdatePcs
<1>p. \A l \in {"insert", "readback", "publish", "sending", "read", "write", "reread", "delete", "hello",
                "find", "list", "done"} : l \in Pcs
  BY DEF Pcs
<1>1. CASE Call(m)
  <2>1. PICK in \in Inputs : CallWith(m, in)
    BY <1>1 DEF Call
  <2>2. /\ FirstStep[in.kind] \in Pcs
        /\ FirstStep[in.kind] \in {"insert", "read", "delete", "find", "list", "hello"}
        /\ FirstStep[in.kind] = "insert" <=> in.kind = "createEmployee"
        /\ FirstStep[in.kind] \in {"insert", "read", "delete", "find"} => in \in ById
        /\ FirstStep[in.kind] = "list" => in \in Paged
    BY FirstSteps
  <2>3. CASE in.valid
    BY <2>1, <2>2, <2>3 DEF CallWith
  <2>4. CASE ~in.valid
    BY <2>1, <2>4, <1>p DEF CallWith
  <2> QED
    BY <2>3, <2>4
<1>2. CASE Insert(m)
  BY <1>2, <1>p DEF Insert
<1>3. CASE Publish(m) \/ Published(m)
  BY <1>3, <1>p DEF Publish, Published
<1>4. CASE Write(m)
  BY <1>4, <1>p DEF Write
<1>5. CASE Delete(m) \/ SayHello(m)
  BY <1>5, <1>p DEF Delete, SayHello
<1>6. CASE Readback(m)
  <2>1. PICK r \in getEmployeeByID(m) :
            IF r[2] = Nil THEN Return(m, "error", << >>) /\ UNCHANGED existing
            ELSE existing' = [existing EXCEPT ![m] = r[2]] /\ Goto(m, "publish")
    BY <1>6 DEF Readback
  <2>2. r[2] \in Employee \cup {Nil}
    BY Found
  <2> QED
    BY <1>6, <1>p, <2>1, <2>2 DEF Readback
<1>7. CASE Read(m)
  <2>1. PICK r \in getEmployeeByID(m) :
            IF r[2] = Nil THEN Return(m, IF r[1] THEN "error" ELSE "null", << >>) /\ UNCHANGED existing
            ELSE existing' = [existing EXCEPT ![m] = r[2]] /\ Goto(m, "write")
    BY <1>7 DEF Read
  <2>2. r[2] \in Employee \cup {Nil}
    BY Found
  <2> QED
    BY <1>7, <1>p, <2>1, <2>2 DEF Read
<1>8. CASE Reread(m) \/ FindOne(m)
  BY <1>8, <1>p DEF Reread, FindOne, ReturnFound
<1>9. CASE ListPage(m)
  BY <1>9, <1>p DEF ListPage
<1>10. CASE \E s \in Subs : Send(m, s)
  BY <1>10, <1>p DEF Send, callVars
<1> QED
  BY <1>1, <1>2, <1>3, <1>4, <1>5, <1>6, <1>7, <1>8, <1>9, <1>10 DEF ResolverStep

\* Every call stays within the labels of its kind.
LEMMA CallStep ==
    ASSUME CallInv, IsTable(employees), [Moves]_vars
    PROVE  CallInv'
<1>1. CASE UNCHANGED <<pc, input, existing, answer, result>>
  BY <1>1 DEF CallInv, Creates
<1>2. ASSUME NEW m \in Calls, Call(m) \/ ResolverStep(m)
      PROVE  CallInv'
  <2>1. \A n \in Calls : n # m => pc'[n] = pc[n] /\ input'[n] = input[n] /\ existing'[n] = existing[n]
    BY <1>2, OthersRest
  <2>2. ASSUME NEW n \in Calls
        PROVE  /\ pc'[n] # "idle" => input'[n] \in Inputs
               /\ pc'[n] \in CreatePcs => Creates(n)'
               /\ pc'[n] \notin CreatePcs \cup {"idle", "done"} => ~Creates(n)'
               /\ pc'[n] \in CreatePcs \cup UpdatePcs \cup {"delete", "find"} => input'[n] \in ById
               /\ pc'[n] = "list" => input'[n] \in Paged
               /\ pc'[n] \in {"write", "publish", "sending"} => existing'[n] \in Employee
    <3>1. CASE n = m
      BY <1>2, <3>1, CallMoves DEF Creates
    <3>2. CASE n # m
      BY <2>1, <3>2 DEF CallInv, Creates
    <3> QED
      BY <3>1, <3>2
  <2> QED
    BY <1>2, <2>2, CallMoves DEF CallInv
<1> QED
  BY <1>1, <1>2, CallFrame

\* What an update writes is a row of its id.
LEMMA MergedType ==
    ASSUME CallInv, NEW m \in Calls, pc[m] = "write"
    PROVE  Merged(m) \in Row /\ Merged(m).id = Id(m)
<1>1. input[m] \in ById /\ existing[m] \in Employee
  BY DEF CallInv, UpdatePcs
<1>2. /\ Given(input[m].email, existing[m].email) \in Emails
      /\ Given(input[m].middle, existing[m].middle) \in MiddleNames
  BY <1>1 DEF Given, ById, Employee
<1>3. Id(m) \in EmployeeIds
  BY <1>1 DEF Id, ById
<1> QED
  BY <1>2, <1>3 DEF Merged, Row

\* Storing a row makes a table.
LEMMA StoredTable ==
    ASSUME IsTable(employees), NEW row \in Row, Store(row)
    PROVE  /\ IsTable(employees)'
           /\ DOMAIN employees' = DOMAIN employees \cup {row.id}
           /\ employees'[row.id] = row
           /\ \A i \in DOMAIN employees : i # row.id => employees'[i] = employees[i]
<1>1. row.id \in EmployeeIds
  BY DEF Row
<1> QED
  BY <1>1 DEF IsTable, Store

\* A creation inserts a row.
LEMMA InsertType ==
    ASSUME CallInv, NEW m \in Calls, pc[m] = "insert"
    PROVE  [id |-> Id(m), email |-> input[m].email, middle |-> input[m].middle] \in Row
<1>1. input[m] \in ById /\ input[m] \in Inputs /\ input[m].kind = "createEmployee"
  BY DEF CallInv, CreatePcs, Creates
<1>2. input[m].email \in Emails
  BY <1>1, InputKinds
<1> QED
  BY <1>1, <1>2 DEF ById, Row, Id

\* The table stays one.
LEMMA TableStep ==
    ASSUME CallInv, IsTable(employees), [Moves]_vars
    PROVE  IsTable(employees)'
<1>1. CASE employees' = employees
  BY <1>1 DEF IsTable
<1>2. ASSUME NEW m \in Calls, Insert(m)
      PROVE  IsTable(employees)'
  <2> DEFINE row == [id |-> Id(m), email |-> input[m].email, middle |-> input[m].middle]
  <2>1. row \in Row
    BY <1>2, InsertType DEF Insert
  <2>2. employees' = employees \/ Store(row)
    BY <1>2 DEF Insert
  <2> HIDE DEF row
  <2> QED
    BY <1>1, <2>1, <2>2, StoredTable
<1>3. ASSUME NEW m \in Calls, Write(m)
      PROVE  IsTable(employees)'
  <2>1. employees' = employees \/ Store(Merged(m))
    BY <1>3 DEF Write
  <2>2. Merged(m) \in Row
    BY <1>3, MergedType DEF Write
  <2> QED
    BY <1>1, <2>1, <2>2, StoredTable
<1>4. ASSUME NEW m \in Calls, Delete(m)
      PROVE  IsTable(employees)'
  BY <1>4 DEF Delete, IsTable
<1> QED
  BY <1>1, <1>2, <1>3, <1>4, TableFrame

\* A page is a list of employees.
LEMMA PageType ==
    ASSUME NEW t, IsTable(t), NEW in \in Paged
    PROVE  PageOf(t, in) \in Seq(Employee)
<1> DEFINE hits == {i \in DOMAIN t : t[i].email \in in.search}
           ids  == InIdOrder(hits)
           from == safeOffset(in.offset)
           to   == Min({Len(ids), from + safeLimit(in.limit)})
           page == SubSeq(ids, from + 1, to)
<1>1. hits \subseteq Int /\ IsFiniteSet(hits)
  <2>1. hits \in SUBSET EmployeeIds
    BY DEF IsTable
  <2> QED
    BY <2>1, IdsAssumption, FS_Subset
<1>2. ids \in SetToSeqs(hits)
  BY <1>1, AscendingExists DEF InIdOrder
<1> HIDE DEF ids
<1>3. ids \in Seq(hits) /\ Len(ids) \in Nat
  BY <1>1, <1>2, SeqsOfSet
<1> HIDE DEF hits
<1>4. from \in Nat /\ safeLimit(in.limit) \in Nat
  BY CapAssumption DEF safeOffset, safeLimit, Paged
<1> HIDE DEF from
<1>5. to \in {Len(ids), from + safeLimit(in.limit)} /\ to <= Len(ids) /\ to \in Nat
  BY <1>3, <1>4 DEF Min
<1> HIDE DEF to
<1>6. page \in Seq(hits)
  BY <1>3, <1>4, <1>5
<1> HIDE DEF page
<1>7. \A k \in DOMAIN page : page[k] \in DOMAIN t
  BY <1>6 DEF hits
<1>8. \A k \in DOMAIN page : scanEmployee(t[page[k]]) \in Employee
  BY <1>7, ScanType DEF IsTable
<1>9. Len(page) \in Nat /\ DOMAIN page = 1 .. Len(page)
  BY <1>6
<1>10. [k \in DOMAIN page |-> scanEmployee(t[page[k]])] \in Seq(Employee)
  BY <1>8, <1>9
<1> QED
  BY <1>10 DEF PageOf, page, to, from, ids, hits

\* The answers and results of calls keep their types.
LEMMA ResultStep ==
    ASSUME CallInv, IsTable(employees), ResultInv, [Moves]_vars
    PROVE  ResultInv'
<1>e. << >> \in Seq(Employee) /\ \A e \in Employee : <<e>> \in Seq(Employee)
  OBVIOUS
<1>a. \A how \in {"none", "value", "null", "error", "true", "false"} : how \in Answers
  BY DEF Answers
<1>g. gone' \subseteq Calls
  <2>1. ASSUME NEW m \in Calls, Call(m) \/ ResolverStep(m)
        PROVE  gone' = gone
    BY <2>1 DEF ResolverStep, Call, CallWith, Insert, Readback, Publish, Published, Read, Write, Reread,
       Delete, SayHello, FindOne, ListPage, Send, callVars
  <2>2. ASSUME NEW s \in Subs, StreamStep(s)
        PROVE  gone' = gone
    BY <2>2 DEF StreamStep, Subscribe, Leave, Unsubscribe, Take, EndOfStream, callVars
  <2> QED
    BY <2>1, <2>2 DEF Moves, Next, Cancel, Finished, vars, callVars, ResultInv
<1>r. ASSUME NEW m \in Calls, NEW how \in Answers, NEW emps \in Seq(Employee), Return(m, how, emps)
      PROVE  answer' \in [Calls -> Answers] /\ result' \in [Calls -> Seq(Employee)]
  BY <1>r DEF Return, ResultInv
<1>u. ASSUME UNCHANGED <<answer, result>>
      PROVE  answer' \in [Calls -> Answers] /\ result' \in [Calls -> Seq(Employee)]
  BY <1>u DEF ResultInv
<1>1. ASSUME NEW m \in Calls, Call(m) \/ ResolverStep(m)
      PROVE  answer' \in [Calls -> Answers] /\ result' \in [Calls -> Seq(Employee)]
  <2> USE DEF Goto
  <2>1. CASE Call(m)
    BY <1>a, <1>e, <1>r, <1>u, <2>1 DEF Call, CallWith
  <2>2. CASE Insert(m) \/ Readback(m) \/ Write(m) \/ Publish(m)
    BY <1>a, <1>e, <1>r, <1>u, <2>2 DEF Insert, Readback, Write, Publish
  <2>3. CASE Published(m)
    <3>1. <<existing[m]>> \in Seq(Employee)
      BY <1>e, <2>3 DEF Published, CallInv
    <3> QED
      BY <1>a, <1>r, <2>3, <3>1 DEF Published
  <2>4. CASE Read(m)
    <3>1. \A r : (IF r[1] THEN "error" ELSE "null") \in Answers
      BY <1>a
    <3> QED
      BY <1>e, <1>r, <1>u, <2>4, <3>1 DEF Read
  <2>5. CASE Reread(m) \/ FindOne(m)
    <3>1. PICK r \in getEmployeeByID(m) :
              IF r[2] # Nil THEN Return(m, "value", <<r[2]>>)
              ELSE Return(m, IF r[1] THEN "error" ELSE "null", << >>)
      BY <2>5 DEF Reread, FindOne, ReturnFound
    <3>2. r[2] # Nil => r[2] \in Employee
      BY Found
    <3>3. (IF r[1] THEN "error" ELSE "null") \in Answers
      BY <1>a
    <3> QED
      BY <1>a, <1>e, <1>r, <3>1, <3>2, <3>3
  <2>6. CASE Delete(m) \/ SayHello(m)
    <3>1. (IF Holds(Id(m)) THEN "true" ELSE "false") \in Answers
      BY <1>a
    <3> QED
      BY <1>a, <1>e, <1>r, <2>6, <3>1 DEF Delete, SayHello
  <2>7. CASE ListPage(m)
    <3>1. PICK page : page = PageOf(employees, input[m])
      OBVIOUS
    <3>2. page \in Seq(Employee)
      BY <2>7, <3>1, PageType DEF ListPage, CallInv
    <3>3. \A n \in 0 .. Len(page) : SubSeq(page, 1, n) \in Seq(Employee)
      BY <3>2
    <3>4. \/ Return(m, "value", page) \/ Return(m, "error", << >>)
          \/ \E n \in 0 .. Len(page) : Return(m, "value", SubSeq(page, 1, n))
      BY <2>7, <3>1 DEF ListPage
    <3> QED
      BY <1>a, <1>e, <1>r, <3>2, <3>3, <3>4
  <2>8. CASE \E s \in Subs : Send(m, s)
    BY <1>u, <2>8 DEF Send, callVars
  <2> QED
    BY <1>1, <2>1, <2>2, <2>3, <2>4, <2>5, <2>6, <2>7, <2>8 DEF ResolverStep
<1> QED
  BY <1>1, <1>g, <1>u, CallFrame DEF ResultInv

-----------------------------------------------------------------------------
(***************************************************************************)
(* The broker                                                              *)
(***************************************************************************)
\* How a call comes to send and to be done: it sends from Publish to its deferred
\* Unlock, and a creation returns an employee there and nowhere else.
LEMMA PcMoves ==
    ASSUME CallInv, [Moves]_vars, NEW n \in Calls
    PROVE  /\ pc'[n] = "sending" => pc[n] = "sending" \/ Publish(n)
           /\ pc[n] = "sending" => /\ pc'[n] = "sending" \/ Published(n)
                                   /\ existing'[n] = existing[n]
           /\ pc[n] = "done" => /\ pc'[n] = "done" /\ input'[n] = input[n]
                                /\ answer'[n] = answer[n] /\ result'[n] = result[n]
           /\ pc'[n] = "done" /\ pc[n] # "done" /\ Creates(n)' =>
                 answer'[n] # "value" \/ Published(n)
<1> USE DEF Goto, Return
<1>1. CASE UNCHANGED <<pc, input, existing, answer, result>>
  BY <1>1
<1>2. ASSUME NEW m \in Calls, m # n, Call(m) \/ ResolverStep(m)
      PROVE  /\ pc'[n] = pc[n] /\ input'[n] = input[n] /\ existing'[n] = existing[n]
             /\ answer'[n] = answer[n] /\ result'[n] = result[n]
  BY <1>2, OthersRest
<1>3. CASE Call(n)
  <2>1. PICK in \in Inputs : CallWith(n, in)
    BY <1>3 DEF Call
  <2>2. FirstStep[in.kind] \in {"insert", "read", "delete", "find", "list", "hello"}
    BY FirstSteps
  <2> QED
    BY <2>1, <2>2 DEF CallWith, CallInv
<1>4. CASE Insert(n)
  BY <1>4 DEF Insert, CallInv
<1>5. CASE Publish(n) \/ Published(n)
  BY <1>5 DEF Publish, Published, CallInv
<1>6. CASE Readback(n)
  BY <1>6 DEF Readback, CallInv
<1>7. CASE Read(n) \/ Write(n) \/ Delete(n) \/ SayHello(n)
  BY <1>7 DEF Read, Write, Delete, SayHello, CallInv, Creates, CreatePcs
<1>8. CASE Reread(n) \/ FindOne(n)
  BY <1>8 DEF Reread, FindOne, ReturnFound, CallInv, Creates, CreatePcs
<1>9. CASE ListPage(n)
  BY <1>9 DEF ListPage, CallInv, Creates, CreatePcs
<1>10. CASE \E s \in Subs : Send(n, s)
  BY <1>10 DEF Send, callVars
<1>11. CASE ResolverStep(n)
  BY <1>4, <1>5, <1>6, <1>7, <1>8, <1>9, <1>10, <1>11 DEF ResolverStep
<1>12. ASSUME NEW m \in Calls, m # n, Call(m) \/ ResolverStep(m)
       PROVE  /\ pc'[n] = pc[n] /\ input'[n] = input[n] /\ existing'[n] = existing[n]
              /\ answer'[n] = answer[n] /\ result'[n] = result[n]
  BY <1>2, <1>12
<1> QED
  BY <1>1, <1>3, <1>11, <1>12, CallFrame

\* The event a call sends is the last one published.
LEMMA CurrentEvent ==
    ASSUME BrokerTypeOK, MutexInv, EventInv, NEW m \in Calls, pc[m] = "sending"
    PROVE  /\ Len(events) \in Nat \ {0}
           /\ Current(m) = events[Len(events)]
           /\ Current(m) \in Stamped /\ Current(m).no = Len(events)
<1>1. mu = m /\ mu # Nil
  BY NilAssumption DEF MutexInv
<1>2. events \in Seq(Stamped) /\ events # << >>
  BY <1>1 DEF MutexInv, BrokerTypeOK
<1>3. Len(events) \in Nat \ {0} /\ Len(events) \in DOMAIN events /\ DOMAIN events = 1 .. Len(events)
  BY <1>2
<1>4. events[Len(events)].by = m /\ events[Len(events)] \in Stamped
      /\ events[Len(events)].no = Len(events)
  BY <1>1, <1>2, <1>3 DEF MutexInv, EventInv
<1>5. \A k \in DOMAIN events : events[k].by = m => k = Len(events)
  BY <1>3, <1>4 DEF EventInv
<1>6. \A e \in ToSet(events) : e.by = m => e = events[Len(events)]
  BY <1>5 DEF ToSet
<1>7. events[Len(events)] \in ToSet(events)
  BY <1>3 DEF ToSet
<1>8. Current(m) = events[Len(events)]
  BY <1>4, <1>6, <1>7 DEF Current
<1> QED
  BY <1>3, <1>4, <1>8

\* What Publish does to the events.
LEMMA PublishedEvent ==
    ASSUME CallInv, BrokerTypeOK, NEW m \in Calls, Publish(m)
    PROVE  /\ events' \in Seq(Stamped)
           /\ Len(events) \in Nat /\ Len(events') = Len(events) + 1
           /\ \A k \in 1 .. Len(events) : events'[k] = events[k]
           /\ events'[Len(events) + 1] = [no |-> Len(events) + 1, by |-> m, emp |-> existing[m]]
<1> DEFINE e == [no |-> Len(events) + 1, by |-> m, emp |-> existing[m]]
<1>1. events \in Seq(Stamped) /\ Len(events) \in Nat
  BY DEF BrokerTypeOK
<1>2. e \in Stamped
  BY <1>1 DEF Publish, CallInv, Stamped
<1>3. events' = Append(events, e)
  BY DEF Publish
<1> HIDE DEF e
<1>4. /\ events' \in Seq(Stamped) /\ Len(events') = Len(events) + 1
      /\ \A k \in 1 .. Len(events) : events'[k] = events[k]
      /\ events'[Len(events) + 1] = e
  BY <1>1, <1>2, <1>3
<1> QED
  BY <1>1, <1>4 DEF e

\* The broker's variables keep their types.
LEMMA BrokerTypeStep ==
    ASSUME CallInv, BrokerTypeOK, MutexInv, EventInv, [Moves]_vars
    PROVE  BrokerTypeOK'
<1>1. mu' \in Calls \cup {Nil} /\ todo' \subseteq Subs /\ events' \in Seq(Stamped)
  <2>1. CASE UNCHANGED brokerVars
    BY <2>1 DEF brokerVars, BrokerTypeOK
  <2>2. ASSUME NEW m \in Calls, Publish(m)
        PROVE  mu' \in Calls \cup {Nil} /\ todo' \subseteq Subs /\ events' \in Seq(Stamped)
    BY <2>2, PublishedEvent DEF Publish, BrokerTypeOK
  <2>3. ASSUME NEW m \in Calls, Published(m) \/ \E s \in Subs : Send(m, s)
        PROVE  mu' \in Calls \cup {Nil} /\ todo' \subseteq Subs /\ events' \in Seq(Stamped)
    BY <2>3 DEF Published, Send, BrokerTypeOK
  <2> QED
    BY <2>1, <2>2, <2>3, BrokerFrame
<1>2. /\ subscribers' \subseteq Subs /\ reading' \subseteq Subs
      /\ state' \in [Subs -> {"idle", "open", "leaving", "closed"}]
      /\ since' \in [Subs -> Nat]
  <2>1. CASE UNCHANGED subVars
    BY <2>1 DEF subVars, BrokerTypeOK
  <2>2. ASSUME NEW s \in Subs, StreamStep(s)
        PROVE  /\ subscribers' \subseteq Subs /\ reading' \subseteq Subs
               /\ state' \in [Subs -> {"idle", "open", "leaving", "closed"}]
               /\ since' \in [Subs -> Nat]
    <3>1. Len(events) \in Nat
      BY DEF BrokerTypeOK
    <3>2. CASE Subscribe(s)
      BY <3>1, <3>2 DEF Subscribe, BrokerTypeOK
    <3>3. CASE Leave(s) \/ Unsubscribe(s)
      BY <3>3 DEF Leave, Unsubscribe, BrokerTypeOK
    <3>4. CASE Take(s) \/ EndOfStream(s)
      BY <3>4 DEF Take, EndOfStream, subVars, BrokerTypeOK
    <3> QED
      BY <2>2, <3>2, <3>3, <3>4 DEF StreamStep
  <2> QED
    BY <2>1, <2>2, SubFrame
<1>3. /\ chan' \in [Subs -> Seq(Stamped)] /\ got' \in [Subs -> Seq(Stamped)]
      /\ dropped' \in [Subs -> SUBSET Stamped]
  <2>1. CASE UNCHANGED outVars
    BY <2>1 DEF outVars, BrokerTypeOK
  <2>2. ASSUME NEW m \in Calls, NEW s \in Subs, Send(m, s)
        PROVE  /\ chan' \in [Subs -> Seq(Stamped)] /\ got' \in [Subs -> Seq(Stamped)]
               /\ dropped' \in [Subs -> SUBSET Stamped]
    <3>1. Current(m) \in Stamped
      BY <2>2, CurrentEvent DEF Send
    <3>2. Append(chan[s], Current(m)) \in Seq(Stamped)
      BY <3>1 DEF BrokerTypeOK
    <3>3. got' = got
      BY <2>2 DEF Send
    <3>4. CASE Len(chan[s]) < Cap
      BY <2>2, <3>2, <3>3, <3>4 DEF Send, BrokerTypeOK
    <3>5. CASE ~(Len(chan[s]) < Cap)
      <4>1. dropped' = [dropped EXCEPT ![s] = dropped[s] \cup {Current(m)}] /\ chan' = chan
        BY <2>2, <3>5 DEF Send
      <4>2. dropped[s] \cup {Current(m)} \in SUBSET Stamped
        BY <3>1 DEF BrokerTypeOK
      <4> QED
        BY <3>3, <4>1, <4>2 DEF BrokerTypeOK
    <3> QED
      BY <3>4, <3>5
  <2>3. ASSUME NEW s \in Subs, Take(s)
        PROVE  /\ chan' \in [Subs -> Seq(Stamped)] /\ got' \in [Subs -> Seq(Stamped)]
               /\ dropped' \in [Subs -> SUBSET Stamped]
    <3>1. chan[s] \in Seq(Stamped) /\ got[s] \in Seq(Stamped) /\ chan[s] # << >>
      BY <2>3 DEF Take, BrokerTypeOK
    <3>2. Head(chan[s]) \in Stamped /\ Tail(chan[s]) \in Seq(Stamped)
      BY <3>1
    <3>3. Append(got[s], Head(chan[s])) \in Seq(Stamped)
      BY <3>1, <3>2
    <3> QED
      BY <2>3, <3>2, <3>3 DEF Take, BrokerTypeOK
  <2> QED
    BY <2>1, <2>2, <2>3, OutFrame
<1> QED
  BY <1>1, <1>2, <1>3 DEF BrokerTypeOK

\* The mutex excludes Publish from Publish, and from Subscribe and Unsubscribe.
LEMMA MutexStep ==
    ASSUME CallInv, BrokerTypeOK, MutexInv, [Moves]_vars
    PROVE  MutexInv'
<1>n. \A m \in Calls : m # Nil
  BY NilAssumption
<1>s. UNCHANGED subVars \/ (UNCHANGED brokerVars /\ (mu = Nil \/ subscribers' = subscribers))
  <2>1. ASSUME NEW s \in Subs, StreamStep(s)
        PROVE  UNCHANGED brokerVars /\ (mu = Nil \/ subscribers' = subscribers)
    BY <2>1 DEF StreamStep, Subscribe, Leave, Unsubscribe, Take, EndOfStream, brokerVars, subVars
  <2> QED
    BY <2>1, SubFrame
<1>1. CASE UNCHANGED brokerVars
  <2>1. \A m \in Calls : ~Publish(m) /\ (Published(m) => mu # m)
    BY <1>1, <1>n DEF Publish, Published, brokerVars
  <2>2. \A m \in Calls : pc'[m] = "sending" <=> pc[m] = "sending"
    BY <2>1, PcMoves DEF MutexInv
  <2> QED
    BY <1>1, <1>s, <2>2 DEF MutexInv, brokerVars, subVars
<1>2. ASSUME NEW m \in Calls, Publish(m)
      PROVE  MutexInv'
  <2>1. /\ mu = Nil /\ mu' = m /\ todo' = subscribers /\ pc'[m] = "sending"
        /\ subscribers' = subscribers
        /\ \A n \in Calls : n # m => pc'[n] = pc[n]
    BY <1>2 DEF Publish, Goto, CallInv, subVars
  <2>2. Len(events') # 0 /\ events'[Len(events')].by = m
    <3>1. /\ Len(events) \in Nat /\ Len(events') = Len(events) + 1
          /\ events'[Len(events) + 1] = [no |-> Len(events) + 1, by |-> m, emp |-> existing[m]]
      BY <1>2, PublishedEvent
    <3> QED
      BY <3>1
  <2> QED
    BY <1>n, <2>1, <2>2 DEF MutexInv
<1>3. ASSUME NEW m \in Calls, Published(m)
      PROVE  MutexInv'
  BY <1>3, <1>n DEF Published, Return, CallInv, MutexInv, subVars
<1>4. ASSUME NEW m \in Calls, NEW s \in Subs, Send(m, s)
      PROVE  MutexInv'
  BY <1>4, <1>n DEF Send, callVars, MutexInv, subVars
<1> QED
  BY <1>1, <1>2, <1>3, <1>4, BrokerFrame

\* The map holds exactly the channels that are not closed.
LEMMA SubStep ==
    ASSUME BrokerTypeOK, SubInv, [Moves]_vars
    PROVE  SubInv'
<1>1. CASE UNCHANGED subVars
  BY <1>1 DEF subVars, SubInv
<1>2. ASSUME NEW s \in Subs, StreamStep(s)
      PROVE  SubInv'
  BY <1>2 DEF StreamStep, Subscribe, Leave, Unsubscribe, Take, EndOfStream, subVars, SubInv, BrokerTypeOK
<1> QED
  BY <1>1, <1>2, SubFrame

\* Only Publish adds an event.
LEMMA EventsFrame ==
    ASSUME BrokerTypeOK, [Moves]_vars
    PROVE  events' = events \/ \E m \in Calls : Publish(m)
<1>1. ASSUME NEW m \in Calls, Published(m) \/ \E s \in Subs : Send(m, s)
      PROVE  events' = events
  BY <1>1 DEF Published, Send
<1> QED
  BY <1>1, BrokerFrame DEF brokerVars

\* What the return of Publish leaves.
LEMMA PublishedReturns ==
    ASSUME CallInv, NEW m \in Calls, Published(m)
    PROVE  /\ pc[m] = "sending" /\ pc'[m] = "done" /\ answer'[m] = "value"
           /\ result'[m] = <<existing[m]>>
BY DEF Published, Return, CallInv

\* A call is announced once, and answers what was announced.
LEMMA EventStep ==
    ASSUME CallInv, BrokerTypeOK, MutexInv, EventInv, [Moves]_vars
    PROVE  EventInv'
<1> DEFINE Sound(k) == LET b == events[k].by IN
               /\ events[k].no = k
               /\ pc[b] \in {"sending", "done"}
               /\ pc[b] = "sending" => events[k].emp = existing[b]
               /\ pc[b] = "done" => answer[b] = "value" /\ result[b] = <<events[k].emp>>
           Announced(m) == \E k \in 1 .. Len(events) : events[k].by = m
           Ready(m) == (pc[m] = "done" /\ Creates(m) /\ answer[m] = "value") \/ pc[m] = "sending"
<1>0. /\ \A k \in 1 .. Len(events) : Sound(k)
      /\ \A j, k \in 1 .. Len(events) : events[j].by = events[k].by => j = k
      /\ \A m \in Calls : Ready(m) => Announced(m)
  BY DEF EventInv
<1>a. \A k \in 1 .. Len(events) : events[k] \in Stamped
  BY DEF BrokerTypeOK
<1>t. \A k \in 1 .. Len(events) : events[k].by \in Calls
  BY <1>a DEF Stamped
<1>1. ASSUME NEW k \in 1 .. Len(events), events'[k] = events[k]
      PROVE  Sound(k)'
  <2>0. PICK b \in Calls : b = events[k].by
    BY <1>t
  <2>1. PICK e : e = events[k] /\ b = e.by
    BY <2>0
  <2>2. /\ e.no = k /\ pc[b] \in {"sending", "done"}
        /\ pc[b] = "sending" => e.emp = existing[b]
        /\ pc[b] = "done" => answer[b] = "value" /\ result[b] = <<e.emp>>
    BY <1>0, <2>1
  <2>3. /\ pc'[b] \in {"sending", "done"}
        /\ pc'[b] = "sending" => e.emp = existing'[b]
        /\ pc'[b] = "done" => answer'[b] = "value" /\ result'[b] = <<e.emp>>
    <3>1. CASE pc[b] = "done"
      BY <2>2, <3>1, PcMoves
    <3>2. CASE pc[b] = "sending" /\ ~Published(b)
      BY <2>2, <3>2, PcMoves
    <3>3. CASE pc[b] = "sending" /\ Published(b)
      BY <2>2, <3>3, PublishedReturns
    <3> QED
      BY <2>2, <3>1, <3>2, <3>3
  <2>4. events'[k] = e
    BY <1>1, <2>1
  <2> QED
    BY <2>1, <2>2, <2>3, <2>4
<1>2. ASSUME NEW n \in Calls, Ready(n)', ~Publish(n)
      PROVE  Announced(n)
  <2>1. CASE pc'[n] = "sending"
    BY <1>0, <1>2, <2>1, PcMoves
  <2>2. CASE pc'[n] = "done" /\ Creates(n)' /\ answer'[n] = "value"
    <3>1. CASE pc[n] = "done"
      <4>1. input'[n] = input[n] /\ answer'[n] = answer[n]
        BY <3>1, PcMoves
      <4> QED
        BY <1>0, <2>2, <3>1, <4>1 DEF Creates
    <3>2. CASE pc[n] # "done"
      BY <1>0, <2>2, <3>2, PcMoves, PublishedReturns
    <3> QED
      BY <3>1, <3>2
  <2> QED
    BY <1>2, <2>1, <2>2
<1>3. CASE events' = events
  <2>1. \A k \in 1 .. Len(events') : Sound(k)'
    BY <1>1, <1>3
  <2>2. \A n \in Calls : ~Publish(n)
    <3> SUFFICES ASSUME NEW n \in Calls, Publish(n)
                 PROVE  FALSE
      OBVIOUS
    <3>1. Len(events) \in Nat /\ Len(events') = Len(events) + 1
      BY PublishedEvent
    <3> QED
      BY <1>3, <3>1
  <2>3. \A n \in Calls : Ready(n)' => Announced(n)'
    BY <1>2, <1>3, <2>2
  <2> QED
    BY <1>0, <1>3, <2>1, <2>3 DEF EventInv
<1>4. ASSUME NEW m \in Calls, Publish(m)
      PROVE  EventInv'
  <2>1. /\ Len(events) \in Nat /\ Len(events') = Len(events) + 1
        /\ \A k \in 1 .. Len(events) : events'[k] = events[k]
        /\ events'[Len(events) + 1] = [no |-> Len(events) + 1, by |-> m, emp |-> existing[m]]
    BY <1>4, PublishedEvent
  <2>2. pc[m] = "publish" /\ pc'[m] = "sending" /\ existing' = existing
    BY <1>4 DEF Publish, Goto, CallInv
  <2>3. /\ events'[Len(events) + 1].by = m /\ events'[Len(events) + 1].no = Len(events) + 1
        /\ events'[Len(events) + 1].emp = existing[m]
    BY <2>1
  <2>4. PICK last \in Nat : last = Len(events) + 1
    BY <2>1
  <2>5. Sound(last)'
    BY <2>2, <2>3, <2>4
  <2>6. \A k \in 1 .. Len(events) : events[k].by # m
    BY <1>0, <2>2
  <2>7. \A k \in 1 .. Len(events') : Sound(k)'
    <3> SUFFICES ASSUME NEW k \in 1 .. Len(events')
                 PROVE  Sound(k)'
      OBVIOUS
    <3>1. k = last \/ k \in 1 .. Len(events)
      BY <2>1, <2>4
    <3> QED
      BY <1>1, <2>1, <2>5, <3>1
  <2>8. \A j, k \in 1 .. Len(events') : events'[j].by = events'[k].by => j = k
    BY <1>0, <2>1, <2>3, <2>6
  <2>9. \A n \in Calls : Ready(n)' => Announced(n)'
    <3> SUFFICES ASSUME NEW n \in Calls, Ready(n)'
                 PROVE  Announced(n)'
      OBVIOUS
    <3>1. CASE n = m
      BY <2>1, <2>3, <3>1
    <3>2. CASE n # m
      <4>1. ~Publish(n)
        BY <1>4, <3>2 DEF Publish
      <4>2. Announced(n)
        BY <1>2, <4>1
      <4> QED
        BY <2>1, <4>2
    <3> QED
      BY <3>1, <3>2
  <2> QED
    BY <2>7, <2>8, <2>9 DEF EventInv
<1> QED
  BY <1>3, <1>4, EventsFrame

\* Stamps are numbers.
LEMMA Stamps ==
    ASSUME NEW q \in Seq(Stamped)
    PROVE  Len(q) \in Nat /\ \A k \in 1 .. Len(q) : q[k] \in Stamped /\ q[k].no \in Nat
<1>1. Len(q) \in Nat /\ \A k \in 1 .. Len(q) : q[k] \in Stamped
  OBVIOUS
<1>2. \A e \in Stamped : e.no \in Nat
  BY DEF Stamped
<1> QED
  BY <1>1, <1>2

\* A queue grows in order by an event that is later than all that are in it.
LEMMA IncreasingAppend ==
    ASSUME NEW q \in Seq(Stamped), NEW e \in Stamped, Increasing(q),
           \A k \in 1 .. Len(q) : q[k].no < e.no
    PROVE  Increasing(Append(q, e))
<1> DEFINE new == Append(q, e)
<1>1. /\ Len(q) \in Nat /\ Len(new) = Len(q) + 1 /\ new[Len(q) + 1] = e
      /\ \A k \in 1 .. Len(q) : new[k] = q[k]
  OBVIOUS
<1> HIDE DEF new
<1> SUFFICES ASSUME NEW j \in 1 .. Len(new), NEW k \in 1 .. Len(new), j < k
             PROVE  new[j].no < new[k].no
  BY DEF Increasing, new
<1>2. j \in 1 .. Len(q) /\ new[j] = q[j]
  BY <1>1
<1>3. CASE k = Len(q) + 1
  BY <1>1, <1>2, <1>3
<1>4. CASE k # Len(q) + 1
  <2>1. k \in 1 .. Len(q) /\ new[k] = q[k]
    BY <1>1, <1>4
  <2> QED
    BY <1>2, <2>1 DEF Increasing
<1> QED
  BY <1>3, <1>4

\* A later event may be sent.
LEMMA InOrderSend ==
    ASSUME NEW taken \in Seq(Stamped), NEW queue \in Seq(Stamped), NEW e \in Stamped,
           NEW bound \in Int, InOrder(taken, queue, bound), bound < e.no
    PROVE  InOrder(taken, Append(queue, e), e.no)
<1>1. /\ e.no \in Nat
      /\ \A k \in 1 .. Len(taken) : taken[k].no \in Nat /\ taken[k].no < e.no
      /\ \A k \in 1 .. Len(queue) : queue[k].no \in Nat /\ queue[k].no < e.no
  <2>1. e.no \in Nat
    BY DEF Stamped
  <2>2. \A k \in 1 .. Len(taken) : taken[k].no \in Nat /\ taken[k].no <= bound
    BY Stamps DEF InOrder
  <2>3. \A k \in 1 .. Len(queue) : queue[k].no \in Nat /\ queue[k].no <= bound
    BY Stamps DEF InOrder
  <2> QED
    BY <2>1, <2>2, <2>3
<1> DEFINE new == Append(queue, e)
<1>2. /\ Len(queue) \in Nat /\ Len(new) = Len(queue) + 1 /\ new[Len(queue) + 1] = e
      /\ \A k \in 1 .. Len(queue) : new[k] = queue[k]
  OBVIOUS
<1>3. Increasing(new)
  BY <1>1, IncreasingAppend DEF InOrder
<1> HIDE DEF new
<1>4. \A k \in 1 .. Len(new) : k = Len(queue) + 1 \/ k \in 1 .. Len(queue)
  BY <1>2
<1>5. \A k \in 1 .. Len(new) : new[k].no <= e.no
  BY <1>1, <1>2, <1>4
<1>6. \A j \in 1 .. Len(taken), k \in 1 .. Len(new) : taken[j].no < new[k].no
  BY <1>1, <1>2, <1>4 DEF InOrder
<1>7. \A k \in 1 .. Len(taken) : taken[k].no <= e.no
  BY <1>1
<1>8. Increasing(taken)
  BY DEF InOrder
<1>9. InOrder(taken, new, e.no)
  BY <1>3, <1>5, <1>6, <1>7, <1>8 DEF InOrder
<1> QED
  BY <1>9 DEF new

\* The oldest event may be taken.
LEMMA InOrderTake ==
    ASSUME NEW taken \in Seq(Stamped), NEW queue \in Seq(Stamped), queue # << >>,
           NEW bound \in Int, InOrder(taken, queue, bound)
    PROVE  InOrder(Append(taken, Head(queue)), Tail(queue), bound)
<1> DEFINE t == Append(taken, Head(queue))
           q == Tail(queue)
<1>1. /\ Len(queue) \in Nat \ {0} /\ Len(q) = Len(queue) - 1
      /\ \A k \in 1 .. Len(q) : q[k] = queue[k + 1]
  OBVIOUS
<1>2. Head(queue) = queue[1] /\ queue[1] \in Stamped /\ 1 \in 1 .. Len(queue)
  BY <1>1
<1>3. /\ Len(taken) \in Nat /\ Len(t) = Len(taken) + 1 /\ t[Len(taken) + 1] = queue[1]
      /\ \A k \in 1 .. Len(taken) : t[k] = taken[k]
  BY <1>2
<1>4. Increasing(t)
  <2>1. \A k \in 1 .. Len(taken) : taken[k].no < Head(queue).no
    BY <1>2 DEF InOrder
  <2> QED
    BY <1>2, <2>1, IncreasingAppend DEF InOrder
<1> HIDE DEF t, q
<1>5. \A k \in 1 .. Len(q) : k + 1 \in 1 .. Len(queue) /\ 1 < k + 1
  BY <1>1
<1>6. Increasing(q)
  <2>1. \A j, k \in 1 .. Len(queue) : j < k => queue[j].no < queue[k].no
    BY DEF Increasing, InOrder
  <2> SUFFICES ASSUME NEW j \in 1 .. Len(q), NEW k \in 1 .. Len(q), j < k
               PROVE  q[j].no < q[k].no
    BY DEF Increasing
  <2>2. j + 1 \in 1 .. Len(queue) /\ k + 1 \in 1 .. Len(queue) /\ j + 1 < k + 1
    BY <1>1, <1>5
  <2>3. q[j] = queue[j + 1] /\ q[k] = queue[k + 1]
    BY <1>1
  <2> QED
    BY <2>1, <2>2, <2>3
<1>7. \A k \in 1 .. Len(t) : k = Len(taken) + 1 \/ k \in 1 .. Len(taken)
  BY <1>3
<1>8. \A j \in 1 .. Len(t), k \in 1 .. Len(q) : t[j].no < q[k].no
  <2> SUFFICES ASSUME NEW j \in 1 .. Len(t), NEW k \in 1 .. Len(q)
               PROVE  t[j].no < q[k].no
    OBVIOUS
  <2>1. q[k] = queue[k + 1] /\ k + 1 \in 1 .. Len(queue) /\ 1 < k + 1
    BY <1>1, <1>5
  <2>2. CASE j = Len(taken) + 1
    BY <1>2, <1>3, <2>1, <2>2 DEF Increasing, InOrder
  <2>3. CASE j \in 1 .. Len(taken)
    BY <1>3, <2>1, <2>3 DEF InOrder
  <2> QED
    BY <1>7, <2>2, <2>3
<1>9. /\ \A k \in 1 .. Len(t) : t[k].no <= bound
      /\ \A k \in 1 .. Len(q) : q[k].no <= bound
  BY <1>1, <1>2, <1>3, <1>5, <1>7 DEF InOrder
<1>10. InOrder(t, q, bound)
  BY <1>4, <1>6, <1>8, <1>9 DEF InOrder
<1> QED
  BY <1>10 DEF t, q

\* The bound may be raised.
LEMMA InOrderBound ==
    ASSUME NEW taken \in Seq(Stamped), NEW queue \in Seq(Stamped),
           NEW low \in Int, NEW bound \in Int, low <= bound, InOrder(taken, queue, low)
    PROVE  InOrder(taken, queue, bound)
<1>1. \A k \in 1 .. Len(taken) : taken[k].no \in Nat
  BY Stamps
<1>2. \A k \in 1 .. Len(queue) : queue[k].no \in Nat
  BY Stamps
<1> QED
  BY <1>1, <1>2 DEF InOrder

\* Events reach the subscribers in order.
LEMMA OrderStep ==
    ASSUME CallInv, BrokerTypeOK, MutexInv, EventInv, OrderInv, [Moves]_vars
    PROVE  OrderInv'
<1> DEFINE low(s) == IF s \in todo THEN Len(events) - 1 ELSE Len(events)
           new(s) == IF s \in todo' THEN Len(events') - 1 ELSE Len(events')
<1>t. /\ Len(events) \in Nat
      /\ \A s \in Subs : got[s] \in Seq(Stamped) /\ chan[s] \in Seq(Stamped) /\ low(s) \in Int
  BY DEF BrokerTypeOK
<1>0. \A s \in Subs : InOrder(got[s], chan[s], low(s))
  BY DEF OrderInv
<1>g. SUFFICES ASSUME NEW s \in Subs
               PROVE  InOrder(got'[s], chan'[s], new(s))
  BY DEF OrderInv
<1>1. CASE \E m \in Calls : Publish(m)
  <2>1. PICK m \in Calls : Publish(m)
    BY <1>1
  <2>2. Len(events') = Len(events) + 1
    BY <2>1, PublishedEvent
  <2>3. mu = Nil /\ todo = {} /\ UNCHANGED outVars
    BY <2>1 DEF Publish, MutexInv
  <2>4. new(s) \in Int /\ low(s) <= new(s)
    BY <1>t, <2>2, <2>3
  <2>5. got'[s] = got[s] /\ chan'[s] = chan[s]
    BY <2>3 DEF outVars
  <2> HIDE DEF low, new
  <2> QED
    BY <1>0, <1>t, <2>4, <2>5, InOrderBound
<1>2. CASE events' = events /\ todo' \subseteq todo /\ got'[s] = got[s] /\ chan'[s] = chan[s]
  <2>1. new(s) \in Int /\ low(s) <= new(s)
    BY <1>t, <1>2
  <2> HIDE DEF low, new
  <2> QED
    BY <1>0, <1>t, <1>2, <2>1, InOrderBound
<1>3. CASE \E m \in Calls : Send(m, s) /\ Len(chan[s]) < Cap
  <2>1. PICK m \in Calls : Send(m, s) /\ Len(chan[s]) < Cap
    BY <1>3
  <2>2. Current(m) \in Stamped /\ Current(m).no = Len(events)
    BY <2>1, CurrentEvent DEF Send
  <2>3. /\ s \in todo /\ s \notin todo' /\ events' = events /\ got' = got
        /\ chan'[s] = Append(chan[s], Current(m))
    BY <2>1 DEF Send, BrokerTypeOK
  <2>4. low(s) = Len(events) - 1 /\ new(s) = Len(events) /\ low(s) < Current(m).no
    BY <1>t, <2>2, <2>3
  <2> HIDE DEF low, new
  <2> QED
    BY <1>0, <1>t, <2>2, <2>3, <2>4, InOrderSend
<1>4. CASE Take(s)
  <2>1. /\ chan[s] # << >> /\ got'[s] = Append(got[s], Head(chan[s])) /\ chan'[s] = Tail(chan[s])
        /\ events' = events /\ todo' = todo
    BY <1>4 DEF Take, BrokerTypeOK
  <2>2. new(s) = low(s)
    BY <2>1
  <2> HIDE DEF low, new
  <2> QED
    BY <1>0, <1>t, <2>1, <2>2, InOrderTake
<1>5. ASSUME NEW m \in Calls, NEW r \in Subs, Send(m, r), r # s \/ ~(Len(chan[s]) < Cap)
      PROVE  events' = events /\ todo' \subseteq todo /\ got'[s] = got[s] /\ chan'[s] = chan[s]
  BY <1>5 DEF Send, BrokerTypeOK
<1>6. ASSUME NEW r \in Subs, Take(r), r # s
      PROVE  events' = events /\ todo' \subseteq todo /\ got'[s] = got[s] /\ chan'[s] = chan[s]
  BY <1>6 DEF Take, BrokerTypeOK
<1>7. ASSUME UNCHANGED outVars, ~\E m \in Calls : Publish(m)
      PROVE  events' = events /\ todo' \subseteq todo /\ got'[s] = got[s] /\ chan'[s] = chan[s]
  <2>1. ASSUME NEW m \in Calls, Published(m) \/ \E r \in Subs : Send(m, r)
        PROVE  events' = events /\ todo' \subseteq todo
    BY <2>1 DEF Published, Send
  <2>2. events' = events /\ todo' \subseteq todo
    BY <1>7, <2>1, BrokerFrame DEF brokerVars
  <2> QED
    BY <1>7, <2>2 DEF outVars
<1> QED
  BY <1>1, <1>2, <1>3, <1>4, <1>5, <1>6, <1>7, OutFrame

\* The elements of a concatenation, of a sequence that grew, and of one whose head
\* was taken.
LEMMA ConcatSet ==
    ASSUME NEW S, NEW a \in Seq(S), NEW b \in Seq(S)
    PROVE  ToSet(a \o b) = ToSet(a) \cup ToSet(b)
<1> DEFINE c == a \o b
<1>1. /\ Len(a) \in Nat /\ Len(b) \in Nat /\ Len(c) = Len(a) + Len(b)
      /\ DOMAIN a = 1 .. Len(a) /\ DOMAIN b = 1 .. Len(b) /\ DOMAIN c = 1 .. Len(c)
      /\ \A i \in 1 .. Len(c) : c[i] = IF i <= Len(a) THEN a[i] ELSE b[i - Len(a)]
  BY ConcatProperties
<1> HIDE DEF c
<1>2. \A i \in DOMAIN a : i \in DOMAIN c /\ c[i] = a[i]
  BY <1>1
<1>3. \A i \in DOMAIN b : Len(a) + i \in DOMAIN c /\ c[Len(a) + i] = b[i]
  BY <1>1
<1>4. \A i \in DOMAIN c : \/ i \in DOMAIN a /\ c[i] = a[i]
                          \/ i - Len(a) \in DOMAIN b /\ c[i] = b[i - Len(a)]
  BY <1>1
<1> QED
  <2>1. ToSet(a) \subseteq ToSet(c)
    BY <1>2 DEF ToSet
  <2>2. ToSet(b) \subseteq ToSet(c)
    BY <1>3 DEF ToSet
  <2>3. ToSet(c) \subseteq ToSet(a) \cup ToSet(b)
    BY <1>4 DEF ToSet
  <2> QED
    BY <2>1, <2>2, <2>3 DEF c

LEMMA AppendSet ==
    ASSUME NEW S, NEW q \in Seq(S), NEW e \in S
    PROVE  ToSet(Append(q, e)) = ToSet(q) \cup {e}
<1> DEFINE new == Append(q, e)
<1>1. /\ Len(q) \in Nat /\ DOMAIN q = 1 .. Len(q) /\ DOMAIN new = 1 .. Len(q) + 1
      /\ new[Len(q) + 1] = e /\ \A k \in 1 .. Len(q) : new[k] = q[k]
  OBVIOUS
<1> HIDE DEF new
<1>2. \A k \in DOMAIN new : k = Len(q) + 1 \/ k \in DOMAIN q
  BY <1>1
<1>3. Len(q) + 1 \in DOMAIN new /\ \A k \in DOMAIN q : k \in DOMAIN new
  BY <1>1
<1> QED
  BY <1>1, <1>2, <1>3 DEF ToSet, new

LEMMA TailSet ==
    ASSUME NEW S, NEW q \in Seq(S), q # << >>
    PROVE  ToSet(q) = ToSet(Tail(q)) \cup {Head(q)}
<1> DEFINE t == Tail(q)
<1>1. /\ Len(q) \in Nat \ {0} /\ DOMAIN q = 1 .. Len(q) /\ DOMAIN t = 1 .. Len(q) - 1
      /\ Head(q) = q[1] /\ \A k \in 1 .. Len(q) - 1 : t[k] = q[k + 1]
  OBVIOUS
<1> HIDE DEF t
<1>2. \A k \in DOMAIN q : k = 1 \/ (k - 1 \in DOMAIN t /\ t[k - 1] = q[k])
  BY <1>1
<1>3. 1 \in DOMAIN q /\ \A k \in DOMAIN t : k + 1 \in DOMAIN q /\ t[k] = q[k + 1]
  BY <1>1
<1> QED
  <2>1. ToSet(t) \subseteq ToSet(q)
    BY <1>3 DEF ToSet
  <2>2. Head(q) \in ToSet(q)
    BY <1>1, <1>3 DEF ToSet
  <2>3. ToSet(q) \subseteq ToSet(t) \cup {Head(q)}
    BY <1>1, <1>2 DEF ToSet
  <2> QED
    BY <2>1, <2>2, <2>3 DEF t

\* Readers and later sends take nothing from them.
LEMMA ReachedGrows ==
    ASSUME BrokerTypeOK, MutexInv, EventInv, [Moves]_vars, NEW s \in Subs
    PROVE  /\ Reached(s) \subseteq Reached(s)'
           /\ Reached(s)' \subseteq Reached(s) \cup ToSet(events)
           /\ \A m \in Calls : Send(m, s) => events[Len(events)] \in Reached(s)'
<1>t. got[s] \in Seq(Stamped) /\ chan[s] \in Seq(Stamped)
  BY DEF BrokerTypeOK
<1>1. ASSUME NEW m \in Calls, Send(m, s)
      PROVE  \E e \in ToSet(events) : e = events[Len(events)] /\ Reached(s)' = Reached(s) \cup {e}
  <2>1. PICK e \in Stamped : e = Current(m) /\ e = events[Len(events)]
    BY <1>1, CurrentEvent DEF Send
  <2>e. e \in ToSet(events)
    <3>1. Len(events) \in DOMAIN events
      BY <1>1, CurrentEvent DEF Send, BrokerTypeOK
    <3> QED
      BY <2>1, <3>1 DEF ToSet
  <2>2. got' = got
    BY <1>1 DEF Send
  <2>3. CASE Len(chan[s]) < Cap
    <3>1. chan'[s] = Append(chan[s], e) /\ dropped' = dropped
      BY <1>1, <2>1, <2>3 DEF Send, BrokerTypeOK
    <3>2. ToSet(chan'[s]) = ToSet(chan[s]) \cup {e}
      BY <1>t, <3>1, AppendSet
    <3> QED
      BY <2>1, <2>2, <2>e, <3>1, <3>2 DEF Reached
  <2>4. CASE ~(Len(chan[s]) < Cap)
    <3>1. dropped'[s] = dropped[s] \cup {e} /\ chan' = chan
      BY <1>1, <2>1, <2>4 DEF Send, BrokerTypeOK
    <3> QED
      BY <2>1, <2>2, <2>e, <3>1 DEF Reached
  <2> QED
    BY <2>3, <2>4
<1>2. ASSUME NEW m \in Calls, NEW r \in Subs, Send(m, r), r # s
      PROVE  Reached(s)' = Reached(s)
  <2>1. got'[s] = got[s] /\ chan'[s] = chan[s] /\ dropped'[s] = dropped[s]
    BY <1>2 DEF Send, BrokerTypeOK
  <2> QED
    BY <2>1 DEF Reached
<1>3. ASSUME Take(s)
      PROVE  Reached(s)' = Reached(s)
  <2>1. /\ chan[s] # << >> /\ got'[s] = Append(got[s], Head(chan[s])) /\ chan'[s] = Tail(chan[s])
        /\ dropped' = dropped
    BY <1>3 DEF Take, BrokerTypeOK
  <2>2. Head(chan[s]) \in Stamped
    BY <1>t, <2>1
  <2>3. ToSet(got'[s]) = ToSet(got[s]) \cup {Head(chan[s])}
    BY <1>t, <2>1, <2>2, AppendSet
  <2>4. ToSet(chan[s]) = ToSet(chan'[s]) \cup {Head(chan[s])}
    BY <1>t, <2>1, TailSet
  <2> QED
    BY <2>1, <2>3, <2>4 DEF Reached
<1>4. ASSUME NEW r \in Subs, Take(r), r # s
      PROVE  Reached(s)' = Reached(s)
  <2>1. got'[s] = got[s] /\ chan'[s] = chan[s] /\ dropped'[s] = dropped[s]
    BY <1>4 DEF Take, BrokerTypeOK
  <2> QED
    BY <2>1 DEF Reached
<1>5. ASSUME UNCHANGED outVars
      PROVE  Reached(s)' = Reached(s)
  BY <1>5 DEF outVars, Reached
<1>6. Reached(s) \subseteq Reached(s)' /\ Reached(s)' \subseteq Reached(s) \cup ToSet(events)
  BY <1>1, <1>2, <1>3, <1>4, <1>5, OutFrame
<1> QED
  BY <1>1, <1>6

\* No event is lost but for a full channel.
LEMMA AccountedStep ==
    ASSUME CallInv, BrokerTypeOK, MutexInv, SubInv, EventInv, Accounted, BrokerTypeOK', [Moves]_vars
    PROVE  Accounted'
<1>n. Nil \notin Calls
  BY NilAssumption
<1>t. /\ Len(events) \in Nat /\ subscribers \subseteq Subs /\ subscribers' \subseteq Subs
      /\ \A k \in 1 .. Len(events) : events[k] \in Stamped
      /\ \A s \in Subs : since[s] \in Nat
  BY DEF BrokerTypeOK
<1>b. \A k \in 1 .. Len(events) : events[k].by \in Calls
  BY <1>t DEF Stamped
<1>0. \A s \in subscribers : \A k \in since[s] + 1 .. Len(events) :
          events[k] \in Reached(s) \/ (mu = events[k].by /\ s \in todo)
  <2>1. \A s \in Subs : ToSet(got[s] \o chan[s]) = ToSet(got[s]) \cup ToSet(chan[s])
    BY ConcatSet DEF BrokerTypeOK
  <2> QED
    BY <1>t, <2>1 DEF Accounted, Reached
<1>g. SUFFICES ASSUME NEW s \in subscribers', NEW k \in since'[s] + 1 .. Len(events')
               PROVE  events'[k] \in Reached(s)' \/ (mu' = events'[k].by /\ s \in todo')
  <2>1. \A s \in Subs : ToSet(got'[s] \o chan'[s]) = ToSet(got'[s]) \cup ToSet(chan'[s])
    BY ConcatSet DEF BrokerTypeOK
  <2> QED
    BY <1>t, <2>1 DEF Accounted, Reached
<1>1. CASE s \notin subscribers
  <2>1. since'[s] = Len(events) /\ events' = events
    <3>1. ~UNCHANGED subVars
      BY <1>1 DEF subVars
    <3>2. PICK r \in Subs : StreamStep(r)
      BY <3>1, SubFrame
    <3>3. Subscribe(r) /\ r = s
      BY <1>1, <3>2 DEF StreamStep, Subscribe, Leave, Unsubscribe, Take, EndOfStream, subVars
    <3> QED
      BY <3>3 DEF Subscribe, BrokerTypeOK
  <2> QED
    BY <1>t, <2>1
<1>2. CASE s \in subscribers
  <2>1. since'[s] = since[s]
    <3>1. ASSUME NEW r \in Subs, StreamStep(r)
          PROVE  since'[s] = since[s]
      <4>1. CASE Subscribe(r)
        <5>1. state[r] = "idle"
          BY <4>1 DEF Subscribe
        <5>2. r # s
          BY <1>2, <1>t, <5>1 DEF SubInv
        <5> QED
          BY <1>t, <4>1, <5>2 DEF Subscribe, BrokerTypeOK
      <4> QED
        BY <3>1, <4>1 DEF StreamStep, Leave, Unsubscribe, Take, EndOfStream, subVars
    <3> QED
      BY <3>1, SubFrame DEF subVars
  <2>s. s \in Subs /\ since[s] \in Nat
    BY <1>2, <1>t
  <2>2. CASE \E m \in Calls : Publish(m)
    <3>1. PICK m \in Calls : Publish(m)
      BY <2>2
    <3>2. /\ Len(events') = Len(events) + 1
          /\ \A j \in 1 .. Len(events) : events'[j] = events[j]
          /\ events'[Len(events) + 1] = [no |-> Len(events) + 1, by |-> m, emp |-> existing[m]]
      BY <3>1, PublishedEvent
    <3>3. mu = Nil /\ mu' = m /\ todo' = subscribers
      BY <3>1 DEF Publish
    <3>4. CASE k = Len(events) + 1
      BY <1>2, <3>2, <3>3, <3>4
    <3>5. CASE k # Len(events) + 1
      <4>1. k \in since[s] + 1 .. Len(events) /\ k \in 1 .. Len(events)
        BY <1>t, <2>1, <2>s, <3>2, <3>5
      <4>2. events[k] \in Reached(s)
        BY <1>0, <1>2, <1>b, <1>n, <3>3, <4>1
      <4>3. events'[k] = events[k]
        BY <3>2, <4>1
      <4> QED
        BY <2>s, <4>2, <4>3, ReachedGrows
    <3> QED
      BY <3>4, <3>5
  <2>3. CASE events' = events
    <3>1. k \in since[s] + 1 .. Len(events) /\ k \in 1 .. Len(events) /\ events'[k] = events[k]
      BY <1>t, <2>1, <2>3, <2>s
    <3>2. CASE events[k] \in Reached(s)
      BY <2>s, <3>1, <3>2, ReachedGrows
    <3>3. CASE mu = events[k].by /\ s \in todo
      <4>1. CASE UNCHANGED brokerVars
        BY <3>1, <3>3, <4>1 DEF brokerVars
      <4>2. ASSUME NEW m \in Calls, Published(m)
            PROVE  FALSE
        BY <3>3, <4>2 DEF Published
      <4>3. ASSUME NEW m \in Calls, NEW r \in Subs, Send(m, r), r # s
            PROVE  mu' = events'[k].by /\ s \in todo'
        BY <3>1, <3>3, <4>3 DEF Send
      <4>4. ASSUME NEW m \in Calls, Send(m, s)
            PROVE  events'[k] \in Reached(s)'
        <5>1. pc[m] = "sending" /\ mu = m
          BY <4>4 DEF Send, MutexInv
        <5>2. /\ Len(events) \in Nat \ {0} /\ Current(m) = events[Len(events)]
              /\ events[Len(events)].by = m
          BY <1>n, <5>1, CurrentEvent DEF MutexInv
        <5>3. k = Len(events)
          <6>1. \A i, j \in 1 .. Len(events) : events[i].by = events[j].by => i = j
            BY DEF EventInv
          <6>2. Len(events) \in 1 .. Len(events) /\ events[k].by = events[Len(events)].by
            BY <3>3, <5>1, <5>2
          <6> QED
            BY <3>1, <6>1, <6>2
        <5>4. events[Len(events)] \in Reached(s)'
          BY <2>s, <4>4, ReachedGrows
        <5> QED
          BY <3>1, <5>2, <5>3, <5>4
      <4>5. ASSUME NEW m \in Calls, Publish(m)
            PROVE  FALSE
        BY <1>b, <1>n, <3>1, <3>3, <4>5 DEF Publish
      <4> QED
        BY <4>1, <4>2, <4>3, <4>4, <4>5, BrokerFrame
    <3> QED
      BY <1>0, <1>2, <3>1, <3>2, <3>3
  <2> QED
    BY <2>2, <2>3, EventsFrame
<1> QED
  BY <1>1, <1>2

\* Subscribers get only what was published, and channels are never over-full.
LEMMA SourceStep ==
    ASSUME CallInv, BrokerTypeOK, MutexInv, EventInv, SourceInv, [Moves]_vars
    PROVE  SourceInv'
<1>t. /\ Len(events) \in Nat /\ DOMAIN events = 1 .. Len(events)
      /\ \A s \in Subs : since[s] \in Nat /\ chan[s] \in Seq(Stamped) /\ Len(chan[s]) \in Nat
  BY DEF BrokerTypeOK
<1>1. ToSet(events) \subseteq ToSet(events)' /\ Len(events) <= Len(events)' /\ Len(events)' \in Nat
  <2>1. CASE events' = events
    BY <1>t, <2>1
  <2>2. ASSUME NEW m \in Calls, Publish(m)
        PROVE  /\ ToSet(events) \subseteq ToSet(events)' /\ Len(events) <= Len(events)'
               /\ Len(events)' \in Nat
    <3>1. /\ events' \in Seq(Stamped) /\ Len(events') = Len(events) + 1
          /\ \A k \in 1 .. Len(events) : events'[k] = events[k]
      BY <2>2, PublishedEvent
    <3>2. DOMAIN events' = 1 .. Len(events) + 1
      BY <3>1
    <3>3. \A k \in DOMAIN events : k \in DOMAIN events' /\ events'[k] = events[k]
      BY <1>t, <3>1, <3>2
    <3> QED
      BY <1>t, <3>1, <3>3 DEF ToSet
  <2> QED
    BY <2>1, <2>2, EventsFrame
<1> SUFFICES ASSUME NEW s \in Subs
             PROVE  /\ Reached(s)' \subseteq ToSet(events)'
                    /\ since'[s] <= Len(events')
                    /\ Len(chan'[s]) <= Cap
  BY DEF SourceInv
<1>2. Reached(s)' \subseteq ToSet(events)'
  BY <1>1, ReachedGrows DEF SourceInv
<1>3. since'[s] <= Len(events')
  <2>1. since'[s] = since[s] \/ since'[s] = Len(events)
    <3>1. ASSUME NEW r \in Subs, StreamStep(r)
          PROVE  since'[s] = since[s] \/ since'[s] = Len(events)
      BY <3>1 DEF StreamStep, Subscribe, Leave, Unsubscribe, Take, EndOfStream, subVars, BrokerTypeOK
    <3> QED
      BY <3>1, SubFrame DEF subVars
  <2> QED
    BY <1>1, <1>t, <2>1 DEF SourceInv
<1>4. Len(chan'[s]) <= Cap
  <2>1. CASE chan'[s] = chan[s]
    BY <2>1 DEF SourceInv
  <2>2. ASSUME NEW m \in Calls, NEW r \in Subs, Send(m, r)
        PROVE  Len(chan'[s]) <= Cap
    <3>1. CASE r = s /\ Len(chan[s]) < Cap
      <4>1. PICK e \in Stamped : e = Current(m)
        BY <2>2, CurrentEvent DEF Send
      <4>2. chan'[s] = Append(chan[s], e)
        BY <2>2, <3>1, <4>1 DEF Send, BrokerTypeOK
      <4>3. Len(chan'[s]) = Len(chan[s]) + 1
        BY <1>t, <4>2
      <4> QED
        BY <1>t, <3>1, <4>3, CapAssumption
    <3>2. CASE r # s \/ ~(Len(chan[s]) < Cap)
      <4>1. chan'[s] = chan[s]
        BY <2>2, <3>2 DEF Send, BrokerTypeOK
      <4> QED
        BY <2>1, <4>1
    <3> QED
      BY <3>1, <3>2
  <2>3. ASSUME NEW r \in Subs, Take(r)
        PROVE  Len(chan'[s]) <= Cap
    <3>1. CASE r = s
      <4>1. chan[s] # << >> /\ chan'[s] = Tail(chan[s])
        BY <2>3, <3>1 DEF Take, BrokerTypeOK
      <4>2. Len(chan'[s]) = Len(chan[s]) - 1
        BY <1>t, <4>1
      <4> QED
        BY <1>t, <4>2, CapAssumption DEF SourceInv
    <3>2. CASE r # s
      <4>1. chan'[s] = chan[s]
        BY <2>3, <3>2 DEF Take, BrokerTypeOK
      <4> QED
        BY <2>1, <4>1
    <3> QED
      BY <3>1, <3>2
  <2> QED
    BY <2>1, <2>2, <2>3, OutFrame DEF outVars
<1> QED
  BY <1>2, <1>3, <1>4

\* There are no more events than calls.
LEMMA FewEvents ==
    ASSUME BrokerTypeOK, EventInv
    PROVE  Cardinality(Calls) \in Nat /\ Len(events) <= Cardinality(Calls)
<1> DEFINE f == [k \in 1 .. Len(events) |-> events[k].by]
<1>1. Len(events) \in Nat /\ \A k \in 1 .. Len(events) : events[k] \in Stamped
  BY DEF BrokerTypeOK
<1>2. f \in [1 .. Len(events) -> Calls]
  BY <1>1 DEF Stamped
<1>3. f \in Injection(1 .. Len(events), Calls)
  BY <1>2 DEF Injection, IsInjective, EventInv
<1>4. Cardinality(1 .. Len(events)) <= Cardinality(Calls)
  BY <1>3, CallsAssumption, FS_Injection
<1>5. Cardinality(1 .. Len(events)) = Len(events)
  <2>1. PICK n \in Nat : n = Len(events)
    BY <1>1
  <2>2. Cardinality(1 .. n) = n
    BY FS_Interval
  <2> QED
    BY <2>1, <2>2
<1> QED
  BY <1>4, <1>5, CallsAssumption, FS_CardinalityType

-----------------------------------------------------------------------------
(***************************************************************************)
(* The theorems                                                            *)
(***************************************************************************)
LEMMA InitInv ==
    ASSUME Init
    PROVE  IInv
<1> USE DEF Init
<1>1. CallInv
  BY DEF CallInv, Pcs, CreatePcs, UpdatePcs
<1>2. IsTable(employees)
  BY StartAssumption DEF IsTable
<1>3. BrokerTypeOK /\ SubInv
  BY DEF BrokerTypeOK, SubInv
<1>4. MutexInv
  BY NilAssumption DEF MutexInv
<1>5. EventInv
  BY DEF EventInv
<1>6. OrderInv
  BY DEF OrderInv, InOrder, Increasing
<1>7. Accounted
  BY DEF Accounted
<1>8. ResultInv
  BY DEF ResultInv, Answers
<1>9. SourceInv
  BY CapAssumption DEF SourceInv, Reached, ToSet
<1> QED
  BY <1>1, <1>2, <1>3, <1>4, <1>5, <1>6, <1>7, <1>8, <1>9 DEF IInv

LEMMA StepInv ==
    ASSUME IInv, [Moves]_vars
    PROVE  IInv'
<1> USE DEF IInv
<1>1. CallInv'
  BY CallStep
<1>2. IsTable(employees)'
  BY TableStep
<1>3. BrokerTypeOK'
  BY BrokerTypeStep
<1>4. MutexInv'
  BY MutexStep
<1>5. SubInv'
  BY SubStep
<1>6. EventInv'
  BY EventStep
<1>7. OrderInv'
  BY OrderStep
<1>8. Accounted'
  BY <1>3, AccountedStep
<1>9. ResultInv'
  BY ResultStep
<1>10. SourceInv'
  BY SourceStep
<1> QED
  BY <1>1, <1>2, <1>3, <1>4, <1>5, <1>6, <1>7, <1>8, <1>9, <1>10

\* The invariant holds whether or not contexts are cancelled.
THEOREM MovesInvariant == Init /\ [][Moves]_vars => []IInv
BY InitInv, StepInv, PTL

\* The inductive invariant of the resolvers and the broker.
THEOREM Invariant == Spec => []IInv
<1>1. [Next]_vars => [Moves]_vars
  BY DEF Moves
<1> QED
  BY <1>1, MovesInvariant, PTL DEF Spec

\* What is left of a walk over the map is subscribed.
LEMMA NoSendOnClosedHolds == IInv => NoSendOnClosed
BY DEF IInv, MutexInv, SubInv, BrokerTypeOK, NoSendOnClosed

\* Neighbours of what was taken and what waits are in order.
LEMMA InOrderOnceHolds == IInv => InOrderOnce
<1> SUFFICES ASSUME IInv, NEW s \in Subs, NEW k \in 1 .. Len(got[s] \o chan[s]) - 1
             PROVE  (got[s] \o chan[s])[k].no < (got[s] \o chan[s])[k + 1].no
  BY DEF InOrderOnce
<1>1. PICK a \in Seq(Stamped), b \in Seq(Stamped) : a = got[s] /\ b = chan[s]
  BY DEF IInv, BrokerTypeOK
<1>2. /\ Increasing(a) /\ Increasing(b)
      /\ \A i \in 1 .. Len(a), j \in 1 .. Len(b) : a[i].no < b[j].no
  BY <1>1 DEF IInv, OrderInv, InOrder
<1>3. /\ Len(a) \in Nat /\ Len(b) \in Nat /\ Len(a \o b) = Len(a) + Len(b)
      /\ \A i \in 1 .. Len(a) + Len(b) : (a \o b)[i] = IF i <= Len(a) THEN a[i] ELSE b[i - Len(a)]
  BY ConcatProperties
<1>4. PICK c : c = a \o b
  OBVIOUS
<1>l. PICK la \in Nat, lb \in Nat : la = Len(a) /\ lb = Len(b)
  BY <1>3
<1>c. Len(c) = la + lb /\ k \in 1 .. Len(c) - 1
  BY <1>1, <1>3, <1>4, <1>l
<1>5. k \in 1 .. la + lb - 1 /\ k + 1 \in 1 .. la + lb
  BY <1>c
<1>6. CASE k + 1 <= la
  <2>1. c[k] = a[k] /\ c[k + 1] = a[k + 1] /\ k \in 1 .. la /\ k + 1 \in 1 .. la /\ k < k + 1
    BY <1>3, <1>4, <1>l, <1>5, <1>6
  <2>2. a[k].no < a[k + 1].no
    BY <1>2, <1>4, <1>l, <2>1 DEF Increasing
  <2> QED
    BY <1>1, <1>4, <1>l, <2>1, <2>2
<1>7. CASE k = la
  <2>1. c[k] = a[k] /\ c[k + 1] = b[1] /\ k \in 1 .. la /\ 1 \in 1 .. lb
    BY <1>3, <1>4, <1>l, <1>5, <1>7
  <2> QED
    BY <1>1, <1>2, <1>4, <1>l, <2>1
<1>8. CASE k > la
  <2>1. PICK i \in 1 .. lb : i = k - la /\ i + 1 \in 1 .. lb /\ i < i + 1
    BY <1>5, <1>8
  <2>2. c[k] = b[i] /\ c[k + 1] = b[i + 1]
    BY <1>3, <1>4, <1>l, <1>5, <1>8, <2>1
  <2>3. b[i].no < b[i + 1].no
    BY <1>2, <1>4, <1>l, <2>1 DEF Increasing
  <2> QED
    BY <1>1, <1>4, <1>l, <2>2, <2>3
<1> QED
  <2>1. k + 1 <= la \/ k = la \/ k > la
    BY <1>5
  <2> QED
    BY <1>6, <1>7, <1>8, <2>1

\* An employee is answered exactly when it was announced.
LEMMA AnnouncedIffAnsweredHolds == IInv => AnnouncedIffAnswered
<1> SUFFICES ASSUME IInv, NEW m \in Calls, pc[m] = "done", Creates(m)
             PROVE  /\ answer[m] = "value" <=> \E e \in ToSet(events) : e.by = m
                    /\ \A e \in ToSet(events) : e.by = m => result[m] = <<e.emp>>
  BY DEF AnnouncedIffAnswered, Creates
<1>1. DOMAIN events = 1 .. Len(events)
  BY DEF IInv, BrokerTypeOK
<1>2. ASSUME NEW e \in ToSet(events), e.by = m
      PROVE  answer[m] = "value" /\ result[m] = <<e.emp>>
  <2>1. PICK k \in 1 .. Len(events) : events[k] = e
    BY <1>1, <1>2 DEF ToSet
  <2> QED
    BY <1>2, <2>1 DEF IInv, EventInv
<1>3. ASSUME answer[m] = "value"
      PROVE  \E e \in ToSet(events) : e.by = m
  <2>1. PICK k \in 1 .. Len(events) : events[k].by = m
    BY <1>3 DEF IInv, EventInv
  <2> QED
    BY <1>1, <2>1 DEF ToSet
<1> QED
  BY <1>2, <1>3

\* A step that adds an id to the table is the INSERT of that id.
LEMMA InsertCreates ==
    ASSUME IInv, [Moves]_vars, NEW i \in EmployeeIds, i \notin DOMAIN employees, i \in DOMAIN employees'
    PROVE  \E m \in Calls : pc[m] = "insert" /\ Id(m) = i
<1>1. PICK m \in Calls : Insert(m) \/ Write(m) \/ Delete(m)
  BY TableFrame
<1>2. ~Delete(m)
  BY DEF Delete
<1>3. ~Write(m)
  <2> SUFFICES ASSUME Write(m)
               PROVE  FALSE
    OBVIOUS
  <2>1. Store(Merged(m)) /\ Holds(Id(m))
    BY DEF Write
  <2>2. Merged(m) \in Row /\ Merged(m).id = Id(m)
    BY MergedType DEF Write, IInv
  <2>3. DOMAIN employees' = DOMAIN employees \cup {Id(m)}
    BY <2>1, <2>2, StoredTable DEF IInv
  <2> QED
    BY <2>1, <2>3 DEF Holds
<1>4. CASE Insert(m)
  <2> DEFINE row == [id |-> Id(m), email |-> input[m].email, middle |-> input[m].middle]
  <2>1. row \in Row /\ row.id = Id(m) /\ pc[m] = "insert"
    BY <1>4, InsertType DEF Insert, IInv
  <2>2. Store(row)
    BY <1>4 DEF Insert
  <2> HIDE DEF row
  <2>3. DOMAIN employees' = DOMAIN employees \cup {Id(m)}
    BY <2>1, <2>2, StoredTable DEF IInv
  <2> QED
    BY <2>1, <2>3
<1> QED
  BY <1>1, <1>2, <1>3, <1>4

\* The invariant implies that every variable has its type.
LEMMA TypeOKHolds == IInv => TypeOK
<1> SUFFICES ASSUME IInv
             PROVE  TypeOK
  OBVIOUS
<1>1. CallInv /\ IsTable(employees) /\ BrokerTypeOK /\ EventInv /\ ResultInv /\ SourceInv
  BY DEF IInv
<1>2. Cardinality(Calls) \in Nat /\ Len(events) <= Cardinality(Calls)
  BY <1>1, FewEvents
<1>3. Len(events) \in Nat /\ DOMAIN events = 1 .. Len(events)
  BY <1>1 DEF BrokerTypeOK
<1>4. \A k \in DOMAIN events : events[k] \in Event
  <2> SUFFICES ASSUME NEW k \in DOMAIN events
               PROVE  events[k] \in Event
    OBVIOUS
  <2>1. PICK e \in Stamped : e = events[k]
    BY <1>1 DEF BrokerTypeOK
  <2>2. e.no \in 1 .. Cardinality(Calls)
    BY <1>1, <1>2, <1>3, <2>1 DEF EventInv
  <2>3. e = [no |-> e.no, by |-> e.by, emp |-> e.emp] /\ e.by \in Calls /\ e.emp \in Employee
    BY DEF Stamped
  <2> QED
    BY <2>1, <2>2, <2>3 DEF Event
<1>5. ToSet(events) \subseteq Event /\ events \in Seq(Event)
  <2>1. events = [k \in 1 .. Len(events) |-> events[k]]
    BY <1>1, <1>3 DEF BrokerTypeOK
  <2> QED
    BY <1>3, <1>4, <2>1 DEF ToSet
<1>6. \A q \in Seq(Stamped) : ToSet(q) \subseteq Event => q \in Seq(Event)
  <2> SUFFICES ASSUME NEW q \in Seq(Stamped), ToSet(q) \subseteq Event
               PROVE  q \in Seq(Event)
    OBVIOUS
  <2>1. Len(q) \in Nat /\ q = [k \in 1 .. Len(q) |-> q[k]] /\ DOMAIN q = 1 .. Len(q)
    OBVIOUS
  <2>2. \A k \in 1 .. Len(q) : q[k] \in Event
    BY <2>1 DEF ToSet
  <2> QED
    BY <2>1, <2>2
<1>7. ASSUME NEW s \in Subs
      PROVE  /\ got[s] \in Seq(Event) /\ chan[s] \in Seq(Event) /\ dropped[s] \subseteq Event
             /\ since[s] \in 0 .. Cardinality(Calls)
  <2>1. got[s] \in Seq(Stamped) /\ chan[s] \in Seq(Stamped) /\ since[s] \in Nat
    BY <1>1 DEF BrokerTypeOK
  <2>2. ToSet(got[s]) \subseteq Event /\ ToSet(chan[s]) \subseteq Event /\ dropped[s] \subseteq Event
    BY <1>1, <1>5 DEF SourceInv, Reached
  <2>3. since[s] <= Len(events)
    BY <1>1 DEF SourceInv
  <2> QED
    BY <1>2, <1>3, <1>6, <2>1, <2>2, <2>3
<1>8. /\ got \in [Subs -> Seq(Event)] /\ dropped \in [Subs -> SUBSET Event]
      /\ since \in [Subs -> 0 .. Cardinality(Calls)]
      /\ \A s \in Subs : chan[s] \in Seq(Event) /\ Len(chan[s]) <= Cap
  BY <1>1, <1>7 DEF BrokerTypeOK, SourceInv
<1> QED
  BY <1>1, <1>5, <1>8 DEF TypeOK, CallInv, IsTable, BrokerTypeOK, ResultInv, Answers

\* Every variable of the resolvers and the broker keeps its type; in particular no
\* channel holds more than its capacity and there are no more events than calls.
THEOREM TypeCorrect == Spec => []TypeOK
BY Invariant, TypeOKHolds, PTL

\* Publish sends on no channel that Unsubscribe has closed.
THEOREM NoPanic == Spec => []NoSendOnClosed
BY Invariant, NoSendOnClosedHolds, PTL

\* Every subscriber gets the events at most once and in the order of Publish.
THEOREM Ordered == Spec => []InOrderOnce
BY Invariant, InOrderOnceHolds, PTL

\* Every event reaches every subscriber, is about to, or found its channel full.
THEOREM NoneLost == Spec => []Accounted
<1>1. IInv => Accounted
  BY DEF IInv
<1> QED
  BY <1>1, Invariant, PTL

\* CreateEmployee answers with an employee exactly when it announced that employee.
THEOREM Announced == Spec => []AnnouncedIffAnswered
BY Invariant, AnnouncedIffAnsweredHolds, PTL

\* No update brings back an employee that was deleted.
THEOREM InsertsCreate == Spec => OnlyInsertCreates
<1>1. IInv /\ [Next]_vars =>
          [\A i \in EmployeeIds : i \notin DOMAIN employees /\ i \in DOMAIN employees' =>
              \E m \in Calls : pc[m] = "insert" /\ Id(m) = i]_vars
  BY InsertCreates DEF Moves
<1> QED
  BY <1>1, Invariant, PTL DEF Spec, OnlyInsertCreates
==============================================================================
