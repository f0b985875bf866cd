----------------------------- MODULE GoGraphQL -----------------------------
(***************************************************************************)
(* The execution of GraphQL operations by the code gqlgen generated        *)
(* (graph/generated.go) around the resolvers of GoEmployees.               *)
(*                                                                         *)
(* An operation is a document, its root fields in order.  The fields of a  *)
(* mutation are resolved one after the other, those of a query by a        *)
(* goroutine each; when all are done the response is put together.  The    *)
(* k-th field of operation o is the call <<o, k>>.                         *)
(***************************************************************************)
EXTENDS GoEmployees

CONSTANTS Ops,          \* operations
          MaxFields,    \* the most root fields of a document
          MaxGone,      \* how many clients go away
          Docs          \* the documents clients send

Doc == [type : {"query", "mutation"}, fields : Seq(Inputs)]

ASSUME DocsAssumption ==
    /\ MaxFields \in Nat
    /\ Docs \subseteq Doc
    /\ \A d \in Docs : Len(d.fields) \in 1 .. MaxFields
    /\ Calls = Ops \X (1 .. MaxFields)

VARIABLES
    doc,        \* doc[o]: the document of o; Nil before it came
    response,   \* response[o]: data and number of errors; Nil before
    start,      \* start[o]: history variable: the table when o started
    alone,      \* history variable: the operations since whose start no other
                \* operation has changed the table
    held        \* held[m]: history variable: the rows that the id of the update m
                \* has had since it was called

opVars  == <<doc, response>>
history == <<start, alone, held>>
gqlVars == <<vars, opVars, history>>

GraphInit ==
    /\ Init
    /\ doc = [o \in Ops |-> Nil]
    /\ response = [o \in Ops |-> Nil]
    /\ start = [o \in Ops |-> Nil]
    /\ alone = {}
    /\ held = [m \in Calls |-> {}]

FieldsOf(o) == IF doc[o] = Nil THEN {} ELSE {<<o, k>> : k \in DOMAIN doc[o].fields}

-----------------------------------------------------------------------------
(***************************************************************************)
(* Executing an operation                                                  *)
(***************************************************************************)
\* A document has been parsed and validated against the schema.
Exec(o) ==
    /\ doc[o] = Nil
    /\ \E d \in Docs : doc' = [doc EXCEPT ![o] = d]
    /\ start' = [start EXCEPT ![o] = employees]
    /\ alone' = alone \cup {o}
    /\ UNCHANGED <<vars, response, held>>

\* Seeded fault: the root fields of a mutation are resolved like those of a query.
MayStartAtOnce(o, k) == TRUE

\* _Query starts all its fields, _Mutation each when the one before is done,
\* whether that succeeded or not.
MayStart(o, k) ==
    doc[o].type = "mutation" => \A j \in 1 .. k - 1 : pc[<<o, j>>] = "done"

RowNow(i) == IF i \in DOMAIN employees THEN {employees[i]} ELSE {}

\* A root field is called: its arguments are unmarshalled and the resolver is
\* entered.
StartField(o, k) ==
    /\ <<o, k>> \in FieldsOf(o)
    /\ MayStart(o, k)
    /\ CallWith(<<o, k>>, doc[o].fields[k])
    /\ held' = IF doc[o].fields[k].kind # "updateEmployee" THEN held
               ELSE [held EXCEPT ![<<o, k>>] = RowNow(doc[o].fields[k].id)]
    /\ UNCHANGED <<opVars, start, alone>>

\* A step of the resolver of a field of o, and what it does to the histories.
FieldStep(o, k) ==
    /\ ResolverStep(<<o, k>>)
    /\ alone' = IF employees' = employees THEN alone ELSE alone \cap {o}
    /\ held' = [m \in Calls |->
                  IF pc[m] = "write" \/ pc[m] = "read" THEN held[m] \cup RowNow(Id(m))' ELSE held[m]]
    /\ UNCHANGED <<opVars, start>>

-----------------------------------------------------------------------------
(***************************************************************************)
(* The response                                                            *)
(***************************************************************************)
\* What the schema marks with an exclamation mark.
RequiredFields == {"id", "email", "fullName"}
RequiredRoots  == {"createEmployee", "deleteEmployee", "hello", "employees", "searchEmployees"}

\* The selected fields of an employee; null if one of them is null and may not be.
MarshalEmployee(sel, emp) ==
    LET out == [c \in sel |-> emp[c]]
    IN  IF \E c \in sel \cap RequiredFields : out[c] = Nil THEN Nil ELSE out

\* A list may not hold a null, and is null if it would.
MarshalList(sel, emps) ==
    LET ret == [k \in DOMAIN emps |-> MarshalEmployee(sel, emps[k])]
    IN  IF \E k \in DOMAIN ret : ret[k] = Nil THEN Nil ELSE ret

\* The value of a root field whose resolver has returned.
RootValue(m) ==
    LET in == input[m] IN
    IF answer[m] \in {"error", "null"} THEN Nil ELSE
    CASE in.kind \in {"employees", "searchEmployees"} -> MarshalList(in.sel, result[m])
      [] in.kind \in {"createEmployee", "updateEmployee", "employee"} ->
            MarshalEmployee(in.sel, result[m][1])
      [] in.kind = "deleteEmployee" -> answer[m]
      [] in.kind = "hello" -> "Hello from Sync Bridge"

\* Seeded fault: a deletion that failed is not counted.
InvalidExceptDelete(m) ==
    input[m].kind \in RequiredRoots \ {"deleteEmployee"} /\ RootValue(m) = Nil

\* out.Invalids++
Invalid(m) == input[m].kind \in RequiredRoots /\ RootValue(m) = Nil

\* The errors of the resolver and, for a null the schema does not allow, the one
\* marshalling adds.
ErrorsOf(m) == IF answer[m] = "error" \/ Invalid(m) THEN 1 ELSE 0

\* A document has at least one field: its data is empty only if it is null.
Data(o) ==
    IF \E m \in FieldsOf(o) : Invalid(m) THEN << >>
    ELSE [k \in DOMAIN doc[o].fields |-> RootValue(<<o, k>>)]

\* Dispatch has waited for every field.
Respond(o) ==
    /\ FieldsOf(o) # {} /\ \A m \in FieldsOf(o) : pc[m] = "done"
    /\ response[o] = Nil
    /\ response' = [response EXCEPT ![o] =
           [data |-> Data(o), errors |-> Cardinality({m \in FieldsOf(o) : ErrorsOf(m) = 1})]]
    /\ UNCHANGED <<vars, doc, history>>

\* The client goes away: the context of all fields of o, also of those still to
\* come, is cancelled.
Abandon(o) ==
    /\ doc[o] # Nil /\ response[o] = Nil
    /\ Cardinality({p \in Ops : <<p, 1>> \in gone}) < MaxGone
    /\ FieldsOf(o) \cap gone = {}
    /\ gone' = gone \cup FieldsOf(o)
    /\ UNCHANGED <<pc, input, existing, answer, result, employees, mu, todo, subVars,
                   outVars, events, opVars, history>>

\* Subscriptions are operations of one field, employeeCreated; how they are
\* stopped and read is in GoEmployees.
Stream(s) == StreamStep(s) /\ UNCHANGED <<opVars, history>>

AllAnswered == (\A o \in Ops : response[o] # Nil) /\ UNCHANGED gqlVars

GraphNext ==
    \/ \E o \in Ops : Exec(o) \/ Respond(o) \/ Abandon(o)
    \/ \E o \in Ops, k \in 1 .. MaxFields : StartField(o, k) \/ FieldStep(o, k)
    \/ \E s \in Subs : Stream(s)
    \/ AllAnswered

GraphSpec == GraphInit /\ [][GraphNext]_gqlVars

-----------------------------------------------------------------------------
(***************************************************************************)
(* The reference: a document executed on a table by itself                 *)
(***************************************************************************)
Taken(t, i, email) == \E j \in DOMAIN t \ {i} : t[j].email = email
With(t, row) == [j \in DOMAIN t \cup {row.id} |-> IF j = row.id THEN row ELSE t[j]]
Outcome(t, how, emps) == [table |-> t, how |-> how, emps |-> emps]

\* The whole of one field, in one piece.
Whole(t, in) ==
    IF ~in.valid THEN Outcome(t, "error", << >>) ELSE
    CASE in.kind = "createEmployee" ->
            LET row == [id |-> in.id, email |-> in.email, middle |-> in.middle]
            IN  IF in.id \in DOMAIN t \/ Taken(t, in.id, in.email)
                THEN Outcome(t, "error", << >>)
                ELSE Outcome(With(t, row), "value", <<scanEmployee(row)>>)
      [] in.kind = "updateEmployee" ->
            IF in.id \notin DOMAIN t THEN Outcome(t, "null", << >>) ELSE
            LET row == [id     |-> in.id,
                        email  |-> IF in.email = Nil THEN t[in.id].email ELSE in.email,
                        middle |-> IF in.middle = Nil THEN t[in.id].middle ELSE in.middle]
            IN  IF Taken(t, in.id, row.email) THEN Outcome(t, "error", << >>)
                ELSE Outcome(With(t, row), "value", <<scanEmployee(row)>>)
      [] in.kind = "deleteEmployee" ->
            Outcome([j \in DOMAIN t \ {in.id} |-> t[j]],
                    IF in.id \in DOMAIN t THEN "true" ELSE "false", << >>)
      [] in.kind = "employee" ->
            IF in.id \in DOMAIN t THEN Outcome(t, "value", <<scanEmployee(t[in.id])>>)
            ELSE Outcome(t, "null", << >>)
      [] in.kind \in {"employees", "searchEmployees"} -> Outcome(t, "value", PageOf(t, in))
      [] in.kind = "hello" -> Outcome(t, "value", << >>)

\* The outcomes of the fields of a document, each on the table the one before left.
InTurn(t, fields) ==
    FoldLeft(LAMBDA done, in :
                Append(done, Whole(IF done = << >> THEN t ELSE Last(done).table, in)),
             << >>, fields)

-----------------------------------------------------------------------------
(***************************************************************************)
(* Properties                                                              *)
(***************************************************************************)
GraphTypeOK ==
    /\ TypeOK
    /\ doc \in [Ops -> Docs \cup {Nil}]
    /\ \A o \in Ops : response[o] # Nil =>
          DOMAIN response[o] = {"data", "errors"} /\ response[o].errors \in 0 .. MaxFields
    /\ alone \subseteq Ops
    /\ held \in [Calls -> SUBSET Row]

\* A response conforms to the schema: no null where the schema has an exclamation
\* mark, and where that leaves no data at all, an error says why (the counting of
\* Invalids in _Query, _Mutation and _Employee of graph/generated.go).
DataConforms ==
    \A o \in Ops : response[o] # Nil =>
        IF response[o].data = << >> THEN response[o].errors > 0
        ELSE \A k \in DOMAIN doc[o].fields :
                LET in == doc[o].fields[k]
                    v  == response[o].data[k]
                IN  /\ in.kind \in RequiredRoots => v # Nil
                    /\ in.kind \in {"createEmployee", "employee", "updateEmployee"} /\ v # Nil =>
                          \A c \in in.sel \cap RequiredFields : v[c] # Nil

\* While no other operation changes the table, an operation whose client stays
\* does what its document does executed in one piece, field by field: the table
\* it leaves and every answer are the reference's.  A failed field neither stops
\* nor undoes the others.
IsolatedRunsAreSequential ==
    [][\A o \in Ops :
          response[o] = Nil /\ response'[o] # Nil /\ o \in alone /\ FieldsOf(o) \cap gone = {} =>
              LET ref == InTurn(start[o], doc[o].fields)
              IN  /\ employees = Last(ref).table
                  /\ \A k \in DOMAIN ref : /\ answer[<<o, k>>] = ref[k].how
                                           /\ result[<<o, k>>] = ref[k].emps]_gqlVars

\* An update writes to a column it does not name only what the row held there at
\* some time since the update was called: it may undo what another update did
\* meanwhile (nothing excludes them between the read and the write of
\* UpdateEmployee), but nothing older, and it makes nothing up.
UnnamedColumnsWereThere ==
    [][\A m \in Calls :
          pc[m] = "write" /\ pc'[m] = "reread" /\ Holds(Id(m)) =>
              LET row == employees'[Id(m)] IN
              /\ input[m].email = Nil => \E r \in held[m] : r.email = row.email
              /\ input[m].middle = Nil => \E r \in held[m] : r.middle = row.middle]_gqlVars
=============================================================================
