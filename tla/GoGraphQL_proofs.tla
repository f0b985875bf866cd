-------------------------- MODULE GoGraphQL_proofs --------------------------
(***************************************************************************)
(* Proofs about GoGraphQL, for any operations and documents: every step of *)
(* an operation is a step of the resolvers or a cancellation, so what      *)
(* GoEmployees_proofs shows of those holds here too.                       *)
(***************************************************************************)
EXTENDS GoGraphQL, GoEmployees_proofs

-----------------------------------------------------------------------------
(***************************************************************************)
(* The inductive invariant                                                 *)
(***************************************************************************)
OpTypeOK ==
    /\ doc \in [Ops -> Docs \cup {Nil}]
    /\ DOMAIN response = Ops
    /\ alone \subseteq Ops
    /\ held \in [Calls -> SUBSET Row]

\* A field is called with the arguments of the document, and an operation is
\* answered when all its fields are done.
FieldInv ==
    \A o \in Ops :
        /\ \A k \in 1 .. MaxFields : pc[<<o, k>>] # "idle" =>
              <<o, k>> \in FieldsOf(o) /\ input[<<o, k>>] = doc[o].fields[k]
        /\ response[o] # Nil => /\ doc[o] # Nil
                                /\ \A m \in FieldsOf(o) : pc[m] = "done"

\* What an update has read is among the rows its id has had.
HeldInv ==
    \A m \in Calls : pc[m] = "write" =>
        \E r \in held[m] : existing[m].email = r.email /\ existing[m].middle = r.middle

\* The number of errors is at most that of the fields.
ResponseInv ==
    \A o \in Ops : response[o] # Nil =>
        DOMAIN response[o] = {"data", "errors"} /\ response[o].errors \in 0 .. MaxFields

GraphInv == /\ IInv /\ OpTypeOK /\ FieldInv /\ HeldInv /\ ResponseInv /\ DataConforms

-----------------------------------------------------------------------------
(***************************************************************************)
(* Operations and their fields                                             *)
(***************************************************************************)
\* The fields of a document are inputs, and there is at least one.
LEMMA DocFields ==
    ASSUME NEW d \in Docs
    PROVE  /\ d.fields \in Seq(Inputs) /\ Len(d.fields) \in 1 .. MaxFields
           /\ DOMAIN d.fields = 1 .. Len(d.fields) /\ DOMAIN d.fields \subseteq 1 .. MaxFields
           /\ 1 \in DOMAIN d.fields /\ \A k \in DOMAIN d.fields : d.fields[k] \in Inputs
<1>1. d.fields \in Seq(Inputs) /\ Len(d.fields) \in 1 .. MaxFields
  BY DocsAssumption DEF Doc
<1>2. Len(d.fields) \in Nat /\ DOMAIN d.fields = 1 .. Len(d.fields)
  BY <1>1
<1>3. 1 <= Len(d.fields) /\ Len(d.fields) <= MaxFields
  BY <1>1, <1>2, DocsAssumption
<1> QED
  BY <1>1, <1>2, <1>3, DocsAssumption

\* The fields of an operation are calls.
LEMMA FieldCalls ==
    ASSUME OpTypeOK, NEW o \in Ops
    PROVE  /\ \A k : <<o, k>> \in FieldsOf(o) <=> doc[o] # Nil /\ k \in DOMAIN doc[o].fields
           /\ \A m \in FieldsOf(o) : \E k \in DOMAIN doc[o].fields : m = <<o, k>>
           /\ FieldsOf(o) \subseteq Calls
           /\ doc[o] # Nil => doc[o] \in Docs
<1>1. doc[o] # Nil => doc[o] \in Docs
  BY DEF OpTypeOK
<1>2. doc[o] # Nil => DOMAIN doc[o].fields \subseteq 1 .. MaxFields
  BY <1>1, DocFields
<1>3. \A k \in 1 .. MaxFields : <<o, k>> \in Calls
  BY DocsAssumption
<1> QED
  BY <1>1, <1>2, <1>3 DEF FieldsOf

\* A call is a field of an operation.
LEMMA CallOp ==
    ASSUME NEW m \in Calls
    PROVE  \E o \in Ops, k \in 1 .. MaxFields : m = <<o, k>>
BY DocsAssumption

\* What operations do is what the resolvers do, or a cancellation.
LEMMA OpMoves ==
    ASSUME IInv, OpTypeOK, [GraphNext]_gqlVars
    PROVE  [Moves]_vars
<1>1. ASSUME NEW o \in Ops, Exec(o) \/ Respond(o)
      PROVE  UNCHANGED vars
  BY <1>1 DEF Exec, Respond
<1>2. ASSUME NEW o \in Ops, Abandon(o)
      PROVE  Cancel
  <2>1. gone \subseteq Calls /\ FieldsOf(o) \subseteq Calls
    BY FieldCalls DEF IInv, ResultInv
  <2> QED
    BY <1>2, <2>1 DEF Abandon, Cancel
<1>3. ASSUME NEW o \in Ops, NEW k \in 1 .. MaxFields, StartField(o, k) \/ FieldStep(o, k)
      PROVE  Call(<<o, k>>) \/ ResolverStep(<<o, k>>)
  <2>1. CASE StartField(o, k)
    <3>1. <<o, k>> \in FieldsOf(o) /\ CallWith(<<o, k>>, doc[o].fields[k])
      BY <2>1 DEF StartField
    <3>2. doc[o].fields[k] \in Inputs
      BY <3>1, FieldCalls, DocFields
    <3> QED
      BY <3>1, <3>2 DEF Call
  <2> QED
    BY <1>3, <2>1 DEF FieldStep
<1>4. ASSUME NEW s \in Subs, Stream(s)
      PROVE  StreamStep(s)
  BY <1>4 DEF Stream
<1>5. AllAnswered \/ UNCHANGED gqlVars => UNCHANGED vars
  BY DEF AllAnswered, gqlVars
<1>6. \A o \in Ops, k \in 1 .. MaxFields : <<o, k>> \in Calls
  BY DocsAssumption
<1> QED
  BY <1>1, <1>2, <1>3, <1>4, <1>5, <1>6 DEF GraphNext, Moves, Next

\* Documents and answers stay.
LEMMA OpFrame ==
    ASSUME OpTypeOK, [GraphNext]_gqlVars, NEW o \in Ops
    PROVE  /\ doc'[o] = doc[o] \/ (doc[o] = Nil /\ doc'[o] \in Docs)
           /\ response'[o] = response[o] \/ (response[o] = Nil /\ Respond(o))
           /\ DOMAIN doc' = Ops /\ DOMAIN response' = Ops
<1> USE DEF OpTypeOK
<1>1. ASSUME NEW p \in Ops, Exec(p)
      PROVE  /\ doc'[o] = doc[o] \/ (doc[o] = Nil /\ doc'[o] \in Docs)
             /\ response' = response /\ DOMAIN doc' = Ops
  BY <1>1 DEF Exec
<1>2. ASSUME NEW p \in Ops, Respond(p)
      PROVE  /\ response'[o] = response[o] \/ (response[o] = Nil /\ p = o)
             /\ doc' = doc /\ DOMAIN response' = Ops
  BY <1>2 DEF Respond
<1>3. ASSUME NEW p \in Ops, Abandon(p)
      PROVE  UNCHANGED opVars
  BY <1>3 DEF Abandon
<1>4. ASSUME NEW p \in Ops, NEW k \in 1 .. MaxFields, StartField(p, k) \/ FieldStep(p, k)
      PROVE  UNCHANGED opVars
  BY <1>4 DEF StartField, FieldStep
<1>5. ASSUME NEW s \in Subs, Stream(s)
      PROVE  UNCHANGED opVars
  BY <1>5 DEF Stream
<1>6. AllAnswered \/ UNCHANGED gqlVars => UNCHANGED opVars
  BY DEF AllAnswered, gqlVars
<1> QED
  BY <1>1, <1>2, <1>3, <1>4, <1>5, <1>6 DEF GraphNext, opVars

\* What a step does to the arguments of a call and to what it has read.
LEMMA CallLife ==
    ASSUME CallInv, [Moves]_vars, NEW n \in Calls
    PROVE  /\ pc[n] # "idle" => pc'[n] # "idle" /\ input'[n] = input[n]
           /\ pc'[n] = "write" => (pc[n] = "write" /\ existing'[n] = existing[n]) \/ Read(n)
           /\ pc[n] = "idle" /\ pc'[n] # "idle" => Call(n)
<1> USE DEF Goto, Return
<1>1. CASE UNCHANGED <<pc, input, existing, answer, result>>
  BY <1>1
<1>2. ASSUME NEW m \in Calls, m # n, Call(m) \/ ResolverStep(m)
      PROVE  pc'[n] = pc[n] /\ input'[n] = input[n] /\ existing'[n] = existing[n]
  BY <1>2, OthersRest
<1>3. CASE Call(n)
  <2>1. PICK in \in Inputs : CallWith(n, in)
    BY <1>3 DEF Call
  <2>2. FirstStep[in.kind] \in {"insert", "read", "delete", "find", "list", "hello"}
    BY FirstSteps
  <2> QED
    BY <1>3, <2>1, <2>2 DEF CallWith, CallInv
<1>4. CASE ResolverStep(n)
  <2>1. CASE Insert(n) \/ Publish(n) \/ Published(n) \/ Write(n) \/ Delete(n) \/ SayHello(n)
    BY <2>1 DEF Insert, Publish, Published, Write, Delete, SayHello, CallInv
  <2>2. CASE Readback(n) \/ Read(n)
    BY <2>2 DEF Readback, Read, CallInv
  <2>3. CASE Reread(n) \/ FindOne(n)
    BY <2>3 DEF Reread, FindOne, ReturnFound, CallInv
  <2>4. CASE ListPage(n)
    BY <2>4 DEF ListPage, CallInv
  <2>5. CASE \E s \in Subs : Send(n, s)
    BY <2>5 DEF Send, callVars
  <2> QED
    BY <1>4, <2>1, <2>2, <2>3, <2>4, <2>5 DEF ResolverStep
<1> QED
  BY <1>1, <1>2, <1>3, <1>4, CallFrame

\* A field that begins is called with the arguments of the document.
LEMMA FieldStarts ==
    ASSUME IInv, OpTypeOK, [GraphNext]_gqlVars, NEW o \in Ops, NEW k \in 1 .. MaxFields,
           pc[<<o, k>>] = "idle", pc'[<<o, k>>] # "idle"
    PROVE  StartField(o, k)
<1>c. CallInv /\ \A p \in Ops, j \in 1 .. MaxFields : <<p, j>> \in Calls
  BY DocsAssumption DEF IInv
<1>1. ASSUME NEW p \in Ops, Exec(p) \/ Respond(p) \/ Abandon(p)
      PROVE  FALSE
  BY <1>1 DEF Exec, Respond, Abandon, vars, callVars
<1>2. ASSUME NEW p \in Ops, NEW j \in 1 .. MaxFields, FieldStep(p, j)
      PROVE  FALSE
  <2>1. ResolverStep(<<p, j>>)
    BY <1>2 DEF FieldStep
  <2>2. pc[<<p, j>>] # "idle"
    BY <2>1 DEF ResolverStep, Insert, Readback, Publish, Published, Read, Write, Reread, Delete, SayHello,
       FindOne, ListPage, Send
  <2>3. <<p, j>> # <<o, k>>
    BY <2>2
  <2> QED
    BY <1>c, <2>1, <2>3, OthersRest
<1>3. ASSUME NEW p \in Ops, NEW j \in 1 .. MaxFields, StartField(p, j)
      PROVE  p = o /\ j = k
  <2>1. CASE <<p, j>> = <<o, k>>
    BY <2>1
  <2>2. CASE <<p, j>> # <<o, k>>
    <3>1. <<p, j>> \in FieldsOf(p) /\ CallWith(<<p, j>>, doc[p].fields[j])
      BY <1>3 DEF StartField
    <3>2. doc[p].fields[j] \in Inputs
      BY <3>1, FieldCalls, DocFields
    <3>3. Call(<<p, j>>)
      BY <3>1, <3>2 DEF Call
    <3> QED
      BY <1>c, <2>2, <3>3, OthersRest
  <2> QED
    BY <2>1, <2>2
<1>4. ASSUME NEW s \in Subs, Stream(s)
      PROVE  FALSE
  BY <1>4 DEF Stream, StreamStep, Subscribe, Leave, Unsubscribe, Take, EndOfStream, callVars
<1>5. AllAnswered \/ UNCHANGED gqlVars => FALSE
  BY DEF AllAnswered, gqlVars, vars, callVars
<1> QED
  BY <1>1, <1>2, <1>3, <1>4, <1>5 DEF GraphNext

\* Fields follow their document.
LEMMA FieldsStep ==
    ASSUME IInv, OpTypeOK, FieldInv, [GraphNext]_gqlVars
    PROVE  FieldInv'
<1>m. [Moves]_vars /\ CallInv
  BY OpMoves DEF IInv
<1> SUFFICES ASSUME NEW o \in Ops
             PROVE  /\ \A k \in 1 .. MaxFields : pc'[<<o, k>>] # "idle" =>
                          <<o, k>> \in FieldsOf(o)' /\ input'[<<o, k>>] = doc'[o].fields[k]
                    /\ response'[o] # Nil => /\ doc'[o] # Nil
                                             /\ \A m \in FieldsOf(o)' : pc'[m] = "done"
  BY DEF FieldInv
<1>1. doc[o] # Nil => doc'[o] = doc[o] /\ FieldsOf(o)' = FieldsOf(o)
  BY OpFrame DEF FieldsOf
<1>2. ASSUME NEW k \in 1 .. MaxFields, pc'[<<o, k>>] # "idle"
      PROVE  <<o, k>> \in FieldsOf(o)' /\ input'[<<o, k>>] = doc'[o].fields[k]
  <2>c. <<o, k>> \in Calls
    BY DocsAssumption
  <2>1. CASE pc[<<o, k>>] # "idle"
    <3>1. <<o, k>> \in FieldsOf(o) /\ input[<<o, k>>] = doc[o].fields[k]
      BY <2>1 DEF FieldInv
    <3>2. doc[o] # Nil
      BY <3>1, FieldCalls
    <3>3. input'[<<o, k>>] = input[<<o, k>>]
      BY <1>m, <2>1, <2>c, CallLife
    <3> QED
      BY <1>1, <3>1, <3>2, <3>3
  <2>2. CASE pc[<<o, k>>] = "idle"
    <3>1. StartField(o, k)
      BY <1>2, <2>2, FieldStarts
    <3>2. <<o, k>> \in FieldsOf(o) /\ input' = [input EXCEPT ![<<o, k>>] = doc[o].fields[k]]
      BY <3>1 DEF StartField, CallWith
    <3>3. doc[o] # Nil
      BY <3>2, FieldCalls
    <3>4. input'[<<o, k>>] = doc[o].fields[k]
      BY <1>m, <2>c, <3>2 DEF CallInv
    <3> QED
      BY <1>1, <3>2, <3>3, <3>4
  <2> QED
    BY <2>1, <2>2
<1>3. ASSUME response'[o] # Nil
      PROVE  doc[o] # Nil /\ \A m \in FieldsOf(o) : pc'[m] = "done"
  <2>1. CASE response[o] # Nil
    <3>1. doc[o] # Nil /\ \A m \in FieldsOf(o) : pc[m] = "done" /\ m \in Calls
      BY <2>1, FieldCalls DEF FieldInv
    <3> QED
      BY <1>m, <3>1, PcMoves
  <2>2. CASE Respond(o)
    <3>1. pc' = pc /\ FieldsOf(o) # {} /\ \A m \in FieldsOf(o) : pc[m] = "done"
      BY <2>2 DEF Respond, vars, callVars
    <3> QED
      BY <3>1 DEF FieldsOf
  <2> QED
    BY <1>3, <2>1, <2>2, OpFrame
<1> QED
  BY <1>1, <1>2, <1>3

\* What the row of an id is, if there is one, is a row.
LEMMA RowNowType ==
    ASSUME IsTable(employees)
    PROVE  \A i : RowNow(i) \subseteq Row
BY DEF RowNow, IsTable

\* The history of rows grows while an update is under way.
LEMMA HeldFrame ==
    ASSUME OpTypeOK, [GraphNext]_gqlVars
    PROVE  \/ held' = held
           \/ \E o \in Ops, k \in 1 .. MaxFields : StartField(o, k)
           \/ \E o \in Ops, k \in 1 .. MaxFields : FieldStep(o, k)
<1>1. ASSUME NEW o \in Ops, Exec(o) \/ Respond(o) \/ Abandon(o)
      PROVE  held' = held
  BY <1>1 DEF Exec, Respond, Abandon, history
<1>2. ASSUME NEW s \in Subs, Stream(s)
      PROVE  held' = held
  BY <1>2 DEF Stream, history
<1>3. AllAnswered \/ UNCHANGED gqlVars => held' = held
  BY DEF AllAnswered, gqlVars, history
<1> QED
  BY <1>1, <1>2, <1>3 DEF GraphNext

\* The variables of the operations keep their types.
LEMMA OpTypeStep ==
    ASSUME IInv, IInv', OpTypeOK, [GraphNext]_gqlVars
    PROVE  OpTypeOK'
<1>1. doc' \in [Ops -> Docs \cup {Nil}] /\ alone' \subseteq Ops
  <2>1. ASSUME NEW o \in Ops, Exec(o)
        PROVE  doc' \in [Ops -> Docs \cup {Nil}] /\ alone' \subseteq Ops
    BY <2>1 DEF Exec, OpTypeOK
  <2>2. ASSUME NEW o \in Ops, Respond(o) \/ Abandon(o)
        PROVE  doc' = doc /\ alone' = alone
    BY <2>2 DEF Respond, Abandon, opVars, history
  <2>3. ASSUME NEW o \in Ops, NEW k \in 1 .. MaxFields, StartField(o, k) \/ FieldStep(o, k)
        PROVE  doc' = doc /\ alone' \subseteq alone
    BY <2>3 DEF StartField, FieldStep, opVars
  <2>4. ASSUME NEW s \in Subs, Stream(s)
        PROVE  doc' = doc /\ alone' = alone
    BY <2>4 DEF Stream, opVars, history
  <2>5. AllAnswered \/ UNCHANGED gqlVars => doc' = doc /\ alone' = alone
    BY DEF AllAnswered, gqlVars, opVars, history
  <2> QED
    BY <2>1, <2>2, <2>3, <2>4, <2>5 DEF GraphNext, OpTypeOK
<1>2. DOMAIN response' = Ops
  <2>1. CASE Ops = {}
    <3>1. response' = response
      BY <2>1, DocsAssumption DEF GraphNext, gqlVars, opVars, AllAnswered, Stream
    <3> QED
      BY <3>1 DEF OpTypeOK
  <2>2. CASE Ops # {}
    BY <2>2, OpFrame
  <2> QED
    BY <2>1, <2>2
<1>3. held' \in [Calls -> SUBSET Row]
  <2>1. CASE held' = held
    BY <2>1 DEF OpTypeOK
  <2>2. ASSUME NEW o \in Ops, NEW k \in 1 .. MaxFields, StartField(o, k)
        PROVE  held' \in [Calls -> SUBSET Row]
    <3>1. RowNow(doc[o].fields[k].id) \in SUBSET Row
      BY RowNowType DEF IInv
    <3> QED
      BY <2>2, <3>1 DEF StartField, OpTypeOK
  <2>3. ASSUME NEW o \in Ops, NEW k \in 1 .. MaxFields, FieldStep(o, k)
        PROVE  held' \in [Calls -> SUBSET Row]
    <3>1. \A m \in Calls : RowNow(Id(m))' \subseteq Row
      BY DEF RowNow, IInv, IsTable
    <3>2. \A m \in Calls : held[m] \subseteq Row
      BY DEF OpTypeOK
    <3> QED
      BY <2>3, <3>1, <3>2 DEF FieldStep
  <2> QED
    BY <2>1, <2>2, <2>3, HeldFrame
<1> QED
  BY <1>1, <1>2, <1>3 DEF OpTypeOK

\* An update has read a row its id has had.
LEMMA HeldStep ==
    ASSUME IInv, OpTypeOK, HeldInv, [GraphNext]_gqlVars
    PROVE  HeldInv'
<1>m. [Moves]_vars /\ CallInv
  BY OpMoves DEF IInv
<1> SUFFICES ASSUME NEW m \in Calls, pc'[m] = "write"
             PROVE  \E r \in held'[m] : existing'[m].email = r.email /\ existing'[m].middle = r.middle
  BY DEF HeldInv
<1>1. CASE pc[m] = "write" /\ existing'[m] = existing[m]
  <2>1. held[m] \subseteq held'[m]
    <3>1. ASSUME NEW o \in Ops, NEW k \in 1 .. MaxFields, StartField(o, k)
          PROVE  held'[m] = held[m]
      <4>1. m # <<o, k>>
        BY <1>1, <3>1 DEF StartField, CallWith
      <4> QED
        BY <3>1, <4>1 DEF StartField, OpTypeOK
    <3>2. ASSUME NEW o \in Ops, NEW k \in 1 .. MaxFields, FieldStep(o, k)
          PROVE  held[m] \subseteq held'[m]
      BY <3>2 DEF FieldStep
    <3> QED
      BY <3>1, <3>2, HeldFrame
  <2> QED
    BY <1>1, <2>1 DEF HeldInv
<1>2. CASE Read(m)
  <2>1. PICK r \in getEmployeeByID(m) : r[2] # Nil /\ existing' = [existing EXCEPT ![m] = r[2]]
    BY <1>2, <1>m DEF Read, Return, CallInv
  <2>2. Holds(Id(m)) /\ r[2] = scanEmployee(employees[Id(m)])
    BY <2>1, Found DEF IInv
  <2>3. PICK row : row = employees[Id(m)]
    OBVIOUS
  <2>4. existing'[m].email = row.email /\ existing'[m].middle = row.middle
    BY <1>m, <2>1, <2>2, <2>3 DEF CallInv, scanEmployee
  <2>5. employees' = employees /\ input' = input /\ pc[m] = "read"
    BY <1>2 DEF Read
  <2>6. row \in RowNow(Id(m))'
    BY <2>2, <2>3, <2>5 DEF RowNow, Id, Holds
  <2>7. \E o \in Ops, k \in 1 .. MaxFields : FieldStep(o, k)
    <3>0. pc'[m] # pc[m]
      BY <2>5
    <3>1. ASSUME NEW o \in Ops, Exec(o) \/ Respond(o) \/ Abandon(o)
          PROVE  FALSE
      BY <3>0, <3>1 DEF Exec, Respond, Abandon, vars, callVars
    <3>2. ASSUME NEW o \in Ops, NEW k \in 1 .. MaxFields, StartField(o, k)
          PROVE  FALSE
      <4>1. pc[<<o, k>>] = "idle" /\ <<o, k>> \in Calls
        BY <3>2, DocsAssumption DEF StartField, CallWith
      <4>2. m # <<o, k>>
        BY <2>5, <4>1
      <4>3. CallWith(<<o, k>>, doc[o].fields[k])
        BY <3>2 DEF StartField
      <4> QED
        BY <1>m, <3>0, <4>1, <4>2, <4>3 DEF CallWith, Goto, Return, CallInv
    <3>3. ASSUME NEW s \in Subs, Stream(s)
          PROVE  FALSE
      BY <3>0, <3>3 DEF Stream, StreamStep, Subscribe, Leave, Unsubscribe, Take, EndOfStream, callVars
    <3>4. AllAnswered \/ UNCHANGED gqlVars => FALSE
      BY <3>0 DEF AllAnswered, gqlVars, vars, callVars
    <3> QED
      BY <3>1, <3>2, <3>3, <3>4 DEF GraphNext
  <2>8. row \in held'[m]
    BY <2>5, <2>6, <2>7 DEF FieldStep
  <2> QED
    BY <2>4, <2>8
<1> QED
  BY <1>1, <1>2, <1>m, CallLife

\* The fields of an operation are few.
LEMMA FieldsFinite ==
    ASSUME OpTypeOK, NEW o \in Ops
    PROVE  \A F \in SUBSET FieldsOf(o) : IsFiniteSet(F) /\ Cardinality(F) \in 0 .. MaxFields
<1>1. IsFiniteSet({o} \X (1 .. MaxFields)) /\ Cardinality({o} \X (1 .. MaxFields)) = MaxFields
  <2>1. MaxFields \in Nat
    BY DocsAssumption
  <2>2. IsFiniteSet(1 .. MaxFields) /\ Cardinality(1 .. MaxFields) = MaxFields
    BY <2>1, FS_Interval
  <2>3. IsFiniteSet({o}) /\ Cardinality({o}) = 1
    BY FS_Singleton
  <2> QED
    BY <2>1, <2>2, <2>3, FS_Product
<1>2. FieldsOf(o) \subseteq {o} \X (1 .. MaxFields)
  <2> SUFFICES ASSUME NEW m \in FieldsOf(o)
               PROVE  m \in {o} \X (1 .. MaxFields)
    OBVIOUS
  <2>1. PICK k \in DOMAIN doc[o].fields : m = <<o, k>> /\ doc[o] \in Docs
    BY FieldCalls DEF FieldsOf
  <2>2. k \in 1 .. MaxFields
    BY <2>1, DocFields
  <2> QED
    BY <2>1, <2>2
<1> SUFFICES ASSUME NEW F \in SUBSET FieldsOf(o)
             PROVE  IsFiniteSet(F) /\ Cardinality(F) \in 0 .. MaxFields
  OBVIOUS
<1>3. F \in SUBSET ({o} \X (1 .. MaxFields))
  BY <1>2
<1>4. IsFiniteSet(F) /\ Cardinality(F) <= MaxFields
  BY <1>1, <1>3, FS_Subset
<1> QED
  BY <1>4, FS_CardinalityType, DocsAssumption

\* The response of Respond.
LEMMA ResponseOf ==
    ASSUME OpTypeOK, NEW o \in Ops, Respond(o)
    PROVE  \E n \in 0 .. MaxFields :
               /\ n = Cardinality({m \in FieldsOf(o) : ErrorsOf(m) = 1})
               /\ response'[o] = [data |-> Data(o), errors |-> n]
<1>1. Cardinality({m \in FieldsOf(o) : ErrorsOf(m) = 1}) \in 0 .. MaxFields
  BY FieldsFinite
<1> QED
  BY <1>1 DEF Respond, OpTypeOK

LEMMA ResponseStep ==
    ASSUME OpTypeOK, ResponseInv, [GraphNext]_gqlVars
    PROVE  ResponseInv'
<1> SUFFICES ASSUME NEW o \in Ops, response'[o] # Nil
             PROVE  /\ DOMAIN response'[o] = {"data", "errors"}
                    /\ response'[o].errors \in 0 .. MaxFields
  BY DEF ResponseInv
<1>1. CASE response'[o] = response[o]
  BY <1>1 DEF ResponseInv
<1>2. CASE Respond(o)
  <2>1. PICK n \in 0 .. MaxFields : response'[o] = [data |-> Data(o), errors |-> n]
    BY <1>2, ResponseOf
  <2> QED
    BY <2>1
<1> QED
  BY <1>1, <1>2, OpFrame

\* The value of a root field of one employee has no null where none may be.
LEMMA RootConforms ==
    ASSUME NEW m, input[m].kind \in {"createEmployee", "employee", "updateEmployee"}, RootValue(m) # Nil
    PROVE  \A c \in input[m].sel \cap RequiredFields : RootValue(m)[c] # Nil
<1>1. RootValue(m) = MarshalEmployee(input[m].sel, result[m][1])
  BY DEF RootValue
<1> DEFINE sel == input[m].sel
           out == [c \in sel |-> result[m][1][c]]
<1>2. MarshalEmployee(sel, result[m][1]) =
          IF \E c \in sel \cap RequiredFields : out[c] = Nil THEN Nil ELSE out
  BY DEF MarshalEmployee
<1> HIDE DEF out
<1>3. MarshalEmployee(sel, result[m][1]) = out /\ \A c \in sel \cap RequiredFields : out[c] # Nil
  BY <1>1, <1>2
<1> QED
  BY <1>1, <1>3

\* Responses conform to the schema.
LEMMA ConformsStep ==
    ASSUME IInv, OpTypeOK, FieldInv, DataConforms, [GraphNext]_gqlVars
    PROVE  DataConforms'
<1> DEFINE Fits(in, v) ==
               /\ in.kind \in RequiredRoots => v # Nil
               /\ in.kind \in {"createEmployee", "employee", "updateEmployee"} /\ v # Nil =>
                     \A c \in in.sel \cap RequiredFields : v[c] # Nil
           Conforms(d, r) == IF r.data = << >> THEN r.errors > 0
                             ELSE \A k \in DOMAIN d.fields : Fits(d.fields[k], r.data[k])
<1> SUFFICES ASSUME NEW o \in Ops, response'[o] # Nil
             PROVE  Conforms(doc'[o], response'[o])
  BY DEF DataConforms
<1>1. CASE response[o] # Nil
  <2>1. Conforms(doc[o], response[o])
    BY <1>1 DEF DataConforms
  <2>2. doc'[o] = doc[o] /\ response'[o] = response[o]
    BY <1>1, OpFrame DEF FieldInv
  <2> HIDE DEF Conforms
  <2> QED
    BY <2>1, <2>2
<1>2. CASE Respond(o)
  <2>1. PICK n \in 0 .. MaxFields : /\ n = Cardinality({m \in FieldsOf(o) : ErrorsOf(m) = 1})
                                    /\ response'[o] = [data |-> Data(o), errors |-> n]
    BY <1>2, ResponseOf
  <2>2. /\ FieldsOf(o) # {} /\ \A m \in FieldsOf(o) : pc[m] = "done"
        /\ doc' = doc
    BY <1>2 DEF Respond
  <2>3. PICK d \in Docs : d = doc[o] /\ doc[o] # Nil
    BY <2>2, FieldCalls DEF FieldsOf
  <2>4. PICK v : v = Data(o)
    OBVIOUS
  <2>5. response'[o].data = v /\ response'[o].errors = n /\ doc'[o] = d
    BY <2>1, <2>2, <2>3, <2>4
  <2>6. CASE \E m \in FieldsOf(o) : Invalid(m)
    <3>1. v = << >>
      BY <2>4, <2>6 DEF Data
    <3>2. {m \in FieldsOf(o) : ErrorsOf(m) = 1} # {}
      BY <2>6 DEF ErrorsOf
    <3>3. n # 0
      BY <2>1, <3>2, FieldsFinite, FS_EmptySet
    <3>4. n > 0
      BY <3>3, DocsAssumption
    <3> QED
      BY <2>5, <3>1, <3>4
  <2>7. CASE ~\E m \in FieldsOf(o) : Invalid(m)
    <3>1. v = [k \in DOMAIN d.fields |-> RootValue(<<o, k>>)]
      BY <2>3, <2>4, <2>7 DEF Data
    <3>2. 1 \in DOMAIN d.fields
      BY DocFields
    <3>3. v # << >>
      BY <3>1, <3>2
    <3>4. ASSUME NEW k \in DOMAIN d.fields
          PROVE  Fits(d.fields[k], v[k])
      <4>1. PICK m : m = <<o, k>>
        OBVIOUS
      <4>2. m \in FieldsOf(o) /\ ~Invalid(m) /\ pc[m] = "done" /\ k \in 1 .. MaxFields
        BY <2>2, <2>3, <2>7, <4>1, FieldCalls, DocFields
      <4>3. input[m] = d.fields[k]
        BY <2>3, <4>1, <4>2 DEF FieldInv
      <4>4. v[k] = RootValue(m)
        BY <3>1, <4>1
      <4>5. input[m].kind \in RequiredRoots => RootValue(m) # Nil
        BY <4>2 DEF Invalid
      <4> QED
        BY <4>3, <4>4, <4>5, RootConforms
    <3> HIDE DEF Fits
    <3> QED
      BY <2>5, <3>3, <3>4
  <2> QED
    BY <2>6, <2>7
<1> QED
  BY <1>1, <1>2, OpFrame

-----------------------------------------------------------------------------
(***************************************************************************)
(* The theorems                                                            *)
(***************************************************************************)
LEMMA GraphInitInv ==
    ASSUME GraphInit
    PROVE  GraphInv
<1>1. IInv
  BY InitInv DEF GraphInit
<1>2. OpTypeOK
  BY DEF GraphInit, OpTypeOK
<1>3. \A m \in Calls : pc[m] = "idle"
  BY DEF GraphInit, Init
<1>4. \A o \in Ops, k \in 1 .. MaxFields : pc[<<o, k>>] = "idle"
  BY <1>3, DocsAssumption
<1>5. FieldInv /\ ResponseInv /\ DataConforms
  BY <1>4 DEF GraphInit, FieldInv, ResponseInv, DataConforms
<1>6. HeldInv
  BY <1>3 DEF HeldInv
<1> QED
  BY <1>1, <1>2, <1>5, <1>6 DEF GraphInv

LEMMA GraphStepInv ==
    ASSUME GraphInv, [GraphNext]_gqlVars
    PROVE  GraphInv'
<1> USE DEF GraphInv
<1>1. IInv'
  BY OpMoves, StepInv
<1>2. OpTypeOK'
  BY <1>1, OpTypeStep
<1>3. FieldInv'
  BY FieldsStep
<1>4. HeldInv'
  BY HeldStep
<1>5. ResponseInv'
  BY ResponseStep
<1>6. DataConforms'
  BY ConformsStep
<1> QED
  BY <1>1, <1>2, <1>3, <1>4, <1>5, <1>6

\* The inductive invariant of operations, resolvers and broker.
THEOREM GraphInvariant == GraphSpec => []GraphInv
BY GraphInitInv, GraphStepInv, PTL DEF GraphSpec

\* Every variable keeps its type, and a response has at most one error per field.
THEOREM GraphTypeCorrect == GraphSpec => []GraphTypeOK
<1>1. GraphInv => GraphTypeOK
  BY TypeOKHolds DEF GraphInv, GraphTypeOK, OpTypeOK, ResponseInv
<1> QED
  BY <1>1, GraphInvariant, PTL

\* Responses conform to the schema.
THEOREM ResponsesConform == GraphSpec => []DataConforms
<1>1. GraphInv => DataConforms
  BY DEF GraphInv
<1> QED
  BY <1>1, GraphInvariant, PTL

\* CreateEmployee answers with an employee exactly when it announced that employee,
\* also when clients go away.
THEOREM GraphAnnounced == GraphSpec => []AnnouncedIffAnswered
<1>1. GraphInv => AnnouncedIffAnswered
  BY AnnouncedIffAnsweredHolds DEF GraphInv
<1> QED
  BY <1>1, GraphInvariant, PTL

\* No update brings back an employee that was deleted, also when clients go away.
THEOREM GraphInsertsCreate == GraphSpec => OnlyInsertCreates
<1>1. GraphInv /\ [GraphNext]_gqlVars =>
          [\A i \in EmployeeIds : i \notin DOMAIN employees /\ i \in DOMAIN employees' =>
              \E m \in Calls : pc[m] = "insert" /\ Id(m) = i]_vars
  BY InsertCreates, OpMoves DEF GraphInv
<1> QED
  BY <1>1, GraphInvariant, PTL DEF GraphSpec, OnlyInsertCreates

\* An update puts into the columns it does not name what the row held there since it
\* was called.
THEOREM NothingMadeUp == GraphSpec => UnnamedColumnsWereThere
<1>1. ASSUME GraphInv, [GraphNext]_gqlVars, NEW m \in Calls,
             pc[m] = "write", pc'[m] = "reread", Holds(Id(m))
      PROVE  LET row == employees'[Id(m)] IN
             /\ input[m].email = Nil => \E r \in held[m] : r.email = row.email
             /\ input[m].middle = Nil => \E r \in held[m] : r.middle = row.middle
  <2>1. [Moves]_vars /\ CallInv /\ IsTable(employees)
    BY <1>1, OpMoves DEF GraphInv, IInv
  <2>2. Write(m)
    <3>1. PICK n \in Calls : Call(n) \/ ResolverStep(n)
      BY <1>1, <2>1, CallFrame
    <3>2. n = m
      BY <1>1, <2>1, <3>1, OthersRest
    <3> QED
      BY <1>1, <3>1, <3>2 DEF Call, CallWith, ResolverStep, Insert, Readback, Publish, Published, Read,
         Reread, Delete, SayHello, FindOne, ListPage, Send
  <2>3. Store(Merged(m))
    BY <1>1, <2>1, <2>2 DEF Write, Return, CallInv
  <2>4. Merged(m) \in Row /\ Merged(m).id = Id(m)
    BY <1>1, <2>1, MergedType
  <2>5. employees'[Id(m)] = Merged(m)
    BY <2>1, <2>3, <2>4, StoredTable
  <2>6. /\ input[m].email = Nil => Merged(m).email = existing[m].email
        /\ input[m].middle = Nil => Merged(m).middle = existing[m].middle
    BY DEF Merged, Given
  <2>7. PICK r \in held[m] : existing[m].email = r.email /\ existing[m].middle = r.middle
    BY <1>1 DEF GraphInv, HeldInv
  <2> QED
    BY <2>5, <2>6, <2>7
<1>2. GraphInv /\ [GraphNext]_gqlVars =>
          [\A m \in Calls :
              pc[m] = "write" /\ pc'[m] = "reread" /\ Holds(Id(m)) =>
                  LET row == employees'[Id(m)] IN
                  /\ input[m].email = Nil => \E r \in held[m] : r.email = row.email
                  /\ input[m].middle = Nil => \E r \in held[m] : r.middle = row.middle]_gqlVars
  BY <1>1
<1> QED
  BY <1>2, GraphInvariant, PTL DEF GraphSpec, UnnamedColumnsWereThere
==============================================================================
