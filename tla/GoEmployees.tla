---------------------------- MODULE GoEmployees ----------------------------
(***************************************************************************)
(* The GraphQL resolvers of the Go service: the queries and mutations on   *)
(* employees, the employeeCreated subscription and the EmployeeBroker      *)
(* between them (graph/schema.resolvers.go and graph/resolver.go).         *)
(*                                                                         *)
(* A call of a resolver is a goroutine and a step of it one SQL statement, *)
(* or one channel operation of Publish; Publish holds the broker's mutex   *)
(* from its first to its last.  Every statement is given the request's     *)
(* context.                                                                *)
(*                                                                         *)
(* Of an employee the id, the UNIQUE e-mail and one optional column, the   *)
(* middle name, are kept.                                                  *)
(***************************************************************************)
EXTENDS Integers, Sequences, FiniteSets, SequencesExt

CONSTANTS Calls,        \* calls of resolvers
          Subs,         \* subscriptions
          EmployeeIds,
          Emails,
          Middles,      \* middle names
          Blank,        \* the middle name that is only spaces
          Inputs,       \* what the calls ask for
          Cap,          \* capacity of a subscriber's channel; 10 in the code
          DefaultLimit, \* length of a page when no limit is given; 10 in the code
          StartTables,  \* what earlier requests may have left in the table
          Nil           \* an absent input field, NULL, no row, or nobody

MiddleNames == Middles \cup {Blank, Nil}
Row == [id : EmployeeIds, email : Emails, middle : MiddleNames]

\* What scanEmployee makes of a row: of the full name the middle part is kept.
Employee == [id : EmployeeIds, email : Emails, middle : MiddleNames,
             fullName : {<< >>} \cup {<<n>> : n \in Middles}]

\* A selection set is one of the fields of an Employee.
Selections == SUBSET {"id", "email", "middle", "fullName"}

\* The arguments of a field; `valid' says whether they can be unmarshalled.  In
\* the input of an update an explicit null is the same as an absent field, Nil.
\* A search pattern is given by the e-mails it matches.
ById  == [kind : {"createEmployee", "updateEmployee", "deleteEmployee", "employee"},
          id : EmployeeIds, email : Emails \cup {Nil}, middle : MiddleNames,
          sel : Selections, valid : BOOLEAN]
Paged == [kind : {"employees", "searchEmployees"}, search : SUBSET Emails,
          offset : Int \cup {Nil}, limit : Int \cup {Nil},
          sel : Selections, valid : BOOLEAN]
Plain == [kind : {"hello"}, valid : {TRUE}]

\* CreateEmployeeInput requires the e-mail.
ASSUME InputsAssumption ==
    Inputs \subseteq {in \in ById : in.kind = "createEmployee" => in.email # Nil}
                    \cup Paged \cup Plain
\* An id is a Go int.
ASSUME IdsAssumption == EmployeeIds \subseteq Int /\ IsFiniteSet(EmployeeIds)
ASSUME CallsAssumption == IsFiniteSet(Calls)
ASSUME CapAssumption == Cap \in Nat \ {0} /\ DefaultLimit \in Nat \ {0}
ASSUME NilAssumption ==
    Nil \notin Row \cup Calls \cup Subs \cup Emails \cup Middles \cup {Blank}
ASSUME StartAssumption ==
    \A t \in StartTables : /\ DOMAIN t \subseteq EmployeeIds
                           /\ \A i \in DOMAIN t : t[i] \in Row /\ t[i].id = i

VARIABLES
    pc,         \* pc[m]: the next step of call m
    input,      \* input[m]: the arguments of m
    existing,   \* existing[m]: the employee m read last, or Nil
    answer,     \* answer[m]: how the resolver returned
    result,     \* result[m]: the employees it returned
    gone,       \* calls whose context is cancelled: none here, see GoGraphQL
    employees,  \* the table: a function from the ids in use to rows
    mu,         \* the call that holds the broker's mutex, or Nil
    todo,       \* the channels its loop has not come to yet
    subscribers,\* the broker's map
    state,      \* state[s]: "idle", "open", "leaving" (context done), "closed"
    reading,    \* the subscriptions whose reader has not returned
    chan,       \* chan[s]: the events in the channel
    got,        \* got[s]: history variable: the events the reader has taken
    dropped,    \* dropped[s]: history variable: the events that found no room
    since,      \* since[s]: history variable: events published before s subscribed
    events      \* history variable: the events in the order they were published

callVars == <<pc, input, existing, answer, result, gone>>
subVars == <<subscribers, state, reading, since>>
outVars == <<chan, got, dropped>>
vars == <<callVars, employees, mu, todo, subVars, outVars, events>>

\* An event is stamped with its position in `events'.
Event == [no : 1 .. Cardinality(Calls), by : Calls, emp : Employee]

Pcs == {"idle", "insert", "readback", "publish", "sending", "read", "write",
        "reread", "delete", "hello", "find", "list", "done"}

TypeOK ==
    /\ pc \in [Calls -> Pcs]
    /\ input \in [Calls -> Inputs \cup {Nil}]
    /\ existing \in [Calls -> Employee \cup {Nil}]
    /\ answer \in [Calls -> {"none", "value", "null", "error", "true", "false"}]
    /\ result \in [Calls -> Seq(Employee)]
    /\ gone \subseteq Calls
    /\ DOMAIN employees \subseteq EmployeeIds
    /\ \A i \in DOMAIN employees : employees[i] \in Row /\ employees[i].id = i
    /\ mu \in Calls \cup {Nil}
    /\ todo \subseteq Subs
    /\ subscribers \subseteq Subs
    /\ state \in [Subs -> {"idle", "open", "leaving", "closed"}]
    /\ reading \subseteq Subs
    /\ \A s \in Subs : chan[s] \in Seq(Event) /\ Len(chan[s]) <= Cap
    /\ got \in [Subs -> Seq(Event)]
    /\ dropped \in [Subs -> SUBSET Event]
    /\ since \in [Subs -> 0 .. Cardinality(Calls)]
    /\ events \in Seq(Event)

Init ==
    /\ pc = [m \in Calls |-> "idle"]
    /\ input = [m \in Calls |-> Nil]
    /\ existing = [m \in Calls |-> Nil]
    /\ answer = [m \in Calls |-> "none"]
    /\ result = [m \in Calls |-> << >>]
    /\ gone = {}
    /\ employees \in StartTables
    /\ mu = Nil
    /\ todo = {}
    /\ subscribers = {}
    /\ state = [s \in Subs |-> "idle"]
    /\ reading = {}
    /\ chan = [s \in Subs |-> << >>]
    /\ got = [s \in Subs |-> << >>]
    /\ dropped = [s \in Subs |-> {}]
    /\ since = [s \in Subs |-> 0]
    /\ events = << >>

-----------------------------------------------------------------------------
(***************************************************************************)
(* Statements                                                              *)
(***************************************************************************)
Goto(m, label) == pc' = [pc EXCEPT ![m] = label] /\ UNCHANGED <<answer, result>>
Return(m, how, emps) ==
    /\ pc' = [pc EXCEPT ![m] = "done"]
    /\ answer' = [answer EXCEPT ![m] = how]
    /\ result' = [result EXCEPT ![m] = emps]

Id(m) == input[m].id
Holds(i) == i \in DOMAIN employees
EmailTaken(i, email) == \E j \in DOMAIN employees \ {i} : employees[j].email = email

Store(row) ==
    employees' = [j \in DOMAIN employees \cup {row.id} |->
                     IF j = row.id THEN row ELSE employees[j]]

\* The full name is made of the parts that are there and not blank.
FullName(row) == IF row.middle \in {Nil, Blank} THEN << >> ELSE <<row.middle>>
scanEmployee(row) == [id |-> row.id, email |-> row.email, middle |-> row.middle,
                      fullName |-> FullName(row)]

\* A statement under a cancelled context fails; Publish and Hello do not look at
\* the context.
Fails(m) == m \in gone

\* getEmployeeByID returns <<error, employee>>.  Under a cancelled context the
\* error may come from rows.Next(), whose Err() is not looked at: the caller
\* then sees no row instead of an error.
getEmployeeByID(m) ==
    IF Fails(m) THEN {<<TRUE, Nil>>, <<FALSE, Nil>>}
    ELSE {<<FALSE, IF Holds(Id(m)) THEN scanEmployee(employees[Id(m)]) ELSE Nil>>}

-----------------------------------------------------------------------------
(***************************************************************************)
(* CreateEmployee                                                          *)
(***************************************************************************)
FirstStep == [createEmployee |-> "insert", updateEmployee |-> "read",
              deleteEmployee |-> "delete", employee |-> "find",
              employees |-> "list", searchEmployees |-> "list", hello |-> "hello"]

\* Arguments that cannot be unmarshalled are an error before the resolver runs.
CallWith(m, in) ==
    /\ pc[m] = "idle"
    /\ input' = [input EXCEPT ![m] = in]
    /\ IF in.valid THEN Goto(m, FirstStep[in.kind]) ELSE Return(m, "error", << >>)
    /\ UNCHANGED <<existing, gone, employees, mu, todo, subVars, outVars, events>>

Call(m) == \E in \in Inputs : CallWith(m, in)

\* A failed INSERT: the id or the e-mail is in use, or the context is done.
Insert(m) ==
    /\ pc[m] = "insert"
    /\ IF Fails(m) \/ Holds(Id(m)) \/ EmailTaken(Id(m), input[m].email)
       THEN Return(m, "error", << >>) /\ UNCHANGED employees
       ELSE /\ Store([id |-> Id(m), email |-> input[m].email, middle |-> input[m].middle])
            /\ Goto(m, "readback")
    /\ UNCHANGED <<input, existing, gone, mu, todo, subVars, outVars, events>>

\* Seeded fault: the nil that stands for no row is passed to Publish.
ReadbackNil(m) ==
    /\ pc[m] = "readback"
    /\ \E r \in getEmployeeByID(m) : existing' = [existing EXCEPT ![m] = r[2]]
    /\ Goto(m, "publish")
    /\ UNCHANGED <<input, gone, employees, mu, todo, subVars, outVars, events>>

\* The row is read back; it may have been changed or deleted since.
Readback(m) ==
    /\ pc[m] = "readback"
    /\ \E r \in getEmployeeByID(m) :
           IF r[2] = Nil THEN Return(m, "error", << >>) /\ UNCHANGED existing
           ELSE existing' = [existing EXCEPT ![m] = r[2]] /\ Goto(m, "publish")
    /\ UNCHANGED <<input, gone, employees, mu, todo, subVars, outVars, events>>

\* Seeded fault: Publish walks the map without taking the mutex.
PublishUnlocked(m) ==
    /\ pc[m] = "publish"
    /\ todo' = subscribers
    /\ mu' = mu
    /\ events' = Append(events, [no |-> Len(events) + 1, by |-> m,
                                 emp |-> existing[m]])
    /\ Goto(m, "sending")
    /\ UNCHANGED <<input, existing, gone, employees, subVars, outVars>>

\* Publish takes the mutex and starts its walk over the map.
Publish(m) ==
    /\ pc[m] = "publish"
    /\ mu = Nil
    /\ mu' = m
    /\ todo' = subscribers
    /\ events' = Append(events, [no |-> Len(events) + 1, by |-> m,
                                 emp |-> existing[m]])
    /\ Goto(m, "sending")
    /\ UNCHANGED <<input, existing, gone, employees, subVars, outVars>>

\* The event that m is sending.
Current(m) == CHOOSE e \in ToSet(events) : e.by = m

\* Seeded fault: a send that finds no room is tried again.
SendRetries(m, s) ==
    /\ pc[m] = "sending"
    /\ s \in todo
    /\ IF Len(chan[s]) < Cap
       THEN todo' = todo \ {s} /\ chan' = [chan EXCEPT ![s] = Append(@, Current(m))]
       ELSE UNCHANGED <<todo, chan>>
    /\ UNCHANGED <<callVars, employees, mu, subVars, got, dropped, events>>

\* Seeded fault: an event that finds no room takes the place of the last one.
SendReplaces(m, s) ==
    /\ pc[m] = "sending"
    /\ s \in todo
    /\ todo' = todo \ {s}
    /\ chan' = [chan EXCEPT ![s] = Append(IF Len(@) = Cap THEN Front(@) ELSE @, Current(m))]
    /\ UNCHANGED <<callVars, employees, mu, subVars, got, dropped, events>>

\* Seeded fault: after a send the loop comes to the same channel again.
SendAgain(m, s) ==
    /\ pc[m] = "sending"
    /\ s \in todo
    /\ IF Len(chan[s]) < Cap
       THEN chan' = [chan EXCEPT ![s] = Append(@, Current(m))] /\ UNCHANGED <<todo, dropped>>
       ELSE todo' = todo \ {s} /\ UNCHANGED <<chan, dropped>>
    /\ UNCHANGED <<callVars, employees, mu, subVars, got, events>>

\* select { case ch <- emp: default: }, for one channel of the map.
Send(m, s) ==
    /\ pc[m] = "sending"
    /\ s \in todo
    /\ todo' = todo \ {s}
    /\ IF Len(chan[s]) < Cap
       THEN chan' = [chan EXCEPT ![s] = Append(@, Current(m))] /\ UNCHANGED dropped
       ELSE dropped' = [dropped EXCEPT ![s] = @ \cup {Current(m)}] /\ UNCHANGED chan
    /\ UNCHANGED <<callVars, employees, mu, subVars, got, events>>

\* Seeded fault: the context is looked at after the event has been sent.
PublishedIfWanted(m) ==
    /\ pc[m] = "sending"
    /\ todo = {}
    /\ mu' = Nil
    /\ Return(m, IF m \in gone THEN "error" ELSE "value", <<existing[m]>>)
    /\ UNCHANGED <<input, existing, gone, employees, todo, subVars, outVars, events>>

\* The deferred Unlock, and the resolver's return.
Published(m) ==
    /\ pc[m] = "sending"
    /\ todo = {}
    /\ mu' = Nil
    /\ Return(m, "value", <<existing[m]>>)
    /\ UNCHANGED <<input, existing, gone, employees, todo, subVars, outVars, events>>

-----------------------------------------------------------------------------
(***************************************************************************)
(* UpdateEmployee and DeleteEmployee                                       *)
(***************************************************************************)
Read(m) ==
    /\ pc[m] = "read"
    /\ \E r \in getEmployeeByID(m) :
           IF r[2] = Nil
           THEN Return(m, IF r[1] THEN "error" ELSE "null", << >>) /\ UNCHANGED existing
           ELSE existing' = [existing EXCEPT ![m] = r[2]] /\ Goto(m, "write")
    /\ UNCHANGED <<input, gone, employees, mu, todo, subVars, outVars, events>>

Given(field, old) == IF field = Nil THEN old ELSE field

\* Seeded fault: a field that is not given is cleared.
MergedClears(m) == [id     |-> Id(m),
                    email  |-> Given(input[m].email, existing[m].email),
                    middle |-> input[m].middle]

Merged(m) == [id     |-> Id(m),
              email  |-> Given(input[m].email, existing[m].email),
              middle |-> Given(input[m].middle, existing[m].middle)]

\* Seeded fault: the row is saved rather than updated.
WriteSaves(m) ==
    /\ pc[m] = "write"
    /\ ~EmailTaken(Id(m), Merged(m).email)
    /\ Store(Merged(m))
    /\ Goto(m, "reread")
    /\ UNCHANGED <<input, existing, gone, mu, todo, subVars, outVars, events>>

\* UPDATE .. WHERE id = ?, with every column from the merge of the input and
\* what was read before; a row that is gone is not brought back.
Write(m) ==
    /\ pc[m] = "write"
    /\ \/ /\ Fails(m) \/ (Holds(Id(m)) /\ EmailTaken(Id(m), Merged(m).email))
          /\ Return(m, "error", << >>)
          /\ UNCHANGED employees
       \/ /\ ~Fails(m) /\ Holds(Id(m)) /\ ~EmailTaken(Id(m), Merged(m).email)
          /\ Store(Merged(m))
          /\ Goto(m, "reread")
       \/ /\ ~Fails(m) /\ ~Holds(Id(m))
          /\ UNCHANGED employees
          /\ Goto(m, "reread")
    /\ UNCHANGED <<input, existing, gone, mu, todo, subVars, outVars, events>>

\* return r.getEmployeeByID(ctx, id), which is also all that Employee does.
ReturnFound(m) ==
    \E r \in getEmployeeByID(m) :
        IF r[2] # Nil THEN Return(m, "value", <<r[2]>>)
        ELSE Return(m, IF r[1] THEN "error" ELSE "null", << >>)

Reread(m) ==
    /\ pc[m] = "reread"
    /\ ReturnFound(m)
    /\ UNCHANGED <<input, existing, gone, employees, mu, todo, subVars, outVars, events>>

Delete(m) ==
    /\ pc[m] = "delete"
    /\ IF Fails(m) THEN Return(m, "error", << >>) /\ UNCHANGED employees
       ELSE /\ Return(m, IF Holds(Id(m)) THEN "true" ELSE "false", << >>)
            /\ employees' = [i \in DOMAIN employees \ {Id(m)} |-> employees[i]]
    /\ UNCHANGED <<input, existing, gone, mu, todo, subVars, outVars, events>>

-----------------------------------------------------------------------------
(***************************************************************************)
(* The queries                                                             *)
(***************************************************************************)
SayHello(m) ==
    /\ pc[m] = "hello"
    /\ Return(m, "value", << >>)
    /\ UNCHANGED <<input, existing, gone, employees, mu, todo, subVars, outVars, events>>

FindOne(m) ==
    /\ pc[m] = "find"
    /\ ReturnFound(m)
    /\ UNCHANGED <<input, existing, gone, employees, mu, todo, subVars, outVars, events>>

safeOffset(offset) == IF offset # Nil /\ offset > 0 THEN offset ELSE 0
safeLimit(limit) == IF limit # Nil /\ limit > 0 THEN limit ELSE DefaultLimit

\* ORDER BY id
InIdOrder(ids) == CHOOSE s \in SetToSeqs(ids) : \A j, k \in DOMAIN s : j < k => s[j] < s[k]

\* ORDER BY id LIMIT ? OFFSET ?, over the rows the pattern matches; Employees
\* has no pattern, and its `search' is all of Emails.
PageOf(table, in) ==
    LET hits == {i \in DOMAIN table : table[i].email \in in.search}
        ids  == InIdOrder(hits)
        from == safeOffset(in.offset)
        page == SubSeq(ids, from + 1, Min({Len(ids), from + safeLimit(in.limit)}))
    IN  [k \in DOMAIN page |-> scanEmployee(table[page[k]])]

\* Employees and SearchEmployees: the single connection is held from the query
\* to the last row.  A context that is done fails the query or ends the loop
\* early, and the loop does not look at rows.Err(): any prefix may be returned.
ListPage(m) ==
    /\ pc[m] = "list"
    /\ LET page == PageOf(employees, input[m])
       IN  \/ ~Fails(m) /\ Return(m, "value", page)
           \/ Fails(m) /\ Return(m, "error", << >>)
           \/ Fails(m) /\ \E n \in 0 .. Len(page) : Return(m, "value", SubSeq(page, 1, n))
    /\ UNCHANGED <<input, existing, gone, employees, mu, todo, subVars, outVars, events>>

-----------------------------------------------------------------------------
(***************************************************************************)
(* EmployeeCreated                                                         *)
(***************************************************************************)
Subscribe(s) ==
    /\ state[s] = "idle"
    /\ mu = Nil
    /\ subscribers' = subscribers \cup {s}
    /\ state' = [state EXCEPT ![s] = "open"]
    /\ reading' = reading \cup {s}
    /\ since' = [since EXCEPT ![s] = Len(events)]
    /\ UNCHANGED <<callVars, employees, mu, todo, outVars, events>>

\* The websocket ends or the client stops the operation: the subscription's
\* context is done.
Leave(s) ==
    /\ state[s] = "open"
    /\ state' = [state EXCEPT ![s] = "leaving"]
    /\ UNCHANGED <<callVars, employees, mu, todo, subscribers, reading, since, outVars, events>>

\* The goroutine that waits for the context calls Unsubscribe, once: the
\* channel leaves the map and is closed.
Unsubscribe(s) ==
    /\ state[s] = "leaving"
    /\ mu = Nil
    /\ subscribers' = subscribers \ {s}
    /\ state' = [state EXCEPT ![s] = "closed"]
    /\ UNCHANGED <<callVars, employees, mu, todo, reading, since, outVars, events>>

\* The reader of ResolveFieldStream selects between the channel and its context:
\* it may be slow, and may take events after its context is done.
Take(s) ==
    /\ s \in reading
    /\ chan[s] # << >>
    /\ got' = [got EXCEPT ![s] = Append(@, Head(chan[s]))]
    /\ chan' = [chan EXCEPT ![s] = Tail(@)]
    /\ UNCHANGED <<callVars, employees, mu, todo, subVars, dropped, events>>

\* It returns when it sees the context done, or the closed channel empty.
EndOfStream(s) ==
    /\ s \in reading
    /\ state[s] \in {"leaving", "closed"}
    /\ reading' = reading \ {s}
    /\ UNCHANGED <<callVars, employees, mu, todo, subscribers, state, since, outVars, events>>

\* Every call has been answered.
Finished ==
    /\ \A m \in Calls : pc[m] = "done"
    /\ UNCHANGED vars

ResolverStep(m) ==
    \/ Insert(m) \/ Readback(m) \/ Publish(m) \/ Published(m)
    \/ Read(m) \/ Write(m) \/ Reread(m) \/ Delete(m)
    \/ SayHello(m) \/ FindOne(m) \/ ListPage(m)
    \/ \E s \in Subs : Send(m, s)

StreamStep(s) == Subscribe(s) \/ Leave(s) \/ Unsubscribe(s) \/ Take(s) \/ EndOfStream(s)

Next ==
    \/ \E m \in Calls : Call(m) \/ ResolverStep(m)
    \/ \E s \in Subs : StreamStep(s)
    \/ Finished

Spec == Init /\ [][Next]_vars

\* Go's mutex hands itself to a waiter that has waited long enough, so neither
\* Publish nor Unsubscribe is passed over for ever.  A reader whose context is
\* done returns; nothing is assumed of the others.
Fairness ==
    /\ \A m \in Calls : SF_vars(ResolverStep(m))
    /\ \A s \in Subs : SF_vars(Unsubscribe(s)) /\ WF_vars(EndOfStream(s))

FairSpec == Spec /\ Fairness

-----------------------------------------------------------------------------
(***************************************************************************)
(* Properties                                                              *)
(***************************************************************************)
\* Publish never sends on a closed channel, which would panic: whatever is left
\* of its walk over the map is still subscribed (Publish and Unsubscribe of
\* graph/resolver.go exclude each other).
NoSendOnClosed ==
    \A s \in todo : state[s] \in {"open", "leaving"} /\ s \in subscribers

\* Events reach a subscriber at most once and in the order they were published:
\* the stamps of what was taken and what is in the channel increase.
InOrderOnce ==
    \A s \in Subs :
        LET all == got[s] \o chan[s]
        IN  \A k \in 1 .. Len(all) - 1 : all[k].no < all[k + 1].no

\* Every event published since s subscribed reached s, is about to, or found the
\* channel full: none is lost otherwise, nor given up to make room for another.
Accounted ==
    \A s \in subscribers : \A k \in since[s] + 1 .. Len(events) :
        \/ events[k] \in ToSet(got[s] \o chan[s]) \cup dropped[s]
        \/ mu = events[k].by /\ s \in todo

\* A createEmployee that ran is answered with an employee exactly when it was
\* announced, and with the employee that was announced; an error answer means
\* that no subscriber heard of it.
AnnouncedIffAnswered ==
    \A m \in Calls : pc[m] = "done" /\ input[m].kind = "createEmployee" =>
        /\ answer[m] = "value" <=> \E e \in ToSet(events) : e.by = m
        /\ \A e \in ToSet(events) : e.by = m => result[m] = <<e.emp>>

\* A row appears only by an INSERT: an update never brings back a row that was
\* deleted after it was read.
OnlyInsertCreates ==
    [][\A i \in EmployeeIds : i \notin DOMAIN employees /\ i \in DOMAIN employees' =>
           \E m \in Calls : pc[m] = "insert" /\ Id(m) = i]_vars

\* Every call is answered, even if no subscriber ever reads, and every
\* subscription whose client left is closed and its reader returns.
CallsAnswered ==
    /\ \A m \in Calls : pc[m] # "idle" ~> pc[m] = "done"
    /\ \A s \in Subs : state[s] = "leaving" ~> state[s] = "closed" /\ s \notin reading
=============================================================================
