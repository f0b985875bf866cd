--------------------------- MODULE JavaSync_proofs ---------------------------
(***************************************************************************)
(* Proofs about JavaSync, for any number of syncs, of calls of the history *)
(* controller and of connections.                                          *)
(***************************************************************************)
EXTENDS JavaSync, TLAPS

-----------------------------------------------------------------------------
(***************************************************************************)
(* The inductive invariant                                                 *)
(***************************************************************************)
Pcs == {"idle", "work", "commit", "rollback", "answer", "done", "lost"}
           \cup DOMAIN Then \cup InLedger

Row == [status : {"PENDING_RETRY", "SUCCESSFUL", "FAILED", "INVALID"},
        of : Syncs, retried : BOOLEAN]

SyncTypeOK ==
    /\ pc \in [Syncs -> Pcs]
    /\ outer \in [Syncs -> Pool \cup {Nil}]
    /\ inner \in [Syncs -> Pool \cup {Nil}]
    /\ mine \in [Syncs -> Nat]
    /\ applied \subseteq Syncs
    /\ answer \in [Syncs -> {"none", "200", "error"}]
    /\ unmarked \subseteq Syncs
    /\ torn \subseteq Syncs

HistoryTypeOK ==
    /\ seq \in Nat
    /\ DOMAIN rows \subseteq 1 .. seq
    /\ rows \in [DOMAIN rows -> Row]
    /\ call \in [Calls -> [at : {"idle", "done"}] \cup [at : {"delete"}, id : Nat]
                          \cup [at : {"retry"}, id : Nat, of : Syncs]]

\* The labels of a sync whose transaction is over.
Over == {"answer", "done", "lost"}

\* The syncs whose batch will never be committed, and whose row does not say so.
Failed == {s \in Syncs : pc[s] \in {"rollback"} \cup Over /\ s \notin applied \cup torn}

\* A sync is answered 200 with the commit of its batch, and by nothing else; a
\* batch is committed or torn at the end of its sync.
AnswerInv ==
    \A s \in Syncs :
        /\ answer[s] = "200" <=> s \in applied
        /\ s \in applied \cup torn => pc[s] \in Over
        /\ ~(s \in applied /\ s \in torn)

\* Each sync has at most one row of its own, from createPending on, and the id
\* of a row that was deleted is not given out again.
OwnRowInv ==
    /\ \A s \in Syncs :
          /\ mine[s] <= seq
          /\ pc[s] \in {"idle", "begin", "create", "createPending"} => mine[s] = 0
          /\ mine[s] \in DOMAIN rows => rows[mine[s]].of = s
    /\ \A i \in DOMAIN rows : ~rows[i].retried => mine[rows[i].of] = i

\* A row that is not PENDING_RETRY tells how its sync went, or will go; only rows
\* of syncs that failed are retried, and a sync about to commit has said so: if
\* its batch is then torn, its row goes on saying so.
StatusInv ==
    /\ \A i \in DOMAIN rows :
          /\ rows[i].status \in {"FAILED", "INVALID"} \/ rows[i].retried => rows[i].of \in Failed
          /\ rows[i].status = "SUCCESSFUL" =>
                 rows[i].of \in applied \cup torn \/ pc[rows[i].of] = "commit"
    /\ \A s \in Syncs : (s \in applied \cup torn \/ pc[s] = "commit") /\ mine[s] \in DOMAIN rows =>
          rows[mine[s]].status = "SUCCESSFUL"

\* What a call of retry has read is the row of a sync that failed, and remains so.
RetryInv ==
    \A c \in Calls : call[c].at = "retry" =>
        /\ call[c].id <= seq
        /\ call[c].of \in Failed
        /\ call[c].id \in DOMAIN rows => rows[call[c].id].of = call[c].of

HistoryInv == AnswerInv /\ OwnRowInv /\ StatusInv /\ RetryInv /\ PendingExplained

IInv == SyncTypeOK /\ HistoryTypeOK /\ PoolSound /\ HistoryInv

-----------------------------------------------------------------------------
(***************************************************************************)
(* Types                                                                   *)
(***************************************************************************)
\* The labels a thread waits for a connection at, and what follows them or an
\* exception.
LEMMA Labels ==
    /\ DOMAIN Then = {"begin", "create", "invalid", "succeed", "fail"}
    /\ Then["begin"] = "create" /\ Then["create"] = "createPending"
    /\ Then["invalid"] = "markInvalid" /\ Then["succeed"] = "markSuccess"
    /\ Then["fail"] = "markFailed"
    /\ InLedger = {"createPending", "markInvalid", "markSuccess", "saveSuccess", "markFailed"}
    /\ Pcs = {"idle", "work", "commit", "rollback", "answer", "done", "lost",
              "begin", "create", "invalid", "succeed", "fail",
              "createPending", "markInvalid", "markSuccess", "saveSuccess", "markFailed"}
    /\ ThrownTo["begin"] = "answer"
    /\ \A l \in {"create", "createPending", "invalid", "markInvalid", "fail", "markFailed"} :
          ThrownTo[l] = "rollback"
    /\ \A l \in {"succeed", "markSuccess", "saveSuccess"} : ThrownTo[l] = "fail"
BY DEF Then, InLedger, Pcs, ThrownTo

\* What an exception does to a sync, whichever it is.
LEMMA Exceptions ==
    ASSUME SyncTypeOK, NEW s \in Syncs, TimesOut(s) \/ StatementFails(s)
    PROVE  /\ pc[s] \in DOMAIN Then \cup InLedger
           /\ pc'[s] = ThrownTo[pc[s]] /\ pc'[s] \in {"answer", "rollback", "fail"}
           /\ pc'[s] = "answer" <=> pc[s] = "begin"
           /\ pc' = [pc EXCEPT ![s] = pc'[s]]
           /\ inner' = [inner EXCEPT ![s] = Nil]
           /\ answer' = IF pc[s] = "begin" THEN [answer EXCEPT ![s] = "error"] ELSE answer
           /\ unmarked' = IF pc[s] \in {"invalid", "markInvalid", "fail", "markFailed"}
                          THEN unmarked \cup {s} ELSE unmarked
           /\ UNCHANGED <<outer, mine, applied, torn, rows, seq, call>>
<1>1. pc[s] \in DOMAIN Then \cup InLedger /\ Throws(s)
  BY DEF TimesOut, StatementFails
<1>2. pc' = [pc EXCEPT ![s] = ThrownTo[pc[s]]]
  BY <1>1 DEF Throws
<1>3. pc'[s] = ThrownTo[pc[s]]
  BY <1>2 DEF SyncTypeOK
<1>4. pc'[s] \in {"answer", "rollback", "fail"} /\ (pc'[s] = "answer" <=> pc[s] = "begin")
  BY <1>1, <1>3, Labels
<1> QED
  BY <1>1, <1>2, <1>3, <1>4 DEF Throws

\* The variables of the syncs keep their types.
LEMMA SyncTypeStep ==
    ASSUME SyncTypeOK, HistoryTypeOK, [Next]_vars
    PROVE  SyncTypeOK'
<1> USE DEF SyncTypeOK, syncVars, history
<1>1. CASE UNCHANGED vars
  BY <1>1 DEF vars
<1>2. CASE Finished
  BY <1>2 DEF Finished, vars
<1>3. ASSUME NEW s \in Syncs, Arrive(s)
      PROVE  SyncTypeOK'
  BY <1>3, Labels DEF Arrive
<1>4. ASSUME NEW s \in Syncs, Take(s)
      PROVE  SyncTypeOK'
  <2>1. Then[pc[s]] \in Pcs
    BY <1>4, Labels DEF Take
  <2> QED
    BY <1>4, <2>1 DEF Take, Free
<1>5. ASSUME NEW s \in Syncs, TimesOut(s) \/ StatementFails(s)
      PROVE  SyncTypeOK'
  <2>1. {"answer", "rollback", "fail"} \subseteq Pcs
    BY Labels
  <2> QED
    BY <1>5, <2>1, Exceptions
<1>6. ASSUME NEW s \in Syncs, createPending(s)
      PROVE  SyncTypeOK'
  <2>1. seq + 1 \in Nat
    BY DEF HistoryTypeOK
  <2> QED
    BY <1>6, <2>1, Labels DEF createPending, EndInner
<1>7. ASSUME NEW s \in Syncs, Work(s) \/ markSuccess(s)
      PROVE  SyncTypeOK'
  BY <1>7, Labels DEF Work, markSuccess, EndInner
<1>8. ASSUME NEW s \in Syncs, saveSuccess(s) \/ markFailed(s) \/ markInvalid(s)
      PROVE  SyncTypeOK'
  BY <1>8, Labels DEF saveSuccess, markFailed, markInvalid, EndInner
<1>9. ASSUME NEW s \in Syncs, Commit(s) \/ CommitFails(s) \/ Rollback(s) \/ Respond(s)
      PROVE  SyncTypeOK'
  BY <1>9, Labels DEF Commit, CommitFails, Rollback, Respond, Ends
<1>10. ASSUME NEW c \in Calls, RetryWrite(c) \/ DeleteWrite(c) \/ CallFails(c)
       PROVE  SyncTypeOK'
  BY <1>10 DEF RetryWrite, DeleteWrite, CallFails
<1>11. ASSUME NEW c \in Calls, NEW i \in 1 .. seq, RetryRead(c, i) \/ DeleteRead(c, i)
       PROVE  SyncTypeOK'
  BY <1>11 DEF RetryRead, DeleteRead
<1>12. CASE Crash
  BY <1>12, Labels DEF Crash
<1> QED
  BY <1>1, <1>2, <1>3, <1>4, <1>5, <1>6, <1>7, <1>8, <1>9, <1>10, <1>11, <1>12
     DEF Next, SyncStep

\* What Inserted makes of the table: a row more, under the next id.
LEMMA InsertedRow ==
    ASSUME HistoryTypeOK, NEW row \in Row
    PROVE  /\ DOMAIN Inserted(row) = DOMAIN rows \cup {seq + 1}
           /\ Inserted(row)[seq + 1] = row
           /\ \A i \in DOMAIN rows : i # seq + 1 /\ Inserted(row)[i] = rows[i]
           /\ DOMAIN Inserted(row) \subseteq 1 .. (seq + 1)
           /\ Inserted(row) \in [DOMAIN Inserted(row) -> Row]
<1>1. DOMAIN Inserted(row) = DOMAIN rows \cup {seq + 1}
  BY DEF Inserted
<1>2. Inserted(row)[seq + 1] = row
  BY DEF Inserted
<1>3. \A i \in DOMAIN rows : i # seq + 1 /\ Inserted(row)[i] = rows[i]
  BY DEF Inserted, HistoryTypeOK
<1>4. DOMAIN Inserted(row) \subseteq 1 .. (seq + 1)
  BY <1>1 DEF HistoryTypeOK
<1>5. \A i \in DOMAIN rows \cup {seq + 1} :
          (IF i = seq + 1 THEN row ELSE rows[i]) \in Row
  BY DEF HistoryTypeOK
<1>6. Inserted(row) \in [DOMAIN rows \cup {seq + 1} -> Row]
  BY <1>5 DEF Inserted
<1> QED
  BY <1>1, <1>2, <1>3, <1>4, <1>6

\* What a mark makes of the table: the row of s, if it is there, has the status.
LEMMA MarkedRow ==
    ASSUME HistoryTypeOK, NEW s \in Syncs, NEW st, Mark(s, st),
           st \in {"SUCCESSFUL", "FAILED", "INVALID"}
    PROVE  /\ DOMAIN rows' = DOMAIN rows
           /\ rows' \in [DOMAIN rows -> Row]
           /\ \A i \in DOMAIN rows :
                 /\ rows'[i].of = rows[i].of /\ rows'[i].retried = rows[i].retried
                 /\ rows'[i].status = IF i = mine[s] THEN st ELSE rows[i].status
BY DEF HistoryTypeOK, Mark, Row

\* The steps of a sync that do not write sync_history.
Quiet(s) == \/ Take(s) \/ TimesOut(s) \/ StatementFails(s) \/ Work(s) \/ markSuccess(s)
            \/ Commit(s) \/ CommitFails(s) \/ Rollback(s) \/ Respond(s)

\* sync_history and the calls of the controller keep their types.
LEMMA HistoryTypeStep ==
    ASSUME SyncTypeOK, HistoryTypeOK, [Next]_vars
    PROVE  HistoryTypeOK'
<1>1. CASE UNCHANGED <<rows, seq, call>>
  BY <1>1 DEF HistoryTypeOK
<1>2. ASSUME NEW s \in Syncs, createPending(s)
      PROVE  HistoryTypeOK'
  <2> DEFINE row == [status |-> "PENDING_RETRY", of |-> s, retried |-> FALSE]
  <2>1. row \in Row
    BY DEF Row
  <2> HIDE DEF row
  <2>2. rows' = Inserted(row) /\ seq' = seq + 1 /\ call' = call
    BY <1>2 DEF createPending, row
  <2> QED
    BY <2>1, <2>2, InsertedRow DEF HistoryTypeOK
<1>3. ASSUME NEW s \in Syncs, saveSuccess(s) \/ markFailed(s) \/ markInvalid(s)
      PROVE  HistoryTypeOK'
  <2>1. PICK st \in {"SUCCESSFUL", "FAILED", "INVALID"} : Mark(s, st)
    BY <1>3 DEF saveSuccess, markFailed, markInvalid
  <2>2. seq' = seq /\ call' = call
    BY <1>3 DEF saveSuccess, markFailed, markInvalid
  <2> QED
    BY <2>1, <2>2, MarkedRow DEF HistoryTypeOK
<1>4. ASSUME NEW c \in Calls, RetryWrite(c)
      PROVE  HistoryTypeOK'
  <2>1. call[c].id \in Nat /\ call[c].of \in Syncs
    BY <1>4 DEF RetryWrite, HistoryTypeOK
  <2>2. call' = [call EXCEPT ![c] = [at |-> "done"]]
    BY <1>4 DEF RetryWrite, Go, Done
  <2>3. CASE /\ call[c].id \in DOMAIN rows /\ seq' = seq
             /\ rows' = [rows EXCEPT ![call[c].id].status = "PENDING_RETRY",
                                     ![call[c].id].retried = TRUE]
    <3>1. DOMAIN rows' = DOMAIN rows /\ rows' \in [DOMAIN rows -> Row]
      BY <2>3 DEF HistoryTypeOK, Row
    <3> QED
      BY <2>2, <2>3, <3>1 DEF HistoryTypeOK
  <2>4. CASE /\ rows' = Inserted([status |-> "PENDING_RETRY", of |-> call[c].of, retried |-> TRUE])
             /\ seq' = seq + 1
    <3> DEFINE row == [status |-> "PENDING_RETRY", of |-> call[c].of, retried |-> TRUE]
    <3>1. row \in Row /\ rows' = Inserted(row)
      BY <2>1, <2>4 DEF Row
    <3> HIDE DEF row
    <3>2. /\ DOMAIN rows' \subseteq 1 .. (seq + 1)
          /\ rows' \in [DOMAIN rows' -> Row]
      BY <3>1, InsertedRow
    <3>3. seq' = seq + 1 /\ seq' \in Nat
      BY <2>4 DEF HistoryTypeOK
    <3>4. DOMAIN rows' \subseteq 1 .. seq'
      BY <3>2, <3>3
    <3>5. call' \in [Calls -> [at : {"idle", "done"}] \cup [at : {"delete"}, id : Nat]
                              \cup [at : {"retry"}, id : Nat, of : Syncs]]
      BY <2>2 DEF HistoryTypeOK
    <3> QED
      BY <3>2, <3>3, <3>4, <3>5 DEF HistoryTypeOK
  <2> QED
    BY <1>4, <2>3, <2>4 DEF RetryWrite
<1>5. ASSUME NEW c \in Calls, DeleteWrite(c)
      PROVE  HistoryTypeOK'
  BY <1>5 DEF DeleteWrite, HistoryTypeOK, Go, Done
<1>6. ASSUME NEW c \in Calls, CallFails(c)
      PROVE  HistoryTypeOK'
  BY <1>6 DEF CallFails, HistoryTypeOK, Go, Done
<1>7. ASSUME NEW c \in Calls, NEW i \in 1 .. seq, RetryRead(c, i) \/ DeleteRead(c, i)
      PROVE  HistoryTypeOK'
  <2>1. i \in Nat
    BY DEF HistoryTypeOK
  <2>2. i \in DOMAIN rows => rows[i].of \in Syncs
    BY DEF HistoryTypeOK, Row
  <2>3. \/ call' = [call EXCEPT ![c] = [at |-> "done"]]
        \/ call' = [call EXCEPT ![c] = [at |-> "delete", id |-> i]]
        \/ /\ i \in DOMAIN rows
           /\ call' = [call EXCEPT ![c] = [at |-> "retry", id |-> i, of |-> rows[i].of]]
    BY <1>7 DEF RetryRead, DeleteRead, Go, Done
  <2>4. call' \in [Calls -> [at : {"idle", "done"}] \cup [at : {"delete"}, id : Nat]
                            \cup [at : {"retry"}, id : Nat, of : Syncs]]
    BY <2>1, <2>2, <2>3 DEF HistoryTypeOK
  <2>5. rows' = rows /\ seq' = seq
    BY <1>7 DEF RetryRead, DeleteRead
  <2> QED
    BY <2>4, <2>5 DEF HistoryTypeOK
<1>8. ASSUME NEW s \in Syncs, Arrive(s) \/ Quiet(s)
      PROVE  UNCHANGED <<rows, seq, call>>
  BY <1>8, Exceptions DEF Quiet, Arrive, Take, Work, markSuccess, Commit, CommitFails,
     Rollback, Respond, Ends
<1>9. Finished \/ UNCHANGED vars => UNCHANGED <<rows, seq, call>>
  BY DEF Finished, vars
<1>10. CASE Crash
  BY <1>10 DEF Crash, Done, HistoryTypeOK
<1> QED
  BY <1>1, <1>2, <1>3, <1>4, <1>5, <1>6, <1>7, <1>8, <1>9, <1>10 DEF Next, SyncStep, Quiet

-----------------------------------------------------------------------------
(***************************************************************************)
(* The pool                                                                *)
(***************************************************************************)
\* A step of a sync leaves the other syncs as they are, and a step of a call of
\* the controller leaves all of them.
LEMMA OthersRest ==
    ASSUME SyncTypeOK, NEW s \in Syncs, Arrive(s) \/ SyncStep(s),
           NEW t \in Syncs, t # s
    PROVE  /\ pc'[t] = pc[t] /\ outer'[t] = outer[t] /\ inner'[t] = inner[t]
           /\ mine'[t] = mine[t] /\ answer'[t] = answer[t]
           /\ t \in applied' <=> t \in applied
           /\ t \in torn' <=> t \in torn
           /\ t \in unmarked => t \in unmarked'
<1> USE DEF SyncTypeOK, history
<1>1. CASE Arrive(s) \/ Take(s) \/ Work(s) \/ Respond(s)
  BY <1>1 DEF Arrive, Take, Work, Respond
<1>2. CASE createPending(s) \/ markSuccess(s) \/ saveSuccess(s)
  BY <1>2 DEF createPending, markSuccess, saveSuccess, EndInner
<1>3. CASE markFailed(s) \/ markInvalid(s)
  BY <1>3 DEF markFailed, markInvalid, EndInner
<1>4. CASE Commit(s) \/ CommitFails(s) \/ Rollback(s)
  BY <1>4 DEF Commit, CommitFails, Rollback, Ends
<1>5. CASE TimesOut(s) \/ StatementFails(s)
  BY <1>5, Exceptions
<1> QED
  BY <1>1, <1>2, <1>3, <1>4, <1>5 DEF SyncStep

\* PoolSound of one sync.
Holds(s) ==
    /\ outer[s] = Nil <=> pc[s] \in {"idle", "begin", "answer", "done", "lost"}
    /\ inner[s] = Nil <=> pc[s] \notin InLedger
    /\ outer[s] # Nil => outer[s] # inner[s]

\* A step of a sync takes a connection that is free, or takes none; the sync
\* holds afterwards what its next step needs.
LEMMA Connections ==
    ASSUME SyncTypeOK, PoolSound, NEW s \in Syncs, Arrive(s) \/ SyncStep(s)
    PROVE  /\ Holds(s)'
           /\ outer'[s] \in {outer[s], Nil} \cup Free
           /\ inner'[s] \in {inner[s], Nil} \cup Free
           /\ outer'[s] = outer[s] \/ inner'[s] = inner[s]
<1>0. Holds(s) /\ Nil \notin Free
  BY PoolAssumption DEF PoolSound, Holds, Free
<1> USE <1>0, Labels DEF SyncTypeOK, Holds
<1>1. CASE Arrive(s)
  BY <1>1 DEF Arrive
<1>2. CASE Take(s)
  <2>1. PICK k \in Free : IF pc[s] = "begin" THEN outer' = [outer EXCEPT ![s] = k] /\ UNCHANGED inner
                          ELSE inner' = [inner EXCEPT ![s] = k] /\ UNCHANGED outer
    BY <1>2 DEF Take
  <2>2. k # outer[s] /\ k # inner[s] /\ k # Nil
    BY <1>0, <2>1 DEF Free, InUse
  <2>3. pc[s] \in DOMAIN Then /\ pc'[s] = Then[pc[s]]
    BY <1>2 DEF Take
  <2>4. CASE pc[s] = "begin"
    BY <2>1, <2>2, <2>3, <2>4
  <2>5. CASE pc[s] # "begin"
    <3>1. pc'[s] \in InLedger /\ pc'[s] \notin {"idle", "begin", "answer", "done", "lost"}
          /\ pc[s] \notin {"idle", "begin", "answer", "done", "lost"}
      BY <2>3, <2>5
    <3> QED
      BY <2>1, <2>2, <2>5, <3>1
  <2> QED
    BY <2>4, <2>5
<1>3. CASE TimesOut(s) \/ StatementFails(s)
  BY <1>3, Exceptions
<1>4. CASE createPending(s)
  BY <1>4 DEF createPending, EndInner
<1>5. CASE Work(s)
  BY <1>5 DEF Work
<1>6. CASE markSuccess(s)
  BY <1>6 DEF markSuccess, EndInner
<1>7. CASE saveSuccess(s) \/ markFailed(s) \/ markInvalid(s)
  BY <1>7 DEF saveSuccess, markFailed, markInvalid, EndInner
<1>8. CASE Commit(s) \/ CommitFails(s) \/ Rollback(s) \/ Respond(s)
  BY <1>8 DEF Commit, CommitFails, Rollback, Respond, Ends
<1> QED
  BY <1>1, <1>2, <1>3, <1>4, <1>5, <1>6, <1>7, <1>8 DEF SyncStep

\* A step of the controller, or none, changes no sync; a crash changes them all.
LEMMA SyncFrame ==
    ASSUME [Next]_vars
    PROVE  UNCHANGED syncVars \/ Crash \/ \E s \in Syncs : Arrive(s) \/ SyncStep(s)
<1>1. ASSUME NEW c \in Calls, RetryWrite(c) \/ DeleteWrite(c) \/ CallFails(c)
      PROVE  UNCHANGED syncVars
  BY <1>1 DEF RetryWrite, DeleteWrite, CallFails
<1>2. ASSUME NEW c \in Calls, NEW i \in 1 .. seq, RetryRead(c, i) \/ DeleteRead(c, i)
      PROVE  UNCHANGED syncVars
  BY <1>2 DEF RetryRead, DeleteRead
<1>3. Finished \/ UNCHANGED vars => UNCHANGED syncVars
  BY DEF Finished, vars
<1> QED
  BY <1>1, <1>2, <1>3 DEF Next

\* No connection is lost or given to two.
LEMMA PoolStep ==
    ASSUME SyncTypeOK, PoolSound, [Next]_vars
    PROVE  PoolSound'
<1>1. CASE UNCHANGED syncVars
  BY <1>1 DEF syncVars, PoolSound
<1>2. ASSUME NEW s \in Syncs, Arrive(s) \/ SyncStep(s)
      PROVE  PoolSound'
  <2>1. /\ Holds(s)'
        /\ outer'[s] \in {outer[s], Nil} \cup Free
        /\ inner'[s] \in {inner[s], Nil} \cup Free
        /\ outer'[s] = outer[s] \/ inner'[s] = inner[s]
    BY <1>2, Connections
  <2>2. \A t \in Syncs \ {s} : pc'[t] = pc[t] /\ outer'[t] = outer[t] /\ inner'[t] = inner[t]
    BY <1>2, OthersRest
  <2>3. \A t \in Syncs : outer[t] \notin Free /\ inner[t] \notin Free
    BY DEF Free, InUse
  <2>4. \A t \in Syncs : Holds(t)'
    BY <2>1, <2>2 DEF Holds, PoolSound
  <2>5. \A t, u \in Syncs : t # u /\ outer'[t] # Nil => outer'[t] \notin {outer'[u], inner'[u]}
    <3> SUFFICES ASSUME NEW t \in Syncs, NEW u \in Syncs, t # u, outer'[t] # Nil
                 PROVE  outer'[t] # outer'[u] /\ outer'[t] # inner'[u]
      OBVIOUS
    <3>1. CASE t = s
      BY <3>1, <2>1, <2>2, <2>3 DEF PoolSound
    <3>2. CASE u = s
      BY <3>2, <2>1, <2>2, <2>3 DEF PoolSound
    <3>3. CASE t # s /\ u # s
      BY <3>3, <2>2 DEF PoolSound
    <3> QED
      BY <3>1, <3>2, <3>3
  <2>6. \A t, u \in Syncs : t # u /\ inner'[t] # Nil => inner'[t] # inner'[u]
    <3> SUFFICES ASSUME NEW t \in Syncs, NEW u \in Syncs, t # u, inner'[t] # Nil
                 PROVE  inner'[t] # inner'[u]
      OBVIOUS
    <3>1. CASE t = s
      BY <3>1, <2>1, <2>2, <2>3 DEF PoolSound
    <3>2. CASE u = s
      BY <3>2, <2>1, <2>2, <2>3 DEF PoolSound
    <3>3. CASE t # s /\ u # s
      BY <3>3, <2>2 DEF PoolSound
    <3> QED
      BY <3>1, <3>2, <3>3
  <2> QED
    BY <2>4, <2>5, <2>6 DEF PoolSound, Holds
<1>3. CASE Crash
  <2>1. \A t \in Syncs : /\ outer'[t] = Nil /\ inner'[t] = Nil
                         /\ pc'[t] \in {"idle", "done", "lost"}
    BY <1>3 DEF Crash
  <2> QED
    BY <2>1, Labels DEF PoolSound
<1> QED
  BY <1>1, <1>2, <1>3, SyncFrame

-----------------------------------------------------------------------------
(***************************************************************************)
(* The ledger                                                              *)
(***************************************************************************)
\* The syncs that have only the commit left to do, or whose commit is over, well or
\* not.
Committing == {s \in Syncs : s \in applied \cup torn \/ pc[s] = "commit"}

\* What it is to be in these sets, before and after a step.
LEMMA Fates ==
    ASSUME NEW s \in Syncs
    PROVE  /\ s \in Failed <=>
                 pc[s] \in {"rollback", "answer", "done", "lost"} /\ s \notin applied \cup torn
           /\ s \in Failed' <=>
                 pc'[s] \in {"rollback", "answer", "done", "lost"} /\ s \notin applied' \cup torn'
           /\ s \in Committing <=> s \in applied \cup torn \/ pc[s] = "commit"
           /\ s \in Committing' <=> s \in applied' \cup torn' \/ pc'[s] = "commit"
           /\ Over = {"answer", "done", "lost"}
BY DEF Failed, Committing, Over

\* What AnswerInv says of one sync.
Answered(s) ==
    /\ answer[s] = "200" <=> s \in applied
    /\ s \in applied \cup torn => pc[s] \in Over
    /\ ~(s \in applied /\ s \in torn)

\* How a step of s moves s: a sync that failed has failed for good, one that is
\* about to commit does so, and before it has a row it goes through the labels
\* in their order.
LEMMA Moves ==
    ASSUME SyncTypeOK, AnswerInv, NEW s \in Syncs, Arrive(s) \/ SyncStep(s)
    PROVE  /\ s \in Failed => s \in Failed'
           /\ s \in Committing => s \in Committing'
           /\ s \in Committing' =>
                 \/ s \in Committing
                 \/ markSuccess(s) /\ mine[s] \notin DOMAIN rows
                 \/ saveSuccess(s) /\ mine[s] \in DOMAIN rows
           /\ pc'[s] \in {"idle", "begin", "create", "createPending"} =>
                 pc[s] \in {"idle", "begin", "create"}
           /\ Answered(s)'
<1> USE Fates, Labels DEF SyncTypeOK, history, Answered
<1>0. Answered(s)
  BY DEF AnswerInv
<1>1. CASE Arrive(s)
  BY <1>0, <1>1 DEF Arrive
<1>2. CASE Take(s)
  BY <1>0, <1>2 DEF Take
<1>3. CASE TimesOut(s) \/ StatementFails(s)
  BY <1>0, <1>3, Exceptions
<1>4. CASE createPending(s)
  BY <1>0, <1>4 DEF createPending, EndInner
<1>5. CASE Work(s)
  BY <1>0, <1>5 DEF Work
<1>6. CASE markSuccess(s)
  BY <1>0, <1>6 DEF markSuccess, EndInner
<1>7. CASE saveSuccess(s)
  BY <1>0, <1>7 DEF saveSuccess, EndInner
<1>8. CASE markFailed(s) \/ markInvalid(s)
  BY <1>0, <1>8 DEF markFailed, markInvalid, EndInner
<1>9. CASE Commit(s) \/ CommitFails(s)
  BY <1>0, <1>9 DEF Commit, CommitFails, Ends
<1>10. CASE Rollback(s) \/ Respond(s)
  BY <1>0, <1>10 DEF Rollback, Respond, Ends
<1> QED
  BY <1>1, <1>2, <1>3, <1>4, <1>5, <1>6, <1>7, <1>8, <1>9, <1>10 DEF SyncStep

\* What the fate of any sync may do in a step: nothing, once it is settled.
LEMMA FateStep ==
    ASSUME SyncTypeOK, AnswerInv, [Next]_vars, NEW t \in Syncs
    PROVE  /\ t \in Failed => t \in Failed'
           /\ t \in Committing => t \in Committing'
           /\ t \in Committing' =>
                 \/ t \in Committing
                 \/ markSuccess(t) /\ mine[t] \notin DOMAIN rows
                 \/ saveSuccess(t) /\ mine[t] \in DOMAIN rows
           /\ pc'[t] \in {"idle", "begin", "create", "createPending"} =>
                 pc[t] \in {"idle", "begin", "create"} \/ pc'[t] = pc[t]
           /\ Answered(t)'
<1>1. CASE UNCHANGED syncVars
  BY <1>1, Fates DEF syncVars, history, AnswerInv, Answered
<1>2. ASSUME NEW s \in Syncs, Arrive(s) \/ SyncStep(s), t # s
      PROVE  /\ pc'[t] = pc[t] /\ answer'[t] = answer[t]
             /\ t \in applied' <=> t \in applied
             /\ t \in torn' <=> t \in torn
  BY <1>2, OthersRest
<1>3. ASSUME NEW s \in Syncs, Arrive(s) \/ SyncStep(s), t # s
      PROVE  /\ t \in Failed => t \in Failed'
             /\ t \in Committing <=> t \in Committing'
             /\ Answered(t)'
             /\ pc'[t] = pc[t]
  BY <1>2, <1>3, Fates DEF AnswerInv, Answered
<1>4. CASE Arrive(t) \/ SyncStep(t)
  BY <1>4, Moves
<1>5. CASE Crash
  <2>1. /\ pc'[t] = IF pc[t] \in {"idle", "done"} THEN pc[t] ELSE "lost"
        /\ t \in torn' <=> t \in torn \/ pc[t] = "commit"
        /\ applied' = applied /\ answer' = answer
    BY <1>5 DEF Crash
  <2>2. Answered(t)
    BY DEF AnswerInv, Answered
  <2> QED
    BY <2>1, <2>2, Fates DEF Answered
<1> QED
  BY <1>1, <1>3, <1>4, <1>5, SyncFrame

\* A sync is answered 200 with its commit only.
LEMMA AnswerStep ==
    ASSUME SyncTypeOK, AnswerInv, [Next]_vars
    PROVE  AnswerInv'
BY FateStep DEF AnswerInv, Answered

\* sync_history is written by createPending, the marks and the controller.
LEMMA RowsFrame ==
    ASSUME [Next]_vars
    PROVE  \/ UNCHANGED <<rows, seq, mine>>
           \/ \E s \in Syncs : createPending(s) \/ saveSuccess(s) \/ markFailed(s) \/ markInvalid(s)
           \/ \E c \in Calls : RetryWrite(c) \/ DeleteWrite(c)
<1>1. ASSUME NEW s \in Syncs, Arrive(s) \/ Quiet(s)
      PROVE  UNCHANGED <<rows, seq, mine>>
  BY <1>1 DEF Quiet, Arrive, Take, TimesOut, StatementFails, Throws, Work, markSuccess,
     Commit, CommitFails, Rollback, Respond, Ends
<1>2. ASSUME NEW c \in Calls, NEW i \in 1 .. seq, RetryRead(c, i) \/ DeleteRead(c, i)
      PROVE  UNCHANGED <<rows, seq, mine>>
  BY <1>2 DEF RetryRead, DeleteRead, syncVars
<1>3. ASSUME NEW c \in Calls, CallFails(c)
      PROVE  UNCHANGED <<rows, seq, mine>>
  BY <1>3 DEF CallFails, syncVars
<1>4. Finished \/ UNCHANGED vars \/ Crash => UNCHANGED <<rows, seq, mine>>
  BY DEF Finished, vars, syncVars, Crash
<1> QED
  BY <1>1, <1>2, <1>3, <1>4 DEF Next, SyncStep, Quiet

\* The ways in which sync_history changes, in terms of its rows: a mark of s, the
\* row of a new sync, a retry of a row, one that comes after its row was deleted,
\* and a deletion.
Marks(s, st) ==
    /\ UNCHANGED <<seq, mine>>
    /\ DOMAIN rows' = DOMAIN rows
    /\ \A i \in DOMAIN rows :
          /\ rows'[i].of = rows[i].of /\ rows'[i].retried = rows[i].retried
          /\ rows'[i].status = IF i = mine[s] THEN st ELSE rows[i].status

Inserts(s, again) ==
    /\ seq' = seq + 1
    /\ DOMAIN rows' = DOMAIN rows \cup {seq + 1}
    /\ \A i \in DOMAIN rows : i # seq + 1 /\ rows'[i] = rows[i]
    /\ rows'[seq + 1].of = s /\ rows'[seq + 1].retried = again
    /\ rows'[seq + 1].status = "PENDING_RETRY"

Retries(c) ==
    /\ call[c].at = "retry" /\ call[c].id \in DOMAIN rows
    /\ UNCHANGED <<syncVars, seq>>
    /\ DOMAIN rows' = DOMAIN rows
    /\ \A i \in DOMAIN rows :
          /\ rows'[i].of = rows[i].of
          /\ i # call[c].id => rows'[i] = rows[i]
          /\ i = call[c].id => rows'[i].retried = TRUE /\ rows'[i].status = "PENDING_RETRY"

Deletes ==
    /\ UNCHANGED <<syncVars, seq>>
    /\ DOMAIN rows' \subseteq DOMAIN rows
    /\ \A i \in DOMAIN rows' : rows'[i] = rows[i]

MarkStep(s) == \/ saveSuccess(s) /\ Marks(s, "SUCCESSFUL")
               \/ markFailed(s)  /\ Marks(s, "FAILED")
               \/ markInvalid(s) /\ Marks(s, "INVALID")
OpenStep(s) == createPending(s) /\ Inserts(s, FALSE) /\ mine' = [mine EXCEPT ![s] = seq + 1]
LateRetry(c) == /\ call[c].at = "retry" /\ call[c].of \in Syncs
                /\ Inserts(call[c].of, TRUE) /\ UNCHANGED syncVars

\* There are no others.
LEMMA RowsStep ==
    ASSUME SyncTypeOK, HistoryTypeOK, [Next]_vars
    PROVE  \/ UNCHANGED <<rows, seq, mine>>
           \/ \E s \in Syncs : MarkStep(s) \/ OpenStep(s)
           \/ \E c \in Calls : Retries(c) \/ LateRetry(c)
           \/ Deletes
<1>1. ASSUME NEW s \in Syncs, NEW again \in BOOLEAN, seq' = seq + 1,
             rows' = Inserted([status |-> "PENDING_RETRY", of |-> s, retried |-> again])
      PROVE  Inserts(s, again)
  <2> DEFINE row == [status |-> "PENDING_RETRY", of |-> s, retried |-> again]
  <2>1. row \in Row
    BY DEF Row
  <2>2. row.of = s /\ row.retried = again /\ row.status = "PENDING_RETRY"
    OBVIOUS
  <2>3. rows' = Inserted(row)
    BY <1>1
  <2> HIDE DEF row
  <2>4. /\ DOMAIN rows' = DOMAIN rows \cup {seq + 1}
        /\ rows'[seq + 1] = row
        /\ \A i \in DOMAIN rows : i # seq + 1 /\ rows'[i] = rows[i]
    BY <2>1, <2>3, InsertedRow
  <2> QED
    BY <1>1, <2>2, <2>4 DEF Inserts
<1>2. ASSUME NEW s \in Syncs, createPending(s)
      PROVE  OpenStep(s)
  BY <1>1, <1>2 DEF createPending, OpenStep
<1>3. ASSUME NEW s \in Syncs, NEW st \in {"SUCCESSFUL", "FAILED", "INVALID"}, Mark(s, st),
             UNCHANGED <<seq, mine>>
      PROVE  Marks(s, st)
  BY <1>3, MarkedRow DEF Marks
<1>4. ASSUME NEW s \in Syncs, saveSuccess(s) \/ markFailed(s) \/ markInvalid(s)
      PROVE  MarkStep(s)
  BY <1>3, <1>4 DEF saveSuccess, markFailed, markInvalid, MarkStep
<1>5. ASSUME NEW c \in Calls, RetryWrite(c), call[c].id \in DOMAIN rows
      PROVE  Retries(c)
  <2>1. call[c].at = "retry" /\ UNCHANGED <<syncVars, seq>>
    BY <1>5 DEF RetryWrite
  <2>2. rows' = [rows EXCEPT ![call[c].id].status = "PENDING_RETRY",
                             ![call[c].id].retried = TRUE]
    BY <1>5 DEF RetryWrite
  <2>3. /\ DOMAIN rows' = DOMAIN rows
        /\ \A i \in DOMAIN rows :
              /\ rows'[i].of = rows[i].of
              /\ i # call[c].id => rows'[i] = rows[i]
              /\ i = call[c].id => rows'[i].retried = TRUE /\ rows'[i].status = "PENDING_RETRY"
    BY <1>5, <2>2 DEF HistoryTypeOK, Row
  <2> QED
    BY <1>5, <2>1, <2>3 DEF Retries
<1>6. ASSUME NEW c \in Calls, RetryWrite(c), call[c].id \notin DOMAIN rows
      PROVE  LateRetry(c)
  <2>1. call[c].at = "retry" /\ call[c].of \in Syncs /\ UNCHANGED syncVars
    BY <1>6 DEF RetryWrite, HistoryTypeOK
  <2>2. /\ rows' = Inserted([status |-> "PENDING_RETRY", of |-> call[c].of, retried |-> TRUE])
        /\ seq' = seq + 1
    BY <1>6 DEF RetryWrite
  <2> QED
    BY <1>1, <2>1, <2>2 DEF LateRetry
<1>7. ASSUME NEW c \in Calls, DeleteWrite(c)
      PROVE  Deletes
  BY <1>7 DEF DeleteWrite, Deletes
<1> QED
  BY <1>2, <1>4, <1>5, <1>6, <1>7, RowsFrame

\* A sync has one row of its own, and deleted ids are not used again.
LEMMA OwnRowStep ==
    ASSUME SyncTypeOK, HistoryTypeOK, AnswerInv, OwnRowInv, [Next]_vars
    PROVE  OwnRowInv'
<1>t. /\ seq \in Nat /\ mine \in [Syncs -> Nat]
      /\ \A i \in DOMAIN rows : i <= seq /\ i \in Nat /\ rows[i].of \in Syncs
  BY DEF HistoryTypeOK, SyncTypeOK, Row
<1>p. \A s \in Syncs : pc'[s] \in {"idle", "begin", "create", "createPending"} =>
          pc[s] \in {"idle", "begin", "create", "createPending"}
  BY FateStep
<1>1. CASE UNCHANGED <<rows, seq, mine>>
  BY <1>1, <1>p DEF OwnRowInv
<1>2. ASSUME NEW s \in Syncs, MarkStep(s)
      PROVE  OwnRowInv'
  BY <1>2, <1>p, <1>t DEF OwnRowInv, MarkStep, Marks
<1>3. ASSUME NEW s \in Syncs, OpenStep(s)
      PROVE  OwnRowInv'
  <2>1. mine[s] = 0 /\ pc'[s] \notin {"idle", "begin", "create", "createPending"}
    BY <1>3, Labels DEF OwnRowInv, OpenStep, createPending, EndInner, SyncTypeOK
  <2>2. mine'[s] = seq + 1 /\ \A t \in Syncs \ {s} : mine'[t] = mine[t] /\ mine[t] # seq + 1
    BY <1>3, <1>t DEF OpenStep, OwnRowInv
  <2>3. \A i \in DOMAIN rows : rows[i].of # s \/ rows[i].retried
    BY <1>t, <2>1 DEF OwnRowInv, HistoryTypeOK
  <2> QED
    BY <1>3, <1>p, <1>t, <2>1, <2>2, <2>3 DEF OwnRowInv, OpenStep, Inserts
<1>4. ASSUME NEW c \in Calls, Retries(c)
      PROVE  OwnRowInv'
  BY <1>4, <1>p, <1>t DEF OwnRowInv, Retries, syncVars
<1>5. ASSUME NEW c \in Calls, LateRetry(c)
      PROVE  OwnRowInv'
  BY <1>5, <1>p, <1>t DEF OwnRowInv, LateRetry, Inserts, syncVars
<1>6. CASE Deletes
  BY <1>6, <1>p, <1>t DEF OwnRowInv, Deletes, syncVars
<1> QED
  BY <1>1, <1>2, <1>3, <1>4, <1>5, <1>6, RowsStep

\* Whose row a row is never changes, and a row that appears has a new id.
LEMMA RowsKeep ==
    ASSUME SyncTypeOK, HistoryTypeOK, [Next]_vars
    PROVE  /\ seq <= seq' /\ seq' \in Nat
           /\ \A i \in DOMAIN rows' : i <= seq => i \in DOMAIN rows /\ rows'[i].of = rows[i].of
<1>1. seq \in Nat /\ \A i \in DOMAIN rows : i \in Nat
  BY DEF HistoryTypeOK
<1> DEFINE Keeps == /\ seq <= seq' /\ seq' \in Nat
                    /\ \A i \in DOMAIN rows' : i <= seq => i \in DOMAIN rows /\ rows'[i].of = rows[i].of
<1>2. CASE UNCHANGED <<rows, seq, mine>>
  BY <1>1, <1>2
<1>3. ASSUME NEW s \in Syncs, MarkStep(s) \/ OpenStep(s)
      PROVE  Keeps
  BY <1>1, <1>3 DEF MarkStep, Marks, OpenStep, Inserts
<1>4. ASSUME NEW c \in Calls, Retries(c) \/ LateRetry(c)
      PROVE  Keeps
  BY <1>1, <1>4 DEF Retries, LateRetry, Inserts
<1>5. CASE Deletes
  BY <1>1, <1>5 DEF Deletes
<1> QED
  BY <1>1, <1>2, <1>3, <1>4, <1>5, RowsStep

\* The status of a row tells how its sync went.
LEMMA StatusStep ==
    ASSUME SyncTypeOK, HistoryTypeOK, AnswerInv, OwnRowInv, StatusInv, RetryInv, [Next]_vars
    PROVE  StatusInv'
<1> DEFINE Fate == \A t \in Syncs :
                      (t \in Failed => t \in Failed') /\ (t \in Committing => t \in Committing')
<1>t. /\ seq \in Nat /\ mine \in [Syncs -> Nat]
      /\ \A i \in DOMAIN rows : i <= seq /\ i \in Nat /\ rows[i].of \in Syncs
  BY DEF HistoryTypeOK, SyncTypeOK, Row
<1>o. \A t \in Syncs : mine[t] <= seq /\ (mine[t] \in DOMAIN rows => rows[mine[t]].of = t)
  BY DEF OwnRowInv
<1>f. Fate
  BY FateStep
<1>i. /\ \A i \in DOMAIN rows :
            /\ rows[i].status \in {"FAILED", "INVALID"} \/ rows[i].retried => rows[i].of \in Failed
            /\ rows[i].status = "SUCCESSFUL" => rows[i].of \in Committing
      /\ \A t \in Syncs : t \in Committing /\ mine[t] \in DOMAIN rows =>
            rows[mine[t]].status = "SUCCESSFUL"
  BY Fates, <1>t DEF StatusInv
<1> DEFINE Goal == /\ \A i \in DOMAIN rows' :
                         /\ rows'[i].status \in {"FAILED", "INVALID"} \/ rows'[i].retried =>
                               rows'[i].of \in Failed'
                         /\ rows'[i].status = "SUCCESSFUL" => rows'[i].of \in Committing'
                   /\ \A t \in Syncs : t \in Committing' /\ mine'[t] \in DOMAIN rows' =>
                         rows'[mine'[t]].status = "SUCCESSFUL"
<1>g. SUFFICES Goal
  BY DEF StatusInv, Committing, Failed
<1>x. \A t \in Syncs : t \notin Failed \/ t \notin Committing
  BY DEF Failed, Committing, Over
<1>1. CASE UNCHANGED <<rows, seq, mine>>
  <2>1. \A t \in Syncs : t \in Committing' => t \in Committing \/ mine[t] \notin DOMAIN rows
                                           \/ saveSuccess(t)
    BY FateStep
  <2>2. ASSUME NEW t \in Syncs, saveSuccess(t), mine[t] \in DOMAIN rows
        PROVE  rows'[mine[t]].status = "SUCCESSFUL"
    BY <2>2, MarkedRow DEF saveSuccess
  <2> QED
    BY <1>1, <1>f, <1>i, <1>t, <2>1, <2>2
<1>2. ASSUME NEW s \in Syncs, MarkStep(s)
      PROVE  Goal
  <2>1. DOMAIN rows' = DOMAIN rows /\ mine' = mine
        /\ \A i \in DOMAIN rows : /\ rows'[i].of = rows[i].of /\ rows'[i].retried = rows[i].retried
                                  /\ i # mine[s] => rows'[i].status = rows[i].status
    BY <1>2 DEF MarkStep, Marks
  <2>2. \A t \in Syncs : t # s => mine[t] # mine[s] \/ mine[t] \notin DOMAIN rows
    BY <1>o
  <2>3. \A t \in Syncs \ {s} : t \in Committing' => t \in Committing
    BY <1>2, OthersRest DEF MarkStep, Committing, SyncStep
  <2>4. CASE saveSuccess(s) /\ Marks(s, "SUCCESSFUL")
    <3>1. mine[s] \in DOMAIN rows => s \in Committing' /\ rows'[mine[s]].status = "SUCCESSFUL"
      BY <2>4 DEF saveSuccess, EndInner, Committing, Marks, SyncTypeOK
    <3> QED
      BY <1>f, <1>i, <1>o, <1>t, <2>1, <2>2, <2>3, <3>1
  <2>5. CASE \/ markFailed(s) /\ Marks(s, "FAILED")
             \/ markInvalid(s) /\ Marks(s, "INVALID")
    <3>1. s \in Failed' /\ s \notin Committing'
      BY <2>5, FateStep DEF Answered, Over, history, markFailed, markInvalid, EndInner, Failed,
         Committing, SyncTypeOK
    <3>2. mine[s] \in DOMAIN rows => rows'[mine[s]].status \in {"FAILED", "INVALID"}
      BY <2>5 DEF Marks
    <3> QED
      BY <1>f, <1>i, <1>o, <1>t, <2>1, <2>2, <2>3, <3>1, <3>2
  <2> QED
    BY <1>2, <2>4, <2>5 DEF MarkStep
<1>3. ASSUME NEW s \in Syncs, OpenStep(s)
      PROVE  Goal
  <2>1. s \notin Committing'
    BY <1>3, FateStep, Labels DEF Answered, Over, history, OpenStep, createPending, EndInner,
       Committing, SyncTypeOK
  <2>2. \A t \in Syncs \ {s} : (t \in Committing' => t \in Committing) /\ mine'[t] = mine[t]
    BY <1>3, OthersRest DEF OpenStep, Committing, SyncStep
  <2> QED
    BY <1>3, <1>f, <1>i, <1>o, <1>t, <2>1, <2>2 DEF OpenStep, Inserts
<1>4. ASSUME NEW c \in Calls, Retries(c)
      PROVE  Goal
  <2>1. call[c].id \in DOMAIN rows /\ rows[call[c].id].of \in Failed
    BY <1>4 DEF Retries, RetryInv
  <2>2. \A t \in Syncs : (t \in Committing' <=> t \in Committing) /\ mine'[t] = mine[t]
    BY <1>4 DEF Retries, syncVars, history, Committing
  <2> QED
    BY <1>4, <1>f, <1>i, <1>o, <1>t, <1>x, <2>1, <2>2 DEF Retries
<1>5. ASSUME NEW c \in Calls, LateRetry(c)
      PROVE  Goal
  <2>1. call[c].of \in Failed
    BY <1>5 DEF LateRetry, RetryInv
  <2>2. \A t \in Syncs : (t \in Committing' <=> t \in Committing) /\ mine'[t] = mine[t]
    BY <1>5 DEF LateRetry, syncVars, history, Committing
  <2> QED
    BY <1>5, <1>f, <1>i, <1>o, <1>t, <2>1, <2>2 DEF LateRetry, Inserts
<1>6. CASE Deletes
  <2>1. \A t \in Syncs : (t \in Committing' <=> t \in Committing) /\ mine'[t] = mine[t]
    BY <1>6 DEF Deletes, syncVars, history, Committing
  <2> QED
    BY <1>6, <1>f, <1>i, <1>t, <2>1 DEF Deletes
<1> QED
  BY <1>1, <1>2, <1>3, <1>4, <1>5, <1>6, RowsStep

\* A call holds what it read; it reads in RetryRead.
LEMMA CallStep ==
    ASSUME HistoryTypeOK, [Next]_vars, NEW c \in Calls, call'[c].at = "retry"
    PROVE  \/ call'[c] = call[c]
           \/ /\ UNCHANGED <<rows, seq, syncVars>>
              /\ \E i \in DOMAIN rows : /\ rows[i].status = "FAILED"
                                        /\ call'[c].id = i /\ call'[c].of = rows[i].of
<1>1. ASSUME NEW d \in Calls, RetryWrite(d) \/ DeleteWrite(d) \/ CallFails(d)
      PROVE  call'[c] = call[c]
  BY <1>1 DEF RetryWrite, DeleteWrite, CallFails, Go, Done, HistoryTypeOK
<1>2. ASSUME NEW d \in Calls, NEW i \in 1 .. seq, DeleteRead(d, i)
      PROVE  call'[c] = call[c]
  BY <1>2 DEF DeleteRead, Go, Done, HistoryTypeOK
<1>3. ASSUME NEW d \in Calls, NEW i \in 1 .. seq, RetryRead(d, i), call'[c] # call[c]
      PROVE  /\ UNCHANGED <<rows, seq, syncVars>>
             /\ i \in DOMAIN rows /\ rows[i].status = "FAILED"
             /\ call'[c].id = i /\ call'[c].of = rows[i].of
  <2>1. UNCHANGED <<rows, seq, syncVars>>
    BY <1>3 DEF RetryRead
  <2>2. CASE i \in DOMAIN rows /\ rows[i].status = "FAILED"
    BY <1>3, <2>1, <2>2 DEF RetryRead, Go, HistoryTypeOK
  <2>3. CASE ~(i \in DOMAIN rows /\ rows[i].status = "FAILED")
    BY <1>3, <2>3 DEF RetryRead, Go, Done, HistoryTypeOK
  <2> QED
    BY <2>1, <2>2, <2>3
<1>4. ASSUME NEW s \in Syncs, Arrive(s) \/ SyncStep(s)
      PROVE  call' = call
  BY <1>4 DEF SyncStep, Arrive, Take, TimesOut, StatementFails, Throws, createPending, Work,
     markSuccess, saveSuccess, markFailed, markInvalid, Commit, CommitFails, Rollback, Respond, Ends
<1>5. Finished \/ UNCHANGED vars => call' = call
  BY DEF Finished, vars
<1>6. CASE Crash
  BY <1>6 DEF Crash, Done, HistoryTypeOK
<1> QED
  BY <1>1, <1>2, <1>3, <1>4, <1>5, <1>6 DEF Next

\* A retry is about the row of a sync that failed until it is done.
LEMMA RetryStep ==
    ASSUME SyncTypeOK, HistoryTypeOK, AnswerInv, StatusInv, RetryInv, [Next]_vars
    PROVE  RetryInv'
<1> SUFFICES ASSUME NEW c \in Calls, call'[c].at = "retry"
             PROVE  /\ call'[c].id <= seq'
                    /\ call'[c].of \in Failed'
                    /\ call'[c].id \in DOMAIN rows' => rows'[call'[c].id].of = call'[c].of
  BY DEF RetryInv, Failed
<1>1. CASE call'[c] = call[c]
  <2>1. /\ call[c].id \in Nat /\ call[c].id <= seq /\ call[c].of \in Syncs
        /\ call[c].of \in Failed
        /\ call[c].id \in DOMAIN rows => rows[call[c].id].of = call[c].of
    BY <1>1 DEF RetryInv, HistoryTypeOK
  <2>2. call[c].id <= seq'
    BY <2>1, RowsKeep DEF HistoryTypeOK
  <2>3. call[c].of \in Failed'
    BY <2>1, FateStep
  <2>4. call[c].id \in DOMAIN rows' => rows'[call[c].id].of = call[c].of
    BY <2>1, RowsKeep
  <2> QED
    BY <1>1, <2>2, <2>3, <2>4
<1>2. ASSUME UNCHANGED <<rows, seq, syncVars>>, NEW i \in DOMAIN rows,
             rows[i].status = "FAILED", call'[c].id = i, call'[c].of = rows[i].of
      PROVE  /\ call'[c].id <= seq'
             /\ call'[c].of \in Failed'
             /\ call'[c].id \in DOMAIN rows' => rows'[call'[c].id].of = call'[c].of
  <2>1. i <= seq /\ rows[i].of \in Failed
    BY <1>2 DEF HistoryTypeOK, StatusInv
  <2> QED
    BY <1>2, <2>1 DEF Failed, syncVars, history
<1> QED
  BY <1>1, <1>2, CallStep

\* The labels of a sync that is at work or waits for a connection, or died.
AtWork == {"work", "lost"} \cup DOMAIN Then \cup InLedger

\* A sync that stops being at work has written its row, or failed to do so, or has
\* no row that says PENDING_RETRY.
LEMMA WorkEnds ==
    ASSUME SyncTypeOK, HistoryTypeOK, OwnRowInv, NEW s \in Syncs, [Next]_vars,
           pc[s] \in AtWork \/ s \in unmarked
    PROVE  \/ pc'[s] \in AtWork \/ s \in unmarked'
           \/ mine[s] \notin DOMAIN rows
           \/ MarkStep(s)
<1> USE Labels DEF AtWork, SyncTypeOK
<1>1. CASE UNCHANGED syncVars
  BY <1>1 DEF syncVars, history
<1>2. ASSUME NEW t \in Syncs, t # s, Arrive(t) \/ SyncStep(t)
      PROVE  pc'[s] \in AtWork \/ s \in unmarked'
  BY <1>2, OthersRest
<1>3. CASE Arrive(s)
  BY <1>3 DEF Arrive
<1>4. CASE Take(s)
  BY <1>4 DEF Take
<1>5. CASE TimesOut(s) \/ StatementFails(s)
  <2>1. 0 \notin DOMAIN rows
    BY DEF HistoryTypeOK
  <2>2. CASE pc[s] \in {"begin", "create", "createPending"}
    BY <2>1, <2>2 DEF OwnRowInv
  <2>3. CASE pc[s] \notin {"begin", "create", "createPending"}
    BY <1>5, <2>3, Exceptions
  <2> QED
    BY <2>2, <2>3
<1>6. CASE createPending(s) \/ Work(s)
  BY <1>6 DEF createPending, Work, EndInner
<1>7. CASE markSuccess(s)
  BY <1>7 DEF markSuccess
<1>8. CASE saveSuccess(s) \/ markFailed(s) \/ markInvalid(s)
  BY <1>8, MarkedRow DEF saveSuccess, markFailed, markInvalid, MarkStep, Marks
<1>9. CASE Commit(s) \/ CommitFails(s) \/ Rollback(s) \/ Respond(s)
  BY <1>9 DEF Commit, CommitFails, Rollback, Respond, Ends, history
<1>10. CASE Crash
  BY <1>10 DEF Crash
<1> QED
  BY <1>1, <1>2, <1>3, <1>4, <1>5, <1>6, <1>7, <1>8, <1>9, <1>10, SyncFrame DEF SyncStep

\* A row that is PENDING_RETRY has a reason.
LEMMA PendingStep ==
    ASSUME SyncTypeOK, HistoryTypeOK, OwnRowInv, PendingExplained, [Next]_vars
    PROVE  PendingExplained'
<1> DEFINE Open(i) == rows[i].status = "PENDING_RETRY" /\ ~rows[i].retried
<1>t. /\ seq \in Nat /\ mine \in [Syncs -> Nat]
      /\ \A i \in DOMAIN rows : i <= seq /\ i \in Nat /\ rows[i].of \in Syncs
  BY DEF HistoryTypeOK, SyncTypeOK, Row
<1>o. \A i \in DOMAIN rows : Open(i) => mine[rows[i].of] = i
  BY DEF OwnRowInv
<1>i. \A i \in DOMAIN rows : Open(i) => pc[rows[i].of] \in AtWork \/ rows[i].of \in unmarked
  BY DEF PendingExplained, AtWork
<1> SUFFICES ASSUME NEW i \in DOMAIN rows', rows'[i].status = "PENDING_RETRY", ~rows'[i].retried
             PROVE  pc'[rows'[i].of] \in AtWork \/ rows'[i].of \in unmarked'
  BY DEF PendingExplained, AtWork
<1>1. CASE i \in DOMAIN rows /\ rows'[i].of = rows[i].of /\ Open(i)
  <2>1. PICK s \in Syncs : s = rows[i].of
    BY <1>1, <1>t
  <2>2. mine[s] = i
    BY <1>1, <1>o, <2>1
  <2>3. ~MarkStep(s)
    BY <1>1, <2>2 DEF MarkStep, Marks
  <2> QED
    BY <1>1, <1>i, <2>1, <2>2, <2>3, WorkEnds
<1>2. CASE ~(i \in DOMAIN rows /\ rows'[i].of = rows[i].of /\ Open(i))
  <2>1. ~UNCHANGED <<rows, seq, mine>> /\ ~Deletes
    BY <1>2 DEF Deletes
  <2>2. ASSUME NEW s \in Syncs
        PROVE  ~MarkStep(s)
    BY <1>2 DEF MarkStep, Marks
  <2>3. ASSUME NEW c \in Calls
        PROVE  ~Retries(c) /\ ~LateRetry(c)
    BY <1>2, <1>t DEF Retries, LateRetry, Inserts
  <2>4. PICK s \in Syncs : OpenStep(s)
    BY <2>1, <2>2, <2>3, RowsStep
  <2>5. rows'[i].of = s
    BY <1>2, <1>t, <2>4 DEF OpenStep, Inserts
  <2>6. pc'[s] \in AtWork
    BY <2>4, Labels DEF OpenStep, createPending, EndInner, AtWork, SyncTypeOK
  <2> QED
    BY <2>5, <2>6
<1> QED
  BY <1>1, <1>2

-----------------------------------------------------------------------------
(***************************************************************************)
(* The theorems                                                            *)
(***************************************************************************)
\* The initial state satisfies the invariant, and every step keeps it.
THEOREM Invariant == Spec => []IInv
<1>1. Init => IInv
  <2> SUFFICES ASSUME Init
               PROVE  IInv
    OBVIOUS
  <2>1. SyncTypeOK /\ HistoryTypeOK
    BY Labels DEF Init, SyncTypeOK, HistoryTypeOK
  <2>2. PoolSound
    BY Labels DEF Init, PoolSound
  <2>3. HistoryInv
    BY DEF Init, HistoryInv, AnswerInv, OwnRowInv, StatusInv, RetryInv, PendingExplained
  <2> QED
    BY <2>1, <2>2, <2>3 DEF IInv
<1>2. IInv /\ [Next]_vars => IInv'
  BY SyncTypeStep, HistoryTypeStep, PoolStep, AnswerStep, OwnRowStep, StatusStep, RetryStep,
     PendingStep DEF IInv, HistoryInv
<1> QED
  BY <1>1, <1>2, PTL DEF Spec

\* Connections of the pool are neither shared nor lost, on any way out of sync(),
\* whatever fails, and with any number of connections.
THEOREM PoolTheorem == Spec => []PoolSound
<1>1. IInv => PoolSound
  BY DEF IInv
<1> QED
  BY <1>1, Invariant, PTL

\* Whatever fails and whenever the process dies, a row says SUCCESSFUL only if its
\* batch is committed, or is about to be, or was when the commit failed.
THEOREM SuccessTheorem == Spec => []SuccessMeansApplied
<1>1. IInv => SuccessMeansApplied
  <2> SUFFICES ASSUME IInv
               PROVE  SuccessMeansApplied
    OBVIOUS
  <2>1. \A i \in DOMAIN rows : rows[i].status = "SUCCESSFUL" =>
            rows[i].of \in applied \cup torn \/ pc[rows[i].of] = "commit"
    BY DEF IInv, HistoryInv, StatusInv
  <2>2. applied \cap torn = {}
    BY DEF IInv, SyncTypeOK, HistoryInv, AnswerInv
  <2> QED
    BY <2>1, <2>2 DEF SuccessMeansApplied
<1> QED
  BY <1>1, Invariant, PTL

\* The response of a sync agrees with its batch, and its row with both, but for a
\* batch that is torn.
THEOREM ResponseTheorem == Spec => []ResponseTruthful
<1>1. IInv => ResponseTruthful
  <2> SUFFICES ASSUME IInv, NEW s \in Syncs
               PROVE  /\ pc[s] = "done" => (answer[s] = "200" <=> s \in applied)
                      /\ pc[s] \in {"done", "lost"} /\ mine[s] \in DOMAIN rows =>
                            (rows[mine[s]].status = "SUCCESSFUL" <=> s \in applied \cup torn)
    BY DEF ResponseTruthful
  <2>1. answer[s] = "200" <=> s \in applied
    BY DEF IInv, HistoryInv, AnswerInv
  <2>2. ASSUME pc[s] \in {"done", "lost"}, mine[s] \in DOMAIN rows
        PROVE  /\ s \in applied \cup torn => rows[mine[s]].status = "SUCCESSFUL"
               /\ rows[mine[s]].status = "SUCCESSFUL" => s \in applied \cup torn
    BY <2>2 DEF IInv, HistoryInv, OwnRowInv, StatusInv
  <2> QED
    BY <2>1, <2>2
<1> QED
  BY <1>1, Invariant, PTL

\* Nothing is left PENDING_RETRY but what was retried, is at work, died or failed
\* to be marked.
THEOREM PendingTheorem == Spec => []PendingExplained
<1>1. IInv => PendingExplained
  BY DEF IInv, HistoryInv
<1> QED
  BY <1>1, Invariant, PTL
==============================================================================
