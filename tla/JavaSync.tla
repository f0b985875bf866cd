------------------------------ MODULE JavaSync ------------------------------
(***************************************************************************)
(* POST /sync and the sync history of the Java service (SyncService,       *)
(* SyncHistoryService and SyncHistoryController).                          *)
(*                                                                         *)
(* sync() is @Transactional and keeps a connection of the pool until its   *)
(* transaction ends; createPending and the marks are REQUIRES_NEW and take *)
(* a second one for a transaction of their own.  A thread that gets no     *)
(* connection for 30 seconds gets an exception instead.  The history       *)
(* controller takes a connection for each call of the repository.          *)
(*                                                                         *)
(* Any statement and any COMMIT may fail, and the process may die at any   *)
(* step and start again on what is committed.  (On the in-memory H2 of     *)
(* application.yml a restart is Init: tables and ledger go together.)      *)
(*                                                                         *)
(* Of a batch only the outcome is kept.  A mark reads its row and writes it *)
(* at commit: if the row is deleted in between, the write throws.  That    *)
(* makes a difference to markSuccess only, which has a step for each.      *)
(***************************************************************************)
EXTENDS Integers

CONSTANTS Syncs,        \* calls of sync()
          Calls,        \* calls of retry and delete of the history controller
          Pool,         \* the connections of the pool, 10 by default
          Nil,          \* no connection
          Faults        \* which of "statement" and "crash" may happen

ASSUME PoolAssumption == Nil \notin Pool

VARIABLES
    pc,         \* pc[s]: the next step of the sync s
    outer,      \* outer[s]: the connection of its transaction, or Nil
    inner,      \* inner[s]: the connection of its transaction on the ledger, or Nil
    mine,       \* mine[s]: the id of its ledger row; 0 before it has one
    applied,    \* the syncs whose batch is committed
    answer,     \* answer[s]: what s has been or will be answered, or "none"
    unmarked,   \* history variable: the syncs that failed to mark their row
    torn,       \* history variable: the syncs whose batch was rolled back after
                \* markSuccess, by a failing COMMIT or by the death of the process
    rows,       \* sync_history: a function from the ids in use to rows [status, of,
                \* retried]; `of' stands for the payload, `retried' is history
    seq,        \* the last id given out
    call        \* call[c]: the next step of a call of the controller, and its row

history  == <<applied, unmarked, torn>>
syncVars == <<pc, outer, inner, mine, answer, history>>
vars == <<syncVars, rows, seq, call>>

\* What a thread goes on to when it gets the connection it waits for.
Then == [begin   |-> "create",      create  |-> "createPending",
         invalid |-> "markInvalid", succeed |-> "markSuccess", fail |-> "markFailed"]

InLedger == {"createPending", "markInvalid", "markSuccess", "saveSuccess", "markFailed"}

Init ==
    /\ pc = [s \in Syncs |-> "idle"]
    /\ outer = [s \in Syncs |-> Nil]
    /\ inner = [s \in Syncs |-> Nil]
    /\ mine = [s \in Syncs |-> 0]
    /\ applied = {}
    /\ answer = [s \in Syncs |-> "none"]
    /\ unmarked = {}
    /\ torn = {}
    /\ rows = [i \in {} |-> Nil]
    /\ seq = 0
    /\ call = [c \in Calls |-> [at |-> "idle"]]

-----------------------------------------------------------------------------
(***************************************************************************)
(* The pool                                                                *)
(***************************************************************************)
InUse == {outer[s] : s \in Syncs} \cup {inner[s] : s \in Syncs}
Free  == Pool \ InUse

\* A thread gets the connection it waits for.
Take(s) ==
    /\ pc[s] \in DOMAIN Then
    /\ pc' = [pc EXCEPT ![s] = Then[pc[s]]]
    /\ \E k \in Free :
           IF pc[s] = "begin" THEN outer' = [outer EXCEPT ![s] = k] /\ UNCHANGED inner
           ELSE inner' = [inner EXCEPT ![s] = k] /\ UNCHANGED outer
    /\ UNCHANGED <<mine, answer, history, rows, seq, call>>

\* Seeded fault: a thread waits for a connection as long as it takes.
WaitsOn(s) == pc[s] \in DOMAIN Then /\ Free = {} /\ UNCHANGED vars

\* Seeded fault: an exception of markSuccess is caught and ignored.
ThrownToQuietly ==
    [begin |-> "answer", create |-> "rollback", createPending |-> "rollback",
     invalid |-> "rollback", markInvalid |-> "rollback",
     succeed |-> "commit", markSuccess |-> "commit", saveSuccess |-> "commit",
     fail |-> "rollback", markFailed |-> "rollback"]

\* Where an exception leads.  Only those of markSuccess are caught: createPending is
\* called outside the try, and the other marks before it or in the catch.
ThrownTo ==
    [begin |-> "answer", create |-> "rollback", createPending |-> "rollback",
     invalid |-> "rollback", markInvalid |-> "rollback",
     succeed |-> "fail", markSuccess |-> "fail", saveSuccess |-> "fail",
     fail |-> "rollback", markFailed |-> "rollback"]

Throws(s) ==
    /\ pc' = [pc EXCEPT ![s] = ThrownTo[pc[s]]]
    /\ inner' = [inner EXCEPT ![s] = Nil]
    /\ answer' = IF pc[s] = "begin" THEN [answer EXCEPT ![s] = "error"] ELSE answer
    /\ unmarked' = IF pc[s] \in {"invalid", "markInvalid", "fail", "markFailed"}
                   THEN unmarked \cup {s} ELSE unmarked
    /\ UNCHANGED <<outer, mine, applied, torn, rows, seq, call>>

\* No connection within 30 seconds.
TimesOut(s) == pc[s] \in DOMAIN Then /\ Free = {} /\ Throws(s)

\* A statement on the ledger or its COMMIT fails: the row is as it was.
StatementFails(s) == pc[s] \in InLedger /\ "statement" \in Faults /\ Throws(s)

\* The transaction on the ledger ends, and its connection goes back.
EndInner(s, label) ==
    /\ pc' = [pc EXCEPT ![s] = label]
    /\ inner' = [inner EXCEPT ![s] = Nil]

-----------------------------------------------------------------------------
(***************************************************************************)
(* sync()                                                                  *)
(***************************************************************************)
Arrive(s) ==
    /\ pc[s] = "idle"
    /\ pc' = [pc EXCEPT ![s] = "begin"]
    /\ UNCHANGED <<outer, inner, mine, answer, history, rows, seq, call>>

Inserted(row) == [i \in DOMAIN rows \cup {seq + 1} |-> IF i = seq + 1 THEN row ELSE rows[i]]

\* The row is committed before the batch starts; then the model is looked up.
createPending(s) ==
    /\ pc[s] = "createPending"
    /\ rows' = Inserted([status |-> "PENDING_RETRY", of |-> s, retried |-> FALSE])
    /\ seq' = seq + 1
    /\ mine' = [mine EXCEPT ![s] = seq + 1]
    /\ \E known \in BOOLEAN : EndInner(s, IF known THEN "work" ELSE "invalid")
    /\ UNCHANGED <<outer, answer, history, call>>

\* Seeded fault: an exception of an item is not caught.
WorkUncaught(s) ==
    /\ pc[s] = "work"
    /\ \E ok \in BOOLEAN : pc' = [pc EXCEPT ![s] = IF ok THEN "succeed" ELSE "rollback"]
    /\ UNCHANGED <<outer, inner, mine, answer, history, rows, seq, call>>

\* Every processItem and the flush, or the first exception of one.
Work(s) ==
    /\ pc[s] = "work"
    /\ \E ok \in BOOLEAN : pc' = [pc EXCEPT ![s] = IF ok THEN "succeed" ELSE "fail"]
    /\ UNCHANGED <<outer, inner, mine, answer, history, rows, seq, call>>

Mark(s, status) ==
    rows' = IF mine[s] \in DOMAIN rows THEN [rows EXCEPT ![mine[s]].status = status] ELSE rows

\* findById: a row that is not found is no error.
markSuccess(s) ==
    /\ pc[s] = "markSuccess"
    /\ IF mine[s] \in DOMAIN rows
       THEN pc' = [pc EXCEPT ![s] = "saveSuccess"] /\ UNCHANGED inner
       ELSE EndInner(s, "commit")
    /\ UNCHANGED <<outer, mine, answer, history, rows, seq, call>>

\* Seeded fault: markSuccess is called before the flush, whose exception then
\* reports a row that already says SUCCESSFUL.
saveSuccessFirst(s) ==
    /\ pc[s] = "saveSuccess"
    /\ Mark(s, "SUCCESSFUL")
    /\ \E ok \in BOOLEAN : EndInner(s, IF ok THEN "commit" ELSE "fail")
    /\ UNCHANGED <<outer, mine, answer, history, seq, call>>

\* The row is written; if it is gone by now, an exception.
saveSuccess(s) ==
    /\ pc[s] = "saveSuccess"
    /\ Mark(s, "SUCCESSFUL")
    /\ EndInner(s, IF mine[s] \in DOMAIN rows THEN "commit" ELSE "fail")
    /\ UNCHANGED <<outer, mine, answer, history, seq, call>>

markFailed(s) ==
    /\ pc[s] = "markFailed"
    /\ Mark(s, "FAILED")
    /\ EndInner(s, "rollback")
    /\ UNCHANGED <<outer, mine, answer, history, seq, call>>

markInvalid(s) ==
    /\ pc[s] = "markInvalid"
    /\ Mark(s, "INVALID")
    /\ EndInner(s, "rollback")
    /\ UNCHANGED <<outer, mine, answer, history, seq, call>>

\* The transaction of sync() ends, and its connection goes back.
Ends(s, how) ==
    /\ pc' = [pc EXCEPT ![s] = "answer"]
    /\ outer' = [outer EXCEPT ![s] = Nil]
    /\ answer' = [answer EXCEPT ![s] = how]
    /\ UNCHANGED <<inner, mine, unmarked, rows, seq, call>>

Commit(s) ==
    /\ pc[s] = "commit"
    /\ Ends(s, "200")
    /\ applied' = applied \cup {s}
    /\ UNCHANGED torn

\* The row says SUCCESSFUL, and the batch is rolled back.
CommitFails(s) ==
    /\ pc[s] = "commit" /\ "statement" \in Faults
    /\ Ends(s, "error")
    /\ torn' = torn \cup {s}
    /\ UNCHANGED applied

\* Seeded fault: the connection is not given back after an exception.
RollbackLeaks(s) ==
    /\ pc[s] = "rollback"
    /\ pc' = [pc EXCEPT ![s] = "answer"]
    /\ answer' = [answer EXCEPT ![s] = "error"]
    /\ UNCHANGED <<outer, inner, mine, history, rows, seq, call>>

Rollback(s) == pc[s] = "rollback" /\ Ends(s, "error") /\ UNCHANGED <<applied, torn>>

Respond(s) ==
    /\ pc[s] = "answer"
    /\ pc' = [pc EXCEPT ![s] = "done"]
    /\ UNCHANGED <<outer, inner, mine, answer, history, rows, seq, call>>

-----------------------------------------------------------------------------
(***************************************************************************)
(* The history controller                                                  *)
(***************************************************************************)
Go(c, step) == call' = [call EXCEPT ![c] = step]
Done == [at |-> "done"]

\* findById of retry: a row that is not there is a 404, one that is not FAILED
\* a 400.
RetryRead(c, i) ==
    /\ call[c].at = "idle" /\ Free # {}
    /\ IF i \in DOMAIN rows /\ rows[i].status = "FAILED"
       THEN Go(c, [at |-> "retry", id |-> i, of |-> rows[i].of])
       ELSE Go(c, Done)
    /\ UNCHANGED <<syncVars, rows, seq>>

\* save merges what was read before.  If the row is gone, merge inserts a new one
\* with the same payload.
RetryWrite(c) ==
    /\ call[c].at = "retry" /\ Free # {}
    /\ LET i == call[c].id IN
       \/ /\ i \in DOMAIN rows
          /\ rows' = [rows EXCEPT ![i].status = "PENDING_RETRY", ![i].retried = TRUE]
          /\ seq' = seq
       \/ /\ i \notin DOMAIN rows
          /\ rows' = Inserted([status |-> "PENDING_RETRY", of |-> call[c].of, retried |-> TRUE])
          /\ seq' = seq + 1
    /\ Go(c, Done)
    /\ UNCHANGED syncVars

DeleteRead(c, i) ==
    /\ call[c].at = "idle" /\ Free # {}
    /\ Go(c, IF i \in DOMAIN rows THEN [at |-> "delete", id |-> i] ELSE Done)
    /\ UNCHANGED <<syncVars, rows, seq>>

DeleteWrite(c) ==
    /\ call[c].at = "delete" /\ Free # {}
    /\ rows' = [j \in DOMAIN rows \ {call[c].id} |-> rows[j]]
    /\ Go(c, Done)
    /\ UNCHANGED <<syncVars, seq>>

\* No connection, a statement that fails, or a row that was deleted after save had
\* found it.
CallFails(c) ==
    /\ call[c].at \in {"retry", "delete"}
    /\ Go(c, Done)
    /\ UNCHANGED <<syncVars, rows, seq>>

\* The process dies: open transactions are rolled back, and nobody is answered.
Crash ==
    /\ "crash" \in Faults
    /\ pc' = [s \in Syncs |-> IF pc[s] \in {"idle", "done"} THEN pc[s] ELSE "lost"]
    /\ outer' = [s \in Syncs |-> Nil]
    /\ inner' = [s \in Syncs |-> Nil]
    /\ torn' = torn \cup {s \in Syncs : pc[s] = "commit"}
    /\ call' = [c \in Calls |-> IF call[c].at = "idle" THEN call[c] ELSE Done]
    /\ UNCHANGED <<mine, applied, answer, unmarked, rows, seq>>

\* Every sync has been answered, or lost in a crash.
Finished == (\A s \in Syncs : pc[s] \in {"done", "lost"}) /\ UNCHANGED vars

SyncStep(s) ==
    \/ Take(s) \/ TimesOut(s) \/ StatementFails(s)
    \/ createPending(s) \/ Work(s) \/ markSuccess(s) \/ saveSuccess(s)
    \/ markFailed(s) \/ markInvalid(s)
    \/ Commit(s) \/ CommitFails(s) \/ Rollback(s) \/ Respond(s)

Next ==
    \/ \E s \in Syncs : Arrive(s) \/ SyncStep(s)
    \/ \E c \in Calls : RetryWrite(c) \/ DeleteWrite(c) \/ CallFails(c)
    \/ \E c \in Calls, i \in 1 .. seq : RetryRead(c, i) \/ DeleteRead(c, i)
    \/ Crash
    \/ Finished

\* Threads run, and the pool's time-out passes.
Spec == Init /\ [][Next]_vars /\ \A s \in Syncs : WF_vars(SyncStep(s))

-----------------------------------------------------------------------------
(***************************************************************************)
(* Properties                                                              *)
(***************************************************************************)
\* Connections are neither shared nor lost: a sync holds one from its begin to
\* its end and a second one only in a transaction on the ledger, on every way
\* out of sync(), and no connection is in two hands.
PoolSound ==
    /\ \A s \in Syncs :
          /\ outer[s] = Nil <=> pc[s] \in {"idle", "begin", "answer", "done", "lost"}
          /\ inner[s] = Nil <=> pc[s] \notin InLedger
          /\ outer[s] # Nil => outer[s] # inner[s]
    /\ \A s, t \in Syncs : s # t /\ outer[s] # Nil => outer[s] \notin {outer[t], inner[t]}
    /\ \A s, t \in Syncs : s # t /\ inner[s] # Nil => inner[s] # inner[t]

\* A row says SUCCESSFUL only if its batch is committed, or the commit is the next
\* thing its sync does, or was, when it failed or the process died: markSuccess
\* commits before sync() does.
SuccessMeansApplied ==
    /\ \A i \in DOMAIN rows : rows[i].status = "SUCCESSFUL" =>
           rows[i].of \in applied \cup torn \/ pc[rows[i].of] = "commit"
    /\ applied \cap torn = {}

\* A sync is answered 200 exactly if its batch is committed.  Once it is over, its
\* row, if not deleted, says SUCCESSFUL exactly if the batch is committed or torn:
\* nothing in the service ever corrects the row of a torn one.
ResponseTruthful ==
    \A s \in Syncs :
        /\ pc[s] = "done" => (answer[s] = "200" <=> s \in applied)
        /\ pc[s] \in {"done", "lost"} /\ mine[s] \in DOMAIN rows =>
              (rows[mine[s]].status = "SUCCESSFUL" <=> s \in applied \cup torn)

\* A row is left PENDING_RETRY only by a retry, or by a sync that is still at
\* work, died, or failed to mark it.
PendingExplained ==
    \A i \in DOMAIN rows : rows[i].status = "PENDING_RETRY" /\ ~rows[i].retried =>
        LET s == rows[i].of IN
        pc[s] \in {"work", "lost"} \cup DOMAIN Then \cup InLedger \/ s \in unmarked

\* Every sync is answered, unless the process dies: syncs that have taken all
\* connections and each wait for a second one are told apart by the time-out of
\* the pool, and by nothing else.
SyncsAnswered == \A s \in Syncs : pc[s] = "begin" ~> pc[s] \in {"done", "lost"}

\* "All sync attempts are recorded in SyncHistory" (README of the Java service):
\* a sync that has been answered got a row.
AttemptsRecorded == \A s \in Syncs : pc[s] = "done" => mine[s] # 0
=============================================================================
