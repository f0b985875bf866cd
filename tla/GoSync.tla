------------------------------- MODULE GoSync -------------------------------
(***************************************************************************)
(* The REST side of the Go service: POST /sync, POST /sync-history/retry,  *)
(* DELETE /sync-history and GET /healthz, as concurrent requests that      *)
(* share the one connection of the database/sql pool.                      *)
(*                                                                         *)
(* A request is a goroutine; a step of it is one SQL statement (for        *)
(* processItem, all the statements of one item: they run in one            *)
(* transaction on the only connection, so nothing can come between them    *)
(* that another request could see).  A statement outside a transaction     *)
(* waits until the connection is free and commits by itself.  The answer   *)
(* that follows a change of the ledger is a step of its own: the process   *)
(* may die in between.                                                     *)
(***************************************************************************)
EXTENDS SyncTables

CONSTANTS MaxHistory,   \* the largest rowid of sync_history
          Jobs,         \* what clients may ask for
          FaultKinds,   \* which of the faults below may happen
          MaxFaults,    \* and how many of them
          Free          \* the connection is in the pool

Job == [kind : {"sync", "retry", "delete", "health"}, valid : BOOLEAN,
        model : Models, items : Seq(Item), id : 0 .. MaxHistory]

ASSUME JobsAssumption ==
    /\ Jobs \subseteq Job
    /\ \A j \in Jobs : j.kind = "sync" /\ j.valid => Len(j.items) > 0
ASSUME HistoryAssumption == MaxHistory \in Nat
ASSUME FaultAssumption == MaxFaults \in Nat
ASSUME FreeAssumption == Free \notin Reqs

VARIABLES
    pc,         \* pc[r]: the next statement of request r
    job,        \* job[r]: what r asks for
    hid,        \* hid[r]: syncHistoryID of r, NoId before the INSERT
    code,       \* code[r]: the HTTP status r has or will be answered with, or 0
    gone,       \* requests whose context is cancelled: the client went away
    untold,     \* history variable: requests with an effect that a failing statement
                \* hides: the row of a sync was not updated with its outcome, or a
                \* retry was answered 500 after its UPDATE
    conn,       \* the request whose transaction holds the connection, or Free
    work,       \* the open transaction: the tables at BEGIN and after each item
    tabs,       \* the committed target tables
    fk,         \* PRAGMA foreign_keys of the current connection
    history,    \* the sync_history table
    histSeq,    \* its entry in sqlite_sequence
    applied,    \* history variable: requests whose transaction committed
    faults      \* how many faults have happened

vars == <<pc, job, hid, code, gone, untold, conn, work, tabs, fk, history, histSeq,
          applied, faults>>
ctlVars == <<job, hid, gone, untold>>
txVars  == <<conn, work, tabs, applied>>
hisVars == <<history, histSeq>>

\* `of' is a history variable: the request that inserted the row.
HistoryRow == [status : {"PENDING_RETRY", "SUCCESSFUL", "FAILED"},
               reason : {"NULL", "text"}, of : Reqs]

SyncPcs   == {"pending", "begin", "items", "commit", "fail", "succeed"}
RetryPcs  == {"retryRead", "retryWrite", "retryReread"}
HealthPcs == {"probeRead", "probeInsert", "probeDelete"}
RestPcs   == {"idle", "done", "lost"}
Pcs       == SyncPcs \cup RetryPcs \cup HealthPcs \cup {"delete", "answer"} \cup RestPcs

NoJob == [kind |-> "health", valid |-> FALSE, model |-> "customers",
          items |-> << >>, id |-> NoId]

ControlTypeOK ==
    /\ pc \in [Reqs -> Pcs]
    /\ job \in [Reqs -> Jobs \cup {NoJob}]
    /\ hid \in [Reqs -> 0 .. MaxHistory]
    /\ code \in [Reqs -> {0, 200, 204, 400, 404, 409, 500, 503}]
    /\ gone \subseteq Reqs
    /\ untold \subseteq Reqs
    /\ applied \subseteq Reqs
    /\ faults \in 0 .. MaxFaults

StoreTypeOK ==
    /\ conn \in Reqs \cup {Free}
    /\ IsTables(tabs)
    /\ Len(work) \in Nat
    /\ work = [k \in 1 .. Len(work) |-> work[k]]
    /\ \A k \in 1 .. Len(work) : IsTables(work[k])
    /\ fk \in ForeignKeys

HistoryTypeOK ==
    /\ histSeq \in 0 .. MaxHistory
    /\ history = [h \in DOMAIN history |-> history[h]]
    /\ DOMAIN history \subseteq 1 .. histSeq
    /\ \A h \in DOMAIN history : history[h] \in HistoryRow

TypeOK == ControlTypeOK /\ StoreTypeOK /\ HistoryTypeOK

\* InitDB: the PRAGMA runs on the pool's first connection; the schema is empty.
Init ==
    /\ pc = [r \in Reqs |-> "idle"]
    /\ job = [r \in Reqs |-> NoJob]
    /\ hid = [r \in Reqs |-> NoId]
    /\ code = [r \in Reqs |-> 0]
    /\ gone = {}
    /\ untold = {}
    /\ conn = Free
    /\ work = << >>
    /\ tabs = EmptyTables
    /\ fk = "ON"
    /\ history = EmptyTable
    /\ histSeq = 0
    /\ applied = {}
    /\ faults = 0

-----------------------------------------------------------------------------
(***************************************************************************)
(* Steps of a goroutine                                                    *)
(***************************************************************************)
Goto(r, label) == pc' = [pc EXCEPT ![r] = label] /\ code' = code

\* Go on to `label', to answer `status' in the end.
GotoWith(r, label, status) ==
    /\ pc' = [pc EXCEPT ![r] = label]
    /\ code' = [code EXCEPT ![r] = status]

Answer(r, status) == GotoWith(r, "done", status)

\* c.JSON, after a handler's change of the ledger.
Respond(r) ==
    /\ pc[r] = "answer"
    /\ Goto(r, "done")
    /\ UNCHANGED <<ctlVars, txVars, hisVars, fk, faults>>

\* r is about to run a statement on a connection from the pool.
Statement(r, label) == pc[r] = label /\ conn = Free

Fault(kind) ==
    /\ kind \in FaultKinds
    /\ faults < MaxFaults
    /\ faults' = faults + 1

\* A statement that succeeds or fails by itself, and one that hits a database
\* error (disk full, I/O error, a lock held by another process).
NoFault == faults' = faults
StatementFault == Fault("stmt")

\* UPDATE sync_history SET .. WHERE id = ?: no row, no effect, no error.
SetStatus(h, status, reason) ==
    history' = IF h \in DOMAIN history
               THEN [history EXCEPT ![h] = [status |-> status, reason |-> reason,
                                            of |-> history[h].of]]
               ELSE history

ReasonOf(h) == IF h \in DOMAIN history THEN history[h].reason ELSE "NULL"

-----------------------------------------------------------------------------
(***************************************************************************)
(* SyncHandler                                                             *)
(***************************************************************************)
FirstPc(j) ==
    [sync |-> "pending", retry |-> "retryRead", delete |-> "delete",
     health |-> "probeRead"][j.kind]

\* The request is routed, decoded and validated.  A body that does not decode
\* or validate, or an id that is not a number, is answered 400 at once.
Arrive(r) ==
    /\ pc[r] = "idle"
    /\ \E j \in Jobs :
        /\ job' = [job EXCEPT ![r] = j]
        /\ IF j.valid THEN Goto(r, FirstPc(j)) ELSE Answer(r, 400)
    /\ UNCHANGED <<hid, gone, untold, txVars, hisVars, fk, faults>>

\* Seeded fault: rowids without AUTOINCREMENT, where the id of a deleted last
\* row is given out again.
CreatePendingReusesId(r) ==
    /\ Statement(r, "pending")
    /\ Cardinality(DOMAIN history) < MaxHistory
    /\ LET used == DOMAIN history \cup {0}
           next == 1 + CHOOSE h \in used : \A g \in used : g <= h
       IN  /\ histSeq' = IF next > histSeq THEN next ELSE histSeq
           /\ history' = Put(history, next, [status |-> "PENDING_RETRY",
                                             reason |-> "NULL", of |-> r])
           /\ hid' = [hid EXCEPT ![r] = next]
    /\ Goto(r, "begin")
    /\ UNCHANGED <<job, gone, untold, txVars, fk, faults>>

\* createPendingHistory: the row is committed before the transaction starts.
CreatePending(r) ==
    /\ Statement(r, "pending")
    /\ histSeq < MaxHistory
    /\ histSeq' = histSeq + 1
    /\ history' = Put(history, histSeq + 1,
                      [status |-> "PENDING_RETRY", reason |-> "NULL", of |-> r])
    /\ hid' = [hid EXCEPT ![r] = histSeq + 1]
    /\ Goto(r, "begin")
    /\ UNCHANGED <<job, gone, untold, txVars, fk, faults>>

CreatePendingFails(r) ==
    /\ Statement(r, "pending")
    /\ (histSeq = MaxHistory /\ NoFault) \/ StatementFault
    /\ Answer(r, 500)
    /\ UNCHANGED <<ctlVars, txVars, hisVars, fk>>

\* db.BeginTx(c.Request.Context(), nil)
Begin(r) ==
    /\ Statement(r, "begin")
    /\ r \notin gone
    /\ conn' = r
    /\ work' = <<tabs>>
    /\ Goto(r, "items")
    /\ UNCHANGED <<ctlVars, tabs, applied, hisVars, fk, faults>>

\* Seeded fault: the early return after BeginTx forgets markHistoryFailed.
BeginFailsUnmarked(r) ==
    /\ pc[r] = "begin"
    /\ (r \in gone /\ NoFault) \/ (conn = Free /\ StatementFault)
    /\ Answer(r, 500)
    /\ UNCHANGED <<ctlVars, txVars, hisVars, fk>>

\* The context ends the wait for a connection; BEGIN itself may fail.
BeginFails(r) ==
    /\ pc[r] = "begin"
    /\ (r \in gone /\ NoFault) \/ (conn = Free /\ StatementFault)
    /\ GotoWith(r, "fail", 500)
    /\ UNCHANGED <<ctlVars, txVars, hisVars, fk>>

Outcome(r, rnd) ==
    ProcessItem(work[Len(work)], job[r].model, job[r].items[Len(work)],
                rnd, fk, r)

\* One turn of the loop over payload.Data, without an error.  tx.Exec does not
\* look at the request's context: it works until the rollback of AwaitDone.
ItemSaved(r) ==
    /\ pc[r] = "items"
    /\ conn = r
    /\ \E rnd \in Ids :
        /\ Outcome(r, rnd).err = 0
        /\ work' = Append(work, Outcome(r, rnd).tabs)
    /\ Goto(r, IF Len(work) = Len(job[r].items) THEN "commit" ELSE "items")
    /\ UNCHANGED <<ctlVars, conn, tabs, applied, hisVars, fk, faults>>

\* tx.Rollback(): the connection goes back to the pool.
Rollback == conn' = Free /\ work' = << >> /\ UNCHANGED <<tabs, applied>>

\* Seeded fault: the loop skips a bad item instead of breaking.
ItemSkipped(r) ==
    /\ pc[r] = "items"
    /\ conn = r
    /\ \E rnd \in Ids : Outcome(r, rnd).err # 0
    /\ work' = Append(work, work[Len(work)])
    /\ Goto(r, IF Len(work) = Len(job[r].items) THEN "commit" ELSE "items")
    /\ UNCHANGED <<ctlVars, conn, tabs, applied, hisVars, fk, faults>>

\* processErr # nil: Rollback comes before markHistoryFailed, which needs the
\* connection the transaction holds.
ItemRejected(r) ==
    /\ pc[r] = "items"
    /\ conn = r
    /\ \/ /\ NoFault
          /\ \E rnd \in Ids : /\ Outcome(r, rnd).err # 0
                              /\ GotoWith(r, "fail", Outcome(r, rnd).err)
       \/ StatementFault /\ GotoWith(r, "fail", 500)
    /\ Rollback
    /\ UNCHANGED <<ctlVars, hisVars, fk>>

\* Seeded fault: the item is tried again on the finished transaction.
ItemRetriedAfterRollback(r) ==
    /\ pc[r] = "items"
    /\ conn # r
    /\ UNCHANGED vars

\* The loop goes on after AwaitDone has rolled the transaction back: tx.Exec
\* returns ErrTxDone (500), but an item that is refused before its first statement
\* still is (400).  Which item the loop had come to is not kept: any may be next
\* that has no bad one before it.
ItemAfterRollback(r) ==
    /\ pc[r] = "items"
    /\ conn # r
    /\ \E k \in DOMAIN job[r].items :
        /\ \A j \in 1 .. k - 1 : ~ItemInvalid(job[r].model, job[r].items[j])
        /\ GotoWith(r, "fail", IF ItemInvalid(job[r].model, job[r].items[k]) THEN 400 ELSE 500)
    /\ UNCHANGED <<ctlVars, txVars, hisVars, fk, faults>>

Commit(r) ==
    /\ pc[r] = "commit"
    /\ conn = r
    /\ r \notin gone
    /\ tabs' = work[Len(work)]
    /\ applied' = applied \cup {r}
    /\ conn' = Free
    /\ work' = << >>
    /\ Goto(r, "succeed")
    /\ UNCHANGED <<ctlVars, hisVars, fk, faults>>

\* Seeded fault: the error of tx.Commit is ignored.
CommitFailsUnnoticed(r) ==
    /\ pc[r] = "commit"
    /\ conn = r
    /\ r \notin gone
    /\ StatementFault
    /\ Rollback
    /\ Goto(r, "succeed")
    /\ UNCHANGED <<ctlVars, hisVars, fk>>

\* COMMIT fails and SQLite rolls back.
CommitFails(r) ==
    /\ pc[r] = "commit"
    /\ conn = r
    /\ r \notin gone
    /\ StatementFault
    /\ Rollback
    /\ GotoWith(r, "fail", 500)
    /\ UNCHANGED <<ctlVars, hisVars, fk>>

\* tx.Commit looks at the context first and returns its error; the connection
\* stays with the transaction until AwaitDone.
CommitCancelled(r) ==
    /\ pc[r] = "commit"
    /\ r \in gone
    /\ GotoWith(r, "fail", 500)
    /\ UNCHANGED <<ctlVars, txVars, hisVars, fk, faults>>

\* Seeded fault: no response is written, which net/http turns into a 200.
MarkFailedSilently(r) ==
    /\ Statement(r, "fail")
    /\ NoFault
    /\ SetStatus(hid[r], "FAILED", "text")
    /\ GotoWith(r, "answer", 200)
    /\ UNCHANGED <<ctlVars, txVars, histSeq, fk>>

\* Seeded fault: the row is saved rather than updated, even if it was deleted.
MarkFailedSaves(r) ==
    /\ Statement(r, "fail")
    /\ NoFault
    /\ history' = Put(history, hid[r],
                      [status |-> "FAILED", reason |-> "text", of |-> r])
    /\ Goto(r, "answer")
    /\ UNCHANGED <<ctlVars, txVars, histSeq, fk>>

\* A statement of r fails, and nothing tells what r has done.
Unnoticed(r) == StatementFault /\ untold' = untold \cup {r}

\* markHistoryFailed, whose error is dropped; then the error response.
MarkFailed(r) ==
    /\ Statement(r, "fail")
    /\ \/ NoFault /\ SetStatus(hid[r], "FAILED", "text") /\ UNCHANGED untold
       \/ Unnoticed(r) /\ UNCHANGED history
    /\ Goto(r, "answer")
    /\ UNCHANGED <<job, hid, gone, txVars, histSeq, fk>>

\* The UPDATE to SUCCESSFUL, whose error is dropped; then the 200 response.
MarkSuccessful(r) ==
    /\ Statement(r, "succeed")
    /\ \/ NoFault /\ SetStatus(hid[r], "SUCCESSFUL", ReasonOf(hid[r])) /\ UNCHANGED untold
       \/ Unnoticed(r) /\ UNCHANGED history
    /\ GotoWith(r, "answer", 200)
    /\ UNCHANGED <<job, hid, gone, txVars, histSeq, fk>>

-----------------------------------------------------------------------------
(***************************************************************************)
(* RetryHistoryHandler and DeleteHistoryHandler                            *)
(***************************************************************************)
HistoryUntouched == UNCHANGED <<ctlVars, txVars, hisVars, fk>>

\* Seeded fault: the status of the row is not checked.
RetryReadUnchecked(r) ==
    /\ Statement(r, "retryRead")
    /\ NoFault
    /\ IF job[r].id \in DOMAIN history
       THEN Goto(r, "retryWrite") ELSE Answer(r, 404)
    /\ HistoryUntouched

RetryRead(r) ==
    /\ Statement(r, "retryRead")
    /\ \/ /\ NoFault
          /\ \/ job[r].id \notin DOMAIN history /\ Answer(r, 404)
             \/ /\ job[r].id \in DOMAIN history
                /\ IF history[job[r].id].status = "FAILED"
                   THEN Goto(r, "retryWrite") ELSE Answer(r, 400)
       \/ StatementFault /\ Answer(r, 500)
    /\ HistoryUntouched

\* Seeded fault: failure_reason is not reset.
RetryWriteKeepsReason(r) ==
    /\ Statement(r, "retryWrite")
    /\ NoFault
    /\ SetStatus(job[r].id, "PENDING_RETRY", ReasonOf(job[r].id))
    /\ Goto(r, "retryReread")
    /\ UNCHANGED <<ctlVars, txVars, histSeq, fk>>

\* The UPDATE names the row by id alone: whatever the SELECT saw, it resets the
\* row that is there now.
RetryWrite(r) ==
    /\ Statement(r, "retryWrite")
    /\ \/ /\ NoFault
          /\ SetStatus(job[r].id, "PENDING_RETRY", "NULL")
          /\ Goto(r, "retryReread")
       \/ StatementFault /\ UNCHANGED history /\ Answer(r, 500)
    /\ UNCHANGED <<ctlVars, txVars, histSeq, fk>>

\* sql.ErrNoRows is not told apart here: a row deleted meanwhile answers 500.
RetryReread(r) ==
    /\ Statement(r, "retryReread")
    /\ \/ /\ NoFault /\ UNCHANGED untold
          /\ Answer(r, IF job[r].id \in DOMAIN history THEN 200 ELSE 500)
       \/ Unnoticed(r) /\ Answer(r, 500)
    /\ UNCHANGED <<job, hid, gone, txVars, hisVars, fk>>

\* Seeded fault: the number of deleted rows is compared the wrong way round.
DeleteHistoryInverted(r) ==
    /\ Statement(r, "delete")
    /\ NoFault
    /\ history' = Without(history, {job[r].id})
    /\ GotoWith(r, "answer", IF job[r].id \in DOMAIN history THEN 404 ELSE 204)
    /\ UNCHANGED <<ctlVars, txVars, histSeq, fk>>

\* The DELETE commits by itself; RowsAffected decides the answer.
DeleteHistory(r) ==
    /\ Statement(r, "delete")
    /\ \/ /\ NoFault
          /\ history' = Without(history, {job[r].id})
          /\ IF job[r].id \in DOMAIN history THEN GotoWith(r, "answer", 204) ELSE Answer(r, 404)
       \/ StatementFault /\ UNCHANGED history /\ Answer(r, 500)
    /\ UNCHANGED <<ctlVars, txVars, histSeq, fk>>

-----------------------------------------------------------------------------
(***************************************************************************)
(* HealthHandler                                                           *)
(***************************************************************************)
ProbeRead(r) ==
    /\ Statement(r, "probeRead")
    /\ \/ NoFault /\ GotoWith(r, "probeInsert", 200)
       \/ StatementFault /\ GotoWith(r, "probeInsert", 503)
    /\ HistoryUntouched

ProbeWrite(r) ==
    /\ Statement(r, "probeInsert")
    /\ \/ /\ NoFault /\ ProbeInsertError(tabs, r) = 0
          /\ tabs' = ProbeInsert(tabs, r)
          /\ Goto(r, "probeDelete")
       \/ /\ (NoFault /\ ProbeInsertError(tabs, r) # 0) \/ StatementFault
          /\ tabs' = tabs
          /\ Answer(r, 503)
    /\ UNCHANGED <<ctlVars, conn, work, applied, hisVars, fk>>

\* The error of the DELETE is dropped: the answer does not depend on it.
ProbeCleanUp(r) ==
    /\ Statement(r, "probeDelete")
    /\ \/ /\ NoFault /\ ~ProbeDeleteRefused(tabs, r, fk)
          /\ tabs' = ProbeDelete(tabs, r)
       \/ /\ (NoFault /\ ProbeDeleteRefused(tabs, r, fk)) \/ StatementFault
          /\ tabs' = tabs
    /\ Goto(r, "done")
    /\ UNCHANGED <<ctlVars, conn, work, applied, hisVars, fk>>

-----------------------------------------------------------------------------
(***************************************************************************)
(* The environment                                                         *)
(***************************************************************************)
\* The client of a sync request closes its connection: net/http cancels the
\* request's context.  The other handlers never look at theirs.
ClientGone(r) ==
    /\ pc[r] \in SyncPcs \ {"fail", "succeed"}
    /\ r \notin gone
    /\ Fault("gone")
    /\ gone' = gone \cup {r}
    /\ UNCHANGED <<pc, code, job, hid, untold, txVars, hisVars, fk>>

\* database/sql's goroutine of an open transaction: once the context is
\* cancelled it rolls the transaction back.
AwaitDone(r) ==
    /\ conn = r
    /\ r \in gone
    /\ Rollback
    /\ UNCHANGED <<pc, code, ctlVars, hisVars, fk, faults>>

\* The process dies (a kill, or Shutdown's five seconds running out) and is
\* started again on the same file: InitDB enables foreign keys.
Crash ==
    /\ Fault("crash")
    /\ pc' = [r \in Reqs |-> IF pc[r] \in RestPcs THEN pc[r] ELSE "lost"]
    /\ Rollback
    /\ fk' = "ON"
    /\ UNCHANGED <<code, ctlVars, hisVars>>

\* SetConnMaxLifetime: an idle connection older than an hour is closed, and
\* the pool opens another one, on which no PRAGMA is run.
Recycle ==
    /\ conn = Free
    /\ Fault("recycle")
    /\ fk' = "OFF"
    /\ UNCHANGED <<pc, code, ctlVars, txVars, hisVars>>

\* Every request has been answered, or lost in a crash.
Finished ==
    /\ \A r \in Reqs : pc[r] \in {"done", "lost"}
    /\ UNCHANGED vars

Step(r) ==
    \/ CreatePending(r) \/ CreatePendingFails(r) \/ Begin(r) \/ BeginFails(r)
    \/ ItemSaved(r) \/ ItemRejected(r) \/ ItemAfterRollback(r)
    \/ Commit(r) \/ CommitFails(r) \/ CommitCancelled(r)
    \/ MarkFailed(r) \/ MarkSuccessful(r)
    \/ RetryRead(r) \/ RetryWrite(r) \/ RetryReread(r) \/ DeleteHistory(r)
    \/ ProbeRead(r) \/ ProbeWrite(r) \/ ProbeCleanUp(r)
    \/ Respond(r)

Next ==
    \/ \E r \in Reqs : Arrive(r) \/ Step(r) \/ ClientGone(r) \/ AwaitDone(r)
    \/ Crash
    \/ Recycle
    \/ Finished

Spec == Init /\ [][Next]_vars

\* A waiting request is picked at random whenever the connection comes back
\* (database/sql's connRequests), so none is passed over for ever; the
\* goroutine of a cancelled transaction is scheduled like any other.
Fairness == \A r \in Reqs : SF_vars(Step(r)) /\ WF_vars(AwaitDone(r))

FairSpec == Spec /\ Fairness

=============================================================================
