----------------------------- MODULE GoSyncProps -----------------------------
(***************************************************************************)
(* What is checked and proved of GoSync.                                   *)
(***************************************************************************)
EXTENDS GoSync

-----------------------------------------------------------------------------
(***************************************************************************)
(* Safety                                                                  *)
(***************************************************************************)
Sync(r) == job[r].kind = "sync" /\ hid[r] # NoId

\* A ledger row says SUCCESSFUL only if the transaction of the request it
\* belongs to committed, and FAILED only if it did not: sync.go writes the row
\* and the target tables in separate transactions, with cancellation, faults
\* and crashes in between.
LedgerTruthful ==
    \A h \in DOMAIN history :
        /\ history[h].status = "SUCCESSFUL" => history[h].of \in applied
        /\ history[h].status = "FAILED" => history[h].of \notin applied

\* A sync request is answered 200 exactly when its batch is in the tables; an
\* error answer means that nothing of it is (SyncHandler's three exits).
ResponseTruthful ==
    \A r \in Reqs : job[r].kind = "sync" /\ pc[r] = "done" =>
        (code[r] = 200 <=> r \in applied)

\* The id createPendingHistory returned names the request's own row until the
\* row is deleted and nothing afterwards, so that the UPDATE .. WHERE id = ? of
\* markHistoryFailed never changes the row of another request.
RowIsOwn ==
    \A r \in Reqs : hid[r] \in DOMAIN history => history[hid[r]].of = r

\* d's DELETE has found the row i: d was answered 204, or is about to be, or was
\* lost in a crash before.
Deleted(d, i) ==
    /\ job[d].kind = "delete" /\ job[d].id = i
    /\ pc[d] \in {"answer", "done", "lost"} /\ code[d] = 204

\* An applied batch has its row in the ledger, unless a delete request removed it.
AuditTrail ==
    \A r \in applied :
        \/ \E h \in DOMAIN history : history[h].of = r
        \/ \E d \in Reqs : Deleted(d, hid[r])

\* A deletion that found its row is final and the only one: no late UPDATE of the
\* row's own sync or of a retry brings the row back, no other sync is given its id,
\* and no other client is told 204 for it (DeleteHistoryHandler's RowsAffected).
DeletedOnce ==
    \A d \in Reqs : Deleted(d, job[d].id) =>
        /\ job[d].id \notin DOMAIN history
        /\ \A e \in Reqs \ {d} : ~Deleted(e, job[d].id)

\* failure_reason is set on the FAILED rows and on no others: markHistoryFailed
\* sets it, the retry clears it, the UPDATE to SUCCESSFUL does not touch it.
ReasonIffFailed ==
    \A h \in DOMAIN history : history[h].reason = "text" <=> history[h].status = "FAILED"

\* A retry has written the row that r left FAILED, and was answered 200 unless it
\* is still under way, was lost in a crash or could not read the row again.
Retries(q, r) ==
    /\ job[q].kind = "retry" /\ job[q].id = hid[r]
    /\ \/ pc[q] \in {"retryReread", "lost"}
       \/ pc[q] = "done" /\ (code[q] = 200 \/ q \in untold)
Retried(r) == \E q \in Reqs : Retries(q, r)

\* The row of r has its final status: SUCCESSFUL or FAILED, or PENDING_RETRY once
\* it has been retried.  Or the UPDATE failed, whose error sync.go drops, and the row
\* still says PENDING_RETRY.
Recorded(r) ==
    \/ r \in applied /\ history[hid[r]].status = "SUCCESSFUL"
    \/ r \notin applied /\ history[hid[r]].status = "FAILED"
    \/ r \notin applied /\ history[hid[r]].status = "PENDING_RETRY" /\ Retried(r)
    \/ r \in untold /\ history[hid[r]].status = "PENDING_RETRY"

\* When a sync request is answered, its row, if not deleted, tells the outcome.
OutcomeRecorded ==
    \A r \in Reqs : Sync(r) /\ pc[r] = "done" /\ hid[r] \in DOMAIN history => Recorded(r)

\* The UNIQUE columns hold and automatic ids are fresh in the committed tables,
\* whatever mixture of upserts, inserts, probes and rollbacks came before.
TablesConsistent == UniqueKeys(tabs) /\ SequenceAhead(tabs)

\* No committed order refers to a customer or product that does not exist
\* (the FOREIGN KEY clauses of 001_init.sql).
ReferencesHold == References(tabs)

\* A health check that has been answered left no probe row behind.
ProbeCleanedUp ==
    \A r \in Reqs : job[r].kind = "health" /\ pc[r] = "done" =>
        ProbeIds(tabs, r) = {}

-----------------------------------------------------------------------------
(***************************************************************************)
(* Action properties                                                       *)
(***************************************************************************)
\* Item k of r's batch takes the tables t to the tables u without an error.
RanItem(t, r, k, u) ==
    \E rnd \in Ids :
        LET res == ProcessItem(t, job[r].model, job[r].items[k], rnd, fk, r)
        IN  res.err = 0 /\ u = res.tabs

\* The transaction of r took the committed tables through the whole batch.
WholeBatch(r) ==
    /\ conn = r
    /\ Len(work) = Len(job[r].items) + 1
    /\ work[1] = tabs
    /\ \A k \in 1 .. Len(job[r].items) : RanItem(work[k], r, k, work[k + 1])
    /\ tabs' = work[Len(work)]

\* Nothing but the probe row of health check r comes or goes.
ProbeOnly(r) ==
    /\ job[r].kind = "health"
    /\ \A m \in Models \ {"customers"} : tabs'.rows[m] = tabs.rows[m]
    /\ \A i \in DOMAIN Customers(tabs) :
           Customers(tabs)[i].key # r => /\ i \in DOMAIN Customers(tabs')
                                        /\ Customers(tabs')[i] = Customers(tabs)[i]
    /\ \A i \in DOMAIN Customers(tabs') \ DOMAIN Customers(tabs) :
           Customers(tabs')[i].key = r

\* Batches are atomic and isolated: the committed tables change only by running
\* every item of one batch, without an error, on the tables as they are at the
\* moment of the COMMIT, and by health probes.
AtomicBatchStep ==
    tabs' # tabs => \E r \in Reqs : WholeBatch(r) \/ ProbeOnly(r)
AtomicBatches == [][AtomicBatchStep]_vars

\* SUCCESSFUL is final: no late markHistoryFailed and no retry changes it; such
\* a row can only be deleted.
SuccessFinalStep ==
    \A h \in DOMAIN history :
        history[h].status = "SUCCESSFUL" /\ h \in DOMAIN history' =>
            history'[h] = history[h]
SuccessFinal == [][SuccessFinalStep]_vars

-----------------------------------------------------------------------------
(***************************************************************************)
(* Liveness, under FairSpec                                                *)
(***************************************************************************)
\* Every request that arrives is answered, unless the process dies: nobody
\* waits for ever for the connection, not even a handler whose own transaction
\* was cancelled while it holds it.
AllAnswered ==
    \A r \in Reqs : pc[r] # "idle" ~> pc[r] \in {"done", "lost"}

\* A retry that was answered 200 leads to another attempt: the row leaves
\* PENDING_RETRY.
RetryIsAttempted ==
    \A r \in Reqs :
        job[r].kind = "retry" /\ pc[r] = "done" /\ code[r] = 200
            ~> \/ job[r].id \notin DOMAIN history
               \/ history[job[r].id].status # "PENDING_RETRY"

-----------------------------------------------------------------------------
(***************************************************************************)
(* The service implements the abstract ledger.                             *)
(***************************************************************************)
AttemptOf(r) ==
    IF hid[r] = NoId THEN "none"
    ELSE IF r \in applied THEN "applied"
    ELSE IF pc[r] \in {"begin", "items", "commit"} THEN "running"
    ELSE "dead"

RowOf(r) ==
    IF hid[r] = NoId THEN "none"
    ELSE IF hid[r] \in DOMAIN history THEN history[hid[r]].status
    ELSE "deleted"

Ledger == INSTANCE SyncLedger WITH
    Attempts <- Reqs,
    attempt  <- [r \in Reqs |-> AttemptOf(r)],
    row      <- [r \in Reqs |-> RowOf(r)]

\* Each step of the service is a step of the abstract ledger or leaves it
\* unchanged, under the mapping above.
ImplementsLedger == Ledger!LedgerSpec
-----------------------------------------------------------------------------
(***************************************************************************)
(* The inductive invariant of the proofs (GoSync_proofs).                  *)
(***************************************************************************)
Running == {"begin", "items", "commit", "fail", "succeed"}
Over    == {"answer", "done", "lost"}

\* What the program counter of a request says about its other variables.
PcOf(r) ==
    /\ pc[r] \in SyncPcs => job[r] \in Jobs /\ job[r].kind = "sync" /\ job[r].valid
    /\ pc[r] \in HealthPcs => job[r].kind = "health"
    /\ pc[r] \in RetryPcs => job[r].kind = "retry"
    /\ pc[r] = "delete" => job[r].kind = "delete"
    /\ pc[r] \in Running => hid[r] # NoId
    /\ pc[r] \in {"idle", "pending"} => hid[r] = NoId
    /\ hid[r] # NoId => job[r].kind = "sync"
    /\ pc[r] = "fail" => code[r] \in {400, 409, 500}
    /\ code[r] = 204 => pc[r] \in Over
PcInv == \A r \in Reqs : PcOf(r)

\* Where a request whose transaction committed can be, and what a sync request
\* that is done was answered.
AppliedOf(r) ==
    /\ r \in applied => hid[r] # NoId /\ pc[r] \in {"succeed"} \cup Over
    /\ pc[r] = "succeed" => r \in applied
    /\ job[r].kind = "sync" /\ pc[r] \in {"answer", "done"} => (code[r] = 200 <=> r \in applied)
AppliedInv == \A r \in Reqs : AppliedOf(r)

\* Ledger rows and requests name each other.
RowInv ==
    /\ \A r \in Reqs : hid[r] <= histSeq
    /\ \A r \in Reqs : hid[r] \in DOMAIN history => history[hid[r]].of = r
    /\ \A h \in DOMAIN history : hid[history[h].of] = h

\* A row has a final status only after its request is over, and the right one.
StatusInv ==
    \A h \in DOMAIN history :
        /\ history[h].status = "SUCCESSFUL" =>
               history[h].of \in applied /\ pc[history[h].of] \in Over
        /\ history[h].status = "FAILED" =>
               history[h].of \notin applied /\ pc[history[h].of] \in Over

\* What the SELECT of a retry established still holds when its UPDATE runs: the
\* row, if it is still there, belongs to a request that is over and not applied.
RetryInv ==
    \A q \in Reqs : pc[q] = "retryWrite" =>
        /\ job[q].id <= histSeq
        /\ job[q].id \in DOMAIN history =>
               /\ history[job[q].id].of \notin applied
               /\ pc[history[job[q].id].of] \in Over

\* Whoever opened a row finds it, or a delete that found it; and the id of a
\* deleted row is not used again.
AuditInv ==
    /\ \A r \in Reqs : hid[r] # NoId =>
        \/ hid[r] \in DOMAIN history
        \/ \E d \in Reqs : Deleted(d, hid[r])
    /\ \A d \in Reqs : Deleted(d, job[d].id) => job[d].id <= histSeq
    /\ DeletedOnce

\* The open transaction: it started from the committed tables, which nobody can
\* change meanwhile, and has run a prefix of its owner's batch without error.
TxInv ==
    /\ conn = Free => work = << >>
    /\ conn # Free =>
        /\ pc[conn] \in {"items", "commit", "fail"}
        /\ pc[conn] = "fail" => conn \in gone
        /\ pc[conn] = "items" => Len(work) <= Len(job[conn].items)
        /\ pc[conn] = "commit" => Len(work) = Len(job[conn].items) + 1
        /\ Len(work) >= 1
        /\ work[1] = tabs
        /\ \A k \in 1 .. Len(work) - 1 : RanItem(work[k], conn, k, work[k + 1])

\* The schema's promises, for the committed and the uncommitted tables.
TablesInv ==
    /\ UniqueKeys(tabs) /\ SequenceAhead(tabs)
    /\ \A k \in 1 .. Len(work) : UniqueKeys(work[k]) /\ SequenceAhead(work[k])

KeysInv ==
    "recycle" \notin FaultKinds =>
        /\ fk = "ON"
        /\ References(tabs)
        /\ \A k \in 1 .. Len(work) : References(work[k])

\* The outcome is in the row before the answer is written.
OutcomeInv ==
    \A r \in Reqs :
        Sync(r) /\ pc[r] \in {"answer", "done"} /\ hid[r] \in DOMAIN history => Recorded(r)

LedgerInv == PcInv /\ AppliedInv /\ RowInv /\ StatusInv /\ RetryInv /\ AuditInv
IInv == TypeOK /\ LedgerInv /\ TxInv /\ ReasonIffFailed /\ TablesInv /\ KeysInv
=============================================================================
