---------------------------- MODULE GoSync_proofs ----------------------------
(***************************************************************************)
(* Proofs about GoSync, for any number of requests, any jobs and any       *)
(* number and kinds of faults.                                             *)
(***************************************************************************)
EXTENDS GoSyncProps, SyncTables_proofs, SequenceTheorems, TLAPS

(***************************************************************************)
(* Which steps change what.                                                *)
(***************************************************************************)
\* Five statements write sync_history.
LEMMA HistoryFrame ==
    ASSUME [Next]_vars
    PROVE  \/ UNCHANGED <<hid, history, histSeq>>
           \/ \E r \in Reqs : \/ CreatePending(r) \/ MarkFailed(r) \/ MarkSuccessful(r)
                              \/ RetryWrite(r) \/ DeleteHistory(r)
<1>1. CASE UNCHANGED vars
  BY <1>1 DEF vars
<1>2. CASE \E r \in Reqs : Arrive(r) \/ ClientGone(r) \/ AwaitDone(r)
  BY <1>2 DEF Arrive, ClientGone, AwaitDone, hisVars, ctlVars
<1>3. CASE Crash \/ Recycle \/ Finished
  BY <1>3 DEF Crash, Recycle, Finished, vars, hisVars, ctlVars
<1>4. ASSUME NEW r \in Reqs, Step(r)
      PROVE  \/ UNCHANGED <<hid, history, histSeq>>
             \/ CreatePending(r) \/ MarkFailed(r) \/ MarkSuccessful(r)
             \/ RetryWrite(r) \/ DeleteHistory(r)
  BY <1>4 DEF Step, CreatePendingFails, Begin, BeginFails, ItemSaved, ItemRejected,
     ItemAfterRollback, Commit, CommitFails, CommitCancelled, RetryRead, RetryReread,
     ProbeRead, ProbeWrite, ProbeCleanUp, Respond, HistoryUntouched, hisVars, ctlVars
<1> QED
  BY <1>1, <1>2, <1>3, <1>4 DEF Next

\* The connection, the transaction and the tables change in these steps.
LEMMA StoreFrame ==
    ASSUME [Next]_vars
    PROVE  \/ UNCHANGED <<conn, work, tabs, applied>>
           \/ \E r \in Reqs : \/ Begin(r) \/ ItemSaved(r) \/ ItemRejected(r)
                              \/ Commit(r) \/ CommitFails(r)
                              \/ ProbeWrite(r) \/ ProbeCleanUp(r) \/ AwaitDone(r)
           \/ Crash
<1>1. CASE UNCHANGED vars
  BY <1>1 DEF vars
<1>2. CASE \E r \in Reqs : Arrive(r) \/ ClientGone(r)
  BY <1>2 DEF Arrive, ClientGone, txVars
<1>3. CASE Recycle \/ Finished
  BY <1>3 DEF Recycle, Finished, vars, txVars
<1>4. ASSUME NEW r \in Reqs, Step(r)
      PROVE  \/ UNCHANGED <<conn, work, tabs, applied>>
             \/ Begin(r) \/ ItemSaved(r) \/ ItemRejected(r)
             \/ Commit(r) \/ CommitFails(r) \/ ProbeWrite(r) \/ ProbeCleanUp(r)
  BY <1>4 DEF Step, CreatePending, CreatePendingFails, BeginFails,
     ItemAfterRollback, CommitCancelled, MarkFailed, MarkSuccessful,
     RetryRead, RetryWrite, RetryReread, DeleteHistory, ProbeRead,
     Respond, HistoryUntouched, txVars
<1> QED
  BY <1>1, <1>2, <1>3, <1>4 DEF Next

\* Only a new connection changes whether foreign keys are enforced.
LEMMA FkFrame ==
    ASSUME [Next]_vars
    PROVE  fk' = fk \/ Crash \/ Recycle
<1>1. ASSUME NEW r \in Reqs, Step(r)
      PROVE  fk' = fk
  BY <1>1 DEF Step, CreatePending, CreatePendingFails, Begin, BeginFails,
     ItemSaved, ItemRejected, ItemAfterRollback, Commit, CommitFails,
     CommitCancelled, MarkFailed, MarkSuccessful, RetryRead, RetryWrite,
     RetryReread, DeleteHistory, ProbeRead, ProbeWrite, ProbeCleanUp, Respond,
     HistoryUntouched
<1>2. ASSUME NEW r \in Reqs, Arrive(r) \/ ClientGone(r) \/ AwaitDone(r)
      PROVE  fk' = fk
  BY <1>2 DEF Arrive, ClientGone, AwaitDone
<1>3. Finished \/ UNCHANGED vars => fk' = fk
  BY DEF Finished, vars
<1> QED
  BY <1>1, <1>2, <1>3 DEF Next

-----------------------------------------------------------------------------
(***************************************************************************)
(* Types                                                                   *)
(***************************************************************************)
\* What a request asks for is a job, also before it has arrived.
LEMMA JobType ==
    ASSUME ControlTypeOK, NEW r \in Reqs
    PROVE  job[r] \in Job
<1>1. NoJob \in Job
  BY HistoryAssumption DEF NoJob, Job, NoId, Models
<1> QED
  BY <1>1, JobsAssumption DEF ControlTypeOK

\* The item the loop of r is at is an item of a well-formed batch.
LEMMA ItemAtHand ==
    ASSUME ControlTypeOK, StoreTypeOK, TxInv, NEW r \in Reqs,
           conn = r, pc[r] = "items", NEW rnd \in Ids
    PROVE  /\ Len(work) \in 1 .. Len(job[r].items)
           /\ Len(job[r].items) \in Nat
           /\ job[r].items[Len(work)] \in Item
           /\ job[r].model \in Models
           /\ IsTables(work[Len(work)])
           /\ Outcome(r, rnd).err \in {0, 400, 409, 500}
           /\ Outcome(r, rnd).err = 0 => IsTables(Outcome(r, rnd).tabs)
<1>1. job[r].items \in Seq(Item) /\ job[r].model \in Models
  BY JobType DEF Job
<1>2. Len(work) \in 1 .. Len(job[r].items) /\ Len(job[r].items) \in Nat
  BY <1>1, FreeAssumption DEF TxInv, StoreTypeOK
<1>3. job[r].items[Len(work)] \in Item
  BY <1>1, <1>2
<1>4. IsTables(work[Len(work)])
  BY <1>2 DEF StoreTypeOK
<1>5. Outcome(r, rnd).err \in {0, 400, 409, 500}
  BY <1>1, <1>3, <1>4, ItemOutcome DEF Outcome
<1>6. Outcome(r, rnd).err = 0 => IsTables(Outcome(r, rnd).tabs)
  BY <1>1, <1>3, <1>4, ProcessItemTables DEF Outcome
<1> QED
  BY <1>1, <1>2, <1>3, <1>4, <1>5, <1>6

\* The variables of the handlers keep their types.
LEMMA ControlTypeStep ==
    ASSUME TypeOK, TxInv, [Next]_vars
    PROVE  ControlTypeOK'
<1> USE DEF TypeOK, ControlTypeOK, Goto, GotoWith, Answer, Statement, NoFault,
        StatementFault, Unnoticed, Fault, ctlVars
<1>0. faults < MaxFaults => faults + 1 \in 0 .. MaxFaults
  BY FaultAssumption
<1> HIDE DEF Pcs
<1>p. \A l \in SyncPcs \cup RetryPcs \cup HealthPcs \cup {"delete", "answer"} \cup RestPcs : l \in Pcs
  BY DEF Pcs
<1>q. /\ SyncPcs   = {"pending", "begin", "items", "commit", "fail", "succeed"}
      /\ RetryPcs  = {"retryRead", "retryWrite", "retryReread"}
      /\ HealthPcs = {"probeRead", "probeInsert", "probeDelete"}
      /\ RestPcs   = {"idle", "done", "lost"}
  BY DEF SyncPcs, RetryPcs, HealthPcs, RestPcs
<1>1. CASE UNCHANGED vars
  BY <1>1 DEF vars
<1>2. ASSUME NEW r \in Reqs, Arrive(r)
      PROVE  ControlTypeOK'
  <2> HIDE DEF TypeOK, ControlTypeOK, Goto, GotoWith, Answer
  <2>1. PICK j \in Jobs : /\ job' = [job EXCEPT ![r] = j]
                          /\ IF j.valid THEN Goto(r, FirstPc(j)) ELSE Answer(r, 400)
    BY <1>2 DEF Arrive
  <2> USE DEF TypeOK, ControlTypeOK, Goto, GotoWith, Answer
  <2>2. FirstPc(j) \in Pcs
    <3>1. j.kind \in {"sync", "retry", "delete", "health"}
      BY JobsAssumption DEF Job
    <3>2. FirstPc(j) \in {"pending", "retryRead", "delete", "probeRead"}
      BY <3>1 DEF FirstPc
    <3>3. "pending" \in Pcs /\ "retryRead" \in Pcs /\ "delete" \in Pcs /\ "probeRead" \in Pcs
      BY <1>p, <1>q
    <3> QED
      BY <3>2, <3>3
  <2>3. pc' \in [Reqs -> Pcs] /\ code' \in [Reqs -> {0, 200, 204, 400, 404, 409, 500, 503}]
    <3>1. "done" \in Pcs
      BY <1>p, <1>q
    <3>2. CASE j.valid
      BY <3>2, <2>1, <2>2
    <3>3. CASE ~j.valid
      BY <3>3, <3>1, <2>1
    <3> QED
      BY <3>2, <3>3
  <2> QED
    BY <1>2, <2>1, <2>3 DEF Arrive, txVars
<1>3. ASSUME NEW r \in Reqs, CreatePending(r)
      PROVE  ControlTypeOK'
  BY <1>3, <1>p, <1>q, HistoryAssumption DEF CreatePending, txVars, HistoryTypeOK
<1>4. ASSUME NEW r \in Reqs,
             \/ CreatePendingFails(r) \/ BeginFails(r) \/ ItemAfterRollback(r)
             \/ CommitCancelled(r)
      PROVE  ControlTypeOK'
  <2>1. "done" \in Pcs /\ "fail" \in Pcs
    BY <1>p, <1>q
  <2>2. \/ Answer(r, 500)
        \/ \E status \in {400, 500} : GotoWith(r, "fail", status)
    BY <1>4 DEF CreatePendingFails, BeginFails, ItemAfterRollback, CommitCancelled
  <2>3. pc' \in [Reqs -> Pcs] /\ code' \in [Reqs -> {0, 200, 204, 400, 404, 409, 500, 503}]
    BY <2>1, <2>2
  <2>4. UNCHANGED <<job, hid, gone, untold, applied>> /\ faults' \in 0 .. MaxFaults
    BY <1>4, <1>0 DEF CreatePendingFails, BeginFails, ItemAfterRollback, CommitCancelled,
       txVars
  <2> QED
    BY <2>3, <2>4
<1>4a. ASSUME NEW r \in Reqs, MarkFailed(r) \/ MarkSuccessful(r) \/ Respond(r)
       PROVE  ControlTypeOK'
  BY <1>4a, <1>0, <1>p, <1>q DEF MarkFailed, MarkSuccessful, Respond, txVars
<1>5. ASSUME NEW r \in Reqs, Begin(r) \/ Commit(r) \/ CommitFails(r)
      PROVE  ControlTypeOK'
  <2>1. "items" \in Pcs /\ "succeed" \in Pcs /\ "fail" \in Pcs
    BY <1>p, <1>q
  <2>2. CASE Begin(r)
    BY <2>1, <2>2 DEF Begin
  <2>3. CASE Commit(r)
    BY <2>1, <2>3 DEF Commit
  <2>4. CASE CommitFails(r)
    BY <2>1, <2>4, <1>0 DEF CommitFails, Rollback
  <2> QED
    BY <1>5, <2>2, <2>3, <2>4
<1>6. ASSUME NEW r \in Reqs, ItemSaved(r)
      PROVE  ControlTypeOK'
  BY <1>6, <1>p, <1>q DEF ItemSaved
<1>7. ASSUME NEW r \in Reqs, ItemRejected(r)
      PROVE  ControlTypeOK'
  <2>1. \A rnd \in Ids : Outcome(r, rnd).err \in {0, 400, 409, 500}
    BY <1>7, ItemAtHand DEF ItemRejected
  <2>2. "fail" \in Pcs
    BY <1>p, <1>q
  <2>3. PICK status \in {400, 409, 500} : GotoWith(r, "fail", status)
    BY <1>7, <2>1 DEF ItemRejected
  <2>4. faults' \in 0 .. MaxFaults
    BY <1>7, <1>0 DEF ItemRejected
  <2> QED
    BY <1>7, <2>2, <2>3, <2>4 DEF ItemRejected, Rollback
<1>8. ASSUME NEW r \in Reqs,
             RetryRead(r) \/ RetryWrite(r) \/ RetryReread(r) \/ DeleteHistory(r)
      PROVE  ControlTypeOK'
  BY <1>8, <1>0, <1>p, <1>q DEF RetryRead, RetryWrite, RetryReread, DeleteHistory,
     HistoryUntouched, txVars
<1>9. ASSUME NEW r \in Reqs, ProbeRead(r) \/ ProbeWrite(r) \/ ProbeCleanUp(r)
      PROVE  ControlTypeOK'
  BY <1>9, <1>0, <1>p, <1>q DEF ProbeRead, ProbeWrite, ProbeCleanUp,
     HistoryUntouched, txVars
<1>10. ASSUME NEW r \in Reqs, ClientGone(r) \/ AwaitDone(r)
       PROVE  ControlTypeOK'
  BY <1>10, <1>0 DEF ClientGone, AwaitDone, Rollback, txVars
<1>11. CASE Crash
  BY <1>11, <1>0, <1>p, <1>q DEF Crash, Rollback
<1>12. CASE Recycle \/ Finished
  BY <1>12, <1>0 DEF Recycle, Finished, vars, txVars
<1> QED
  BY <1>1, <1>2, <1>3, <1>4, <1>4a, <1>5, <1>6, <1>7, <1>8, <1>9, <1>10, <1>11, <1>12
  DEF Next, Step

\* What Append does to a sequence of which only the shape is known.
LEMMA AppendShape ==
    ASSUME NEW s, Len(s) \in Nat, s = [k \in 1 .. Len(s) |-> s[k]], NEW x
    PROVE  LET u == Append(s, x)
           IN  /\ Len(u) = Len(s) + 1
               /\ u = [k \in 1 .. Len(u) |-> u[k]]
               /\ \A k \in 1 .. Len(s) : u[k] = s[k]
               /\ u[Len(s) + 1] = x
<1> DEFINE S == {s[k] : k \in 1 .. Len(s)} \cup {x}
<1>1. s \in [1 .. Len(s) -> S]
  OBVIOUS
<1>2. s \in Seq(S) /\ x \in S
  BY <1>1
<1> HIDE DEF S
<1> DEFINE u == Append(s, x)
<1>3. /\ u \in Seq(S)
      /\ Len(u) = Len(s) + 1
      /\ \A k \in 1 .. Len(s) : u[k] = s[k]
      /\ u[Len(s) + 1] = x
  BY <1>2, AppendProperties
<1>4. u \in [1 .. Len(u) -> S]
  BY <1>3, LenProperties
<1> HIDE DEF u
<1>5. u = [k \in 1 .. Len(u) |-> u[k]]
  BY <1>4
<1> QED
  BY <1>3, <1>5 DEF u

\* The tables and the transaction keep their types.
LEMMA StoreTypeStep ==
    ASSUME TypeOK, TxInv, [Next]_vars
    PROVE  StoreTypeOK'
<1> USE DEF TypeOK
<1>0. /\ Len(<< >>) = 0
      /\ << >> = [k \in 1 .. 0 |-> << >>[k]]
  OBVIOUS
<1>e. ASSUME work' = << >>, conn' = Free, IsTables(tabs'), fk' \in ForeignKeys
      PROVE  StoreTypeOK'
  BY <1>e, <1>0 DEF StoreTypeOK
<1>1. ASSUME UNCHANGED <<conn, work, tabs>>, fk' \in ForeignKeys
      PROVE  StoreTypeOK'
  BY <1>1 DEF StoreTypeOK
<1>2. fk' \in ForeignKeys
  <2>1. CASE UNCHANGED fk
    BY <2>1 DEF StoreTypeOK
  <2>2. CASE Crash \/ Recycle
    BY <2>2 DEF Crash, Recycle, ForeignKeys
  <2> QED
    BY <2>1, <2>2, FkFrame
<1>3. ASSUME NEW r \in Reqs, Begin(r)
      PROVE  StoreTypeOK'
  <2>1. conn' \in Reqs \cup {Free} /\ work' = <<tabs>> /\ tabs' = tabs
    BY <1>3 DEF Begin
  <2>2. Len(work') = 1 /\ work'[1] = tabs /\ work' = [k \in 1 .. 1 |-> work'[k]]
    BY <2>1
  <2> QED
    BY <1>2, <2>1, <2>2 DEF StoreTypeOK
<1>4. ASSUME NEW r \in Reqs, ItemSaved(r)
      PROVE  StoreTypeOK'
  <2>1. PICK rnd \in Ids : /\ Outcome(r, rnd).err = 0
                           /\ work' = Append(work, Outcome(r, rnd).tabs)
    BY <1>4 DEF ItemSaved
  <2>2. IsTables(Outcome(r, rnd).tabs)
    BY <1>4, <2>1, ItemAtHand DEF ItemSaved
  <2>3. /\ Len(work') = Len(work) + 1
        /\ work' = [k \in 1 .. Len(work') |-> work'[k]]
        /\ \A k \in 1 .. Len(work) : work'[k] = work[k]
        /\ work'[Len(work) + 1] = Outcome(r, rnd).tabs
    BY <2>1, AppendShape DEF StoreTypeOK
  <2>4. conn' = conn /\ tabs' = tabs
    BY <1>4 DEF ItemSaved
  <2>5. \A k \in 1 .. Len(work') : IsTables(work'[k])
    BY <2>2, <2>3 DEF StoreTypeOK
  <2> QED
    BY <1>2, <2>3, <2>4, <2>5 DEF StoreTypeOK
<1>5. ASSUME NEW r \in Reqs, ItemRejected(r) \/ CommitFails(r) \/ AwaitDone(r)
      PROVE  StoreTypeOK'
  BY <1>2, <1>5, <1>e DEF ItemRejected, CommitFails, AwaitDone, Rollback, StoreTypeOK
<1>6. ASSUME NEW r \in Reqs, Commit(r)
      PROVE  StoreTypeOK'
  <2>1. IsTables(work[Len(work)])
    <3>1. Len(work) >= 1
      BY <1>6, FreeAssumption DEF Commit, TxInv
    <3> QED
      BY <3>1 DEF StoreTypeOK
  <2> QED
    BY <1>2, <1>6, <1>e, <2>1 DEF Commit
<1>7. ASSUME NEW r \in Reqs, ProbeWrite(r) \/ ProbeCleanUp(r)
      PROVE  StoreTypeOK'
  <2>1. IsTables(tabs')
    BY <1>7, ProbeInsertKeeps, ProbeDeleteKeeps DEF ProbeWrite, ProbeCleanUp, StoreTypeOK
  <2>2. UNCHANGED <<conn, work>>
    BY <1>7 DEF ProbeWrite, ProbeCleanUp
  <2> QED
    BY <1>2, <2>1, <2>2 DEF StoreTypeOK
<1>8. CASE Crash
  BY <1>2, <1>8, <1>e DEF Crash, Rollback, StoreTypeOK
<1> QED
  BY <1>1, <1>2, <1>3, <1>4, <1>5, <1>6, <1>7, <1>8, StoreFrame

\* The ledger keeps its types.
LEMMA HistoryTypeStep ==
    ASSUME TypeOK, [Next]_vars
    PROVE  HistoryTypeOK'
<1> USE DEF TypeOK
<1>1. CASE UNCHANGED <<hid, history, histSeq>>
  BY <1>1 DEF HistoryTypeOK
<1>2. ASSUME NEW r \in Reqs, CreatePending(r)
      PROVE  HistoryTypeOK'
  <2>1. [status |-> "PENDING_RETRY", reason |-> "NULL", of |-> r] \in HistoryRow
    BY DEF HistoryRow
  <2> QED
    BY <1>2, <2>1, HistoryAssumption DEF CreatePending, HistoryTypeOK, Put
<1>3. ASSUME NEW h, NEW status, NEW reason, SetStatus(h, status, reason),
             status \in {"PENDING_RETRY", "SUCCESSFUL", "FAILED"},
             reason \in {"NULL", "text"}, histSeq' = histSeq
      PROVE  HistoryTypeOK'
  BY <1>3 DEF SetStatus, HistoryTypeOK, HistoryRow
<1>4. ASSUME NEW r \in Reqs, MarkFailed(r) \/ MarkSuccessful(r) \/ RetryWrite(r)
      PROVE  HistoryTypeOK'
  <2>1. ReasonOf(hid[r]) \in {"NULL", "text"}
    BY DEF ReasonOf, HistoryTypeOK, HistoryRow
  <2>2. histSeq' = histSeq
    BY <1>4 DEF MarkFailed, MarkSuccessful, RetryWrite
  <2>3. CASE UNCHANGED history
    BY <2>2, <2>3 DEF HistoryTypeOK
  <2> QED
    BY <1>3, <1>4, <2>1, <2>2, <2>3 DEF MarkFailed, MarkSuccessful, RetryWrite
<1>5. ASSUME NEW r \in Reqs, DeleteHistory(r)
      PROVE  HistoryTypeOK'
  BY <1>5 DEF DeleteHistory, HistoryTypeOK, Without
<1> QED
  BY <1>1, <1>2, <1>4, <1>5, HistoryFrame

-----------------------------------------------------------------------------
(***************************************************************************)
(* The requests                                                            *)
(***************************************************************************)
\* A step of one request does not touch the variables of another.
LEMMA OneMoves ==
    ASSUME ControlTypeOK, NEW r \in Reqs,
           Arrive(r) \/ Step(r) \/ ClientGone(r) \/ AwaitDone(r),
           NEW q \in Reqs, q # r
    PROVE  /\ pc'[q] = pc[q] /\ code'[q] = code[q]
           /\ job'[q] = job[q] /\ hid'[q] = hid[q]
           /\ q \in gone' <=> q \in gone
           /\ q \in untold' <=> q \in untold
           /\ q \in applied' <=> q \in applied
<1> USE DEF ControlTypeOK, Goto, GotoWith, Answer, Unnoticed, ctlVars, txVars
<1>1. CASE Arrive(r)
  BY <1>1 DEF Arrive
<1>2. CASE ClientGone(r) \/ AwaitDone(r)
  BY <1>2 DEF ClientGone, AwaitDone, Rollback
<1>3. CASE CreatePending(r) \/ CreatePendingFails(r) \/ Begin(r) \/ BeginFails(r)
  BY <1>3 DEF CreatePending, CreatePendingFails, Begin, BeginFails
<1>4. CASE ItemSaved(r) \/ ItemRejected(r) \/ ItemAfterRollback(r)
  BY <1>4 DEF ItemSaved, ItemRejected, ItemAfterRollback, Rollback
<1>5. CASE Commit(r) \/ CommitFails(r) \/ CommitCancelled(r)
  BY <1>5 DEF Commit, CommitFails, CommitCancelled, Rollback
<1>6. CASE MarkFailed(r) \/ MarkSuccessful(r) \/ Respond(r)
  BY <1>6 DEF MarkFailed, MarkSuccessful, Respond
<1>7. CASE RetryRead(r) \/ RetryWrite(r) \/ RetryReread(r) \/ DeleteHistory(r)
  BY <1>7 DEF RetryRead, RetryWrite, RetryReread, DeleteHistory, HistoryUntouched
<1>8. CASE ProbeRead(r) \/ ProbeWrite(r) \/ ProbeCleanUp(r)
  BY <1>8 DEF ProbeRead, ProbeWrite, ProbeCleanUp, HistoryUntouched
<1> QED
  BY <1>1, <1>2, <1>3, <1>4, <1>5, <1>6, <1>7, <1>8 DEF Step

\* A request that is over stays as it is, but for its answer.
LEMMA OverStays ==
    ASSUME ControlTypeOK, [Next]_vars, TxInv, NEW q \in Reqs, pc[q] \in Over
    PROVE  /\ pc'[q] \in Over
           /\ pc'[q] # pc[q] => pc[q] = "answer"
           /\ code'[q] = code[q] /\ job'[q] = job[q] /\ hid'[q] = hid[q]
           /\ q \in applied' <=> q \in applied
           /\ q \in untold' <=> q \in untold
<1>1. CASE UNCHANGED vars \/ Finished \/ Recycle
  BY <1>1 DEF vars, Finished, Recycle, ctlVars, txVars
<1>2. CASE Crash
  BY <1>2 DEF Crash, Rollback, ctlVars, ControlTypeOK, Over, RestPcs
<1>3. ASSUME NEW r \in Reqs, Arrive(r) \/ Step(r) \/ ClientGone(r) \/ AwaitDone(r)
      PROVE  q # r \/ Respond(r)
  <2>1. CASE Step(r) \/ Arrive(r) \/ ClientGone(r)
    BY <2>1 DEF Step, Over, SyncPcs, Statement, Arrive, ClientGone, CreatePending,
       CreatePendingFails, Begin, BeginFails, ItemSaved, ItemRejected,
       ItemAfterRollback, Commit, CommitFails, CommitCancelled, MarkFailed,
       MarkSuccessful, RetryRead, RetryWrite, RetryReread, DeleteHistory,
       ProbeRead, ProbeWrite, ProbeCleanUp
  <2>2. CASE AwaitDone(r)
    BY <2>2, FreeAssumption DEF AwaitDone, TxInv, Over
  <2> QED
    BY <1>3, <2>1, <2>2
<1>4. ASSUME Respond(q)
      PROVE  /\ pc'[q] = "done" /\ pc[q] = "answer"
             /\ code' = code /\ job' = job /\ hid' = hid
             /\ applied' = applied /\ untold' = untold
  BY <1>4 DEF Respond, Goto, ctlVars, txVars, ControlTypeOK
<1> QED
  BY <1>1, <1>2, <1>3, <1>4, OneMoves DEF Next, Over

\* Program counters keep saying what they say.
LEMMA PcStep ==
    ASSUME TypeOK, TxInv, PcInv, AppliedInv, [Next]_vars
    PROVE  PcInv'
<1> USE DEF TypeOK
<1>1. CASE UNCHANGED vars \/ Finished \/ Recycle
  BY <1>1 DEF vars, Finished, Recycle, ctlVars, PcInv, PcOf
<1>2. CASE Crash
  <2> SUFFICES ASSUME NEW r \in Reqs
               PROVE  PcOf(r)'
    BY DEF PcInv
  <2>1. pc'[r] = pc[r] \/ (pc'[r] = "lost" /\ pc[r] \notin RestPcs)
    BY <1>2 DEF Crash
  <2>2. code'[r] = code[r] /\ job'[r] = job[r] /\ hid'[r] = hid[r]
    BY <1>2 DEF Crash, ctlVars
  <2> QED
    BY <2>1, <2>2 DEF PcInv, PcOf, SyncPcs, HealthPcs, RetryPcs, Running, RestPcs, Over
<1>3. ASSUME NEW r \in Reqs, Arrive(r) \/ Step(r) \/ ClientGone(r) \/ AwaitDone(r),
             PcOf(r)'
      PROVE  PcInv'
  BY <1>3, OneMoves DEF PcInv, PcOf
<1>4. ASSUME NEW r \in Reqs, Arrive(r)
      PROVE  PcOf(r)'
  <2>1. PICK j \in Jobs : /\ job' = [job EXCEPT ![r] = j]
                          /\ IF j.valid THEN Goto(r, FirstPc(j)) ELSE Answer(r, 400)
    BY <1>4 DEF Arrive
  <2>2. hid[r] = NoId /\ hid'[r] = hid[r] /\ job'[r] = j /\ code[r] # 204
    BY <1>4, <2>1 DEF Arrive, PcInv, PcOf, Over, ControlTypeOK
  <2>3. CASE j.valid
    <3>1. pc'[r] = FirstPc(j) /\ code'[r] = code[r]
      BY <2>1, <2>3 DEF Goto, ControlTypeOK
    <3>2. j.kind \in {"sync", "retry", "delete", "health"}
      BY JobsAssumption DEF Job
    <3> QED
      BY <2>2, <2>3, <3>1, <3>2
      DEF PcOf, FirstPc, SyncPcs, HealthPcs, RetryPcs, Running
  <2>4. CASE ~j.valid
    <3>1. pc'[r] = "done" /\ code'[r] = 400
      BY <2>1, <2>4 DEF Answer, GotoWith, ControlTypeOK
    <3> QED
      BY <2>2, <3>1 DEF PcOf, SyncPcs, HealthPcs, RetryPcs, Running
  <2> QED
    BY <2>3, <2>4
<1>5. ASSUME NEW r \in Reqs, ClientGone(r) \/ AwaitDone(r)
      PROVE  PcOf(r)'
  BY <1>5 DEF ClientGone, AwaitDone, ctlVars, PcInv, PcOf
<1>6. ASSUME NEW r \in Reqs, CreatePending(r)
      PROVE  PcOf(r)'
  <2>1. pc[r] = "pending" /\ pc'[r] = "begin" /\ code'[r] = code[r]
        /\ job'[r] = job[r] /\ hid'[r] = histSeq + 1
    BY <1>6 DEF CreatePending, Statement, Goto, ControlTypeOK
  <2>2. histSeq + 1 # NoId
    BY HistoryAssumption DEF HistoryTypeOK, NoId
  <2> QED
    BY <2>1, <2>2 DEF PcInv, PcOf, SyncPcs, HealthPcs, RetryPcs, Running, Over
<1>7. ASSUME NEW r \in Reqs, NEW old, NEW new, NEW status,
             pc[r] = old, GotoWith(r, new, status), UNCHANGED <<job, hid>>,
             \/ old = "pending" /\ new = "done"
             \/ old \in {"begin", "items", "commit"} /\ new \in {"items", "commit", "fail", "succeed"}
             \/ old \in {"fail", "succeed", "delete", "answer"} /\ new \in {"answer", "done"}
             \/ old \in RetryPcs /\ new \in RetryPcs \cup {"done"}
             \/ old \in HealthPcs /\ new \in HealthPcs \cup {"done"},
             new = "fail" => status \in {400, 409, 500},
             status = 204 => new \in Over
      PROVE  PcOf(r)'
  <2>1. pc'[r] = new /\ code'[r] = status /\ job'[r] = job[r] /\ hid'[r] = hid[r]
    BY <1>7 DEF GotoWith, ControlTypeOK
  <2> QED
    BY <1>7, <2>1 DEF PcInv, PcOf, SyncPcs, HealthPcs, RetryPcs, Running, Over
<1>8. ASSUME NEW r \in Reqs, NEW label, Goto(r, label)
      PROVE  GotoWith(r, label, code[r])
  BY <1>8 DEF Goto, GotoWith, ControlTypeOK
<1>9. \A r \in Reqs : pc[r] \notin Over => code[r] # 204
  BY DEF PcInv, PcOf
<1>10. ASSUME NEW r \in Reqs, \/ CreatePendingFails(r) \/ BeginFails(r)
                              \/ ItemAfterRollback(r) \/ CommitFails(r) \/ CommitCancelled(r)
       PROVE  PcOf(r)'
  BY <1>10, <1>7 DEF CreatePendingFails, BeginFails, ItemAfterRollback, CommitFails,
     CommitCancelled, Statement, Answer, Over, ctlVars
<1>11. ASSUME NEW r \in Reqs, Begin(r) \/ ItemSaved(r) \/ Commit(r)
       PROVE  PcOf(r)'
  <2>1. /\ pc[r] \in {"begin", "items", "commit"} /\ UNCHANGED <<job, hid>>
        /\ \E new \in {"items", "commit", "succeed"} : Goto(r, new)
    BY <1>11 DEF Begin, ItemSaved, Commit, Statement, ctlVars
  <2> QED
    BY <2>1, <1>7, <1>8, <1>9 DEF Over
<1>12. ASSUME NEW r \in Reqs, ItemRejected(r)
       PROVE  PcOf(r)'
  <2>1. \A rnd \in Ids : Outcome(r, rnd).err \in {0, 400, 409, 500}
    BY <1>12, ItemAtHand DEF ItemRejected
  <2>2. PICK status \in {400, 409, 500} : GotoWith(r, "fail", status)
    BY <1>12, <2>1 DEF ItemRejected
  <2> QED
    BY <1>12, <2>2, <1>7 DEF ItemRejected, ctlVars
<1>13. ASSUME NEW r \in Reqs, MarkFailed(r) \/ MarkSuccessful(r) \/ Respond(r)
       PROVE  PcOf(r)'
  <2>1. /\ pc[r] \in {"fail", "succeed", "answer"} /\ UNCHANGED <<job, hid>>
        /\ \E new \in {"answer", "done"} : \E status : GotoWith(r, new, status)
    BY <1>13, <1>8 DEF MarkFailed, MarkSuccessful, Respond, Statement, ctlVars
  <2> QED
    BY <2>1, <1>7 DEF Over
<1>14. ASSUME NEW r \in Reqs, RetryRead(r) \/ RetryWrite(r) \/ RetryReread(r)
       PROVE  PcOf(r)'
  <2>1. /\ pc[r] \in RetryPcs /\ UNCHANGED <<job, hid>>
        /\ \/ \E new \in {"retryWrite", "retryReread"} : Goto(r, new)
           \/ \E status : Answer(r, status)
    BY <1>14 DEF RetryRead, RetryWrite, RetryReread, Statement, HistoryUntouched,
       RetryPcs, ctlVars
  <2>2. {"retryWrite", "retryReread"} \subseteq RetryPcs /\ "done" \notin RetryPcs
        /\ "fail" \notin RetryPcs /\ RetryPcs \cap Over = {} /\ "done" \in Over
    BY DEF RetryPcs, Over
  <2>3. CASE \E new \in {"retryWrite", "retryReread"} : Goto(r, new)
    <3>1. code[r] # 204
      BY <2>1, <2>2, <1>9
    <3>2. PICK new \in {"retryWrite", "retryReread"} : GotoWith(r, new, code[r])
      BY <2>3, <1>8
    <3>3. new \in RetryPcs /\ new # "fail"
      BY <2>2, <3>2
    <3> QED
      BY <2>1, <3>1, <3>2, <3>3, <1>7
  <2>4. CASE \E status : Answer(r, status)
    BY <2>1, <2>4, <1>7 DEF Answer, Over
  <2> QED
    BY <2>1, <2>3, <2>4
<1>15. ASSUME NEW r \in Reqs, DeleteHistory(r)
       PROVE  PcOf(r)'
  BY <1>15, <1>7 DEF DeleteHistory, Statement, Answer, Over, ctlVars
<1>16. ASSUME NEW r \in Reqs, ProbeRead(r) \/ ProbeWrite(r) \/ ProbeCleanUp(r)
       PROVE  PcOf(r)'
  <2>1. /\ pc[r] \in HealthPcs /\ UNCHANGED <<job, hid>>
        /\ \/ \E status \in {200, 503} : GotoWith(r, "probeInsert", status)
           \/ \E new \in {"probeDelete", "done"} : Goto(r, new)
           \/ Answer(r, 503)
    BY <1>16 DEF ProbeRead, ProbeWrite, ProbeCleanUp, Statement, HistoryUntouched,
       HealthPcs, ctlVars
  <2>2. {"probeInsert", "probeDelete"} \subseteq HealthPcs /\ "done" \notin HealthPcs
        /\ "fail" \notin HealthPcs /\ HealthPcs \cap Over = {} /\ "done" \in Over
    BY DEF HealthPcs, Over
  <2> QED
    BY <2>1, <2>2, <1>7, <1>8, <1>9 DEF Answer
<1> QED
  BY <1>1, <1>2, <1>3, <1>4, <1>5, <1>6, <1>10, <1>11, <1>12, <1>13, <1>14, <1>15,
     <1>16 DEF Next, Step

\* An answer of 200 goes with a committed transaction.
LEMMA AppliedStep ==
    ASSUME TypeOK, TxInv, PcInv, AppliedInv, [Next]_vars
    PROVE  AppliedInv'
<1> USE DEF TypeOK
<1>1. CASE UNCHANGED vars \/ Finished \/ Recycle
  BY <1>1 DEF vars, Finished, Recycle, ctlVars, txVars, AppliedInv, AppliedOf
<1>2. CASE Crash
  <2> SUFFICES ASSUME NEW r \in Reqs
               PROVE  AppliedOf(r)'
    BY DEF AppliedInv
  <2>1. pc'[r] = pc[r] \/ pc'[r] = "lost"
    BY <1>2 DEF Crash
  <2>2. code'[r] = code[r] /\ job'[r] = job[r] /\ hid'[r] = hid[r] /\ applied' = applied
    BY <1>2 DEF Crash, Rollback, ctlVars
  <2> QED
    BY <2>1, <2>2 DEF AppliedInv, AppliedOf, Over
<1>3. ASSUME NEW r \in Reqs, Arrive(r) \/ Step(r) \/ ClientGone(r) \/ AwaitDone(r),
             AppliedOf(r)'
      PROVE  AppliedInv'
  BY <1>3, OneMoves DEF AppliedInv, AppliedOf
<1>4. ASSUME NEW r \in Reqs, Arrive(r)
      PROVE  AppliedOf(r)'
  <2>1. r \notin applied /\ applied' = applied
    BY <1>4 DEF Arrive, txVars, AppliedInv, AppliedOf, Over
  <2>2. PICK j \in Jobs : /\ job' = [job EXCEPT ![r] = j]
                          /\ IF j.valid THEN Goto(r, FirstPc(j)) ELSE Answer(r, 400)
    BY <1>4 DEF Arrive
  <2>3. CASE j.valid
    <3>1. pc'[r] = FirstPc(j)
      BY <2>2, <2>3 DEF Goto, ControlTypeOK
    <3>2. j.kind \in {"sync", "retry", "delete", "health"}
      BY JobsAssumption DEF Job
    <3>3. pc'[r] # "succeed" /\ pc'[r] # "answer" /\ pc'[r] # "done"
      BY <3>1, <3>2 DEF FirstPc
    <3> QED
      BY <2>1, <3>3 DEF AppliedOf
  <2>4. CASE ~j.valid
    <3>1. pc'[r] = "done" /\ code'[r] = 400
      BY <2>2, <2>4 DEF Answer, GotoWith, ControlTypeOK
    <3> QED
      BY <2>1, <3>1 DEF AppliedOf
  <2> QED
    BY <2>3, <2>4
<1>5. ASSUME NEW r \in Reqs, ClientGone(r) \/ AwaitDone(r)
      PROVE  AppliedOf(r)'
  BY <1>5 DEF ClientGone, AwaitDone, Rollback, ctlVars, txVars, AppliedInv, AppliedOf
<1>6. ASSUME NEW r \in Reqs, Commit(r)
      PROVE  AppliedOf(r)'
  <2>1. pc'[r] = "succeed" /\ r \in applied' /\ hid'[r] = hid[r] /\ pc[r] = "commit"
    BY <1>6 DEF Commit, Goto, ctlVars, ControlTypeOK
  <2> QED
    BY <2>1 DEF AppliedOf, PcInv, PcOf, Running
<1>7. ASSUME NEW r \in Reqs, MarkSuccessful(r)
      PROVE  AppliedOf(r)'
  <2>1. pc[r] = "succeed" /\ pc'[r] = "answer" /\ code'[r] = 200
        /\ hid'[r] = hid[r] /\ applied' = applied
    BY <1>7 DEF MarkSuccessful, Statement, GotoWith, txVars, ControlTypeOK
  <2> QED
    BY <2>1 DEF AppliedInv, AppliedOf, Over
<1>8. ASSUME NEW r \in Reqs, MarkFailed(r)
      PROVE  AppliedOf(r)'
  <2>1. pc[r] = "fail" /\ pc'[r] = "answer" /\ code'[r] = code[r] /\ applied' = applied
    BY <1>8 DEF MarkFailed, Statement, Goto, txVars, ControlTypeOK
  <2>2. code[r] \in {400, 409, 500}
    BY <2>1 DEF PcInv, PcOf
  <2> QED
    BY <2>1, <2>2 DEF AppliedInv, AppliedOf, Over
<1>8a. ASSUME NEW r \in Reqs, Respond(r)
       PROVE  AppliedOf(r)'
  <2>1. /\ pc[r] = "answer" /\ pc'[r] = "done"
        /\ code' = code /\ job' = job /\ hid' = hid /\ applied' = applied
    BY <1>8a DEF Respond, Goto, ctlVars, txVars, ControlTypeOK
  <2> QED
    BY <2>1 DEF AppliedInv, AppliedOf, Over
<1>9. ASSUME NEW r \in Reqs, CreatePendingFails(r)
      PROVE  AppliedOf(r)'
  <2>1. pc[r] = "pending" /\ pc'[r] = "done" /\ code'[r] = 500 /\ applied' = applied
    BY <1>9 DEF CreatePendingFails, Statement, Answer, GotoWith, txVars, ControlTypeOK
  <2> QED
    BY <2>1 DEF AppliedInv, AppliedOf, Over
<1>10. ASSUME NEW r \in Reqs,
              \/ CreatePending(r) \/ Begin(r) \/ BeginFails(r) \/ ItemSaved(r)
              \/ ItemRejected(r) \/ ItemAfterRollback(r) \/ CommitFails(r)
              \/ CommitCancelled(r)
       PROVE  AppliedOf(r)'
  <2>1. applied' = applied /\ pc'[r] \in {"begin", "items", "commit", "fail"}
        /\ pc[r] \in {"pending", "begin", "items", "commit"}
    BY <1>10 DEF CreatePending, Begin, BeginFails, ItemSaved, ItemRejected,
       ItemAfterRollback, CommitFails, CommitCancelled, Rollback, Statement, Goto,
       GotoWith, txVars, ControlTypeOK
  <2> QED
    BY <2>1 DEF AppliedInv, AppliedOf, Over
<1>11. ASSUME NEW r \in Reqs,
              \/ RetryRead(r) \/ RetryWrite(r) \/ RetryReread(r) \/ DeleteHistory(r)
              \/ ProbeRead(r) \/ ProbeWrite(r) \/ ProbeCleanUp(r)
       PROVE  AppliedOf(r)'
  <2>1. applied' = applied /\ job' = job
        /\ pc[r] \in RetryPcs \cup HealthPcs \cup {"delete"}
    BY <1>11 DEF RetryRead, RetryWrite, RetryReread, DeleteHistory, ProbeRead,
       ProbeWrite, ProbeCleanUp, HistoryUntouched, Statement, RetryPcs, HealthPcs,
       ctlVars, txVars
  <2>2. r \notin applied /\ job[r].kind # "sync"
    BY <2>1 DEF AppliedInv, AppliedOf, PcInv, PcOf, Over, RetryPcs, HealthPcs
  <2>3. PcOf(r)'
    BY PcStep DEF PcInv
  <2>4. pc'[r] # "succeed"
    BY <2>1, <2>2, <2>3 DEF PcOf, SyncPcs
  <2> QED
    BY <2>1, <2>2, <2>4 DEF AppliedOf
<1> QED
  BY <1>1, <1>2, <1>3, <1>4, <1>5, <1>6, <1>7, <1>8, <1>8a, <1>9, <1>10, <1>11
  DEF Next, Step

-----------------------------------------------------------------------------
(***************************************************************************)
(* The ledger                                                              *)
(***************************************************************************)
\* What an UPDATE of one row leaves of the ledger.
LEMMA SetStatusEffect ==
    ASSUME HistoryTypeOK, NEW h, NEW status, NEW reason, SetStatus(h, status, reason)
    PROVE  /\ DOMAIN history' = DOMAIN history
           /\ \A g \in DOMAIN history :
                 /\ history'[g].of = history[g].of
                 /\ g # h => history'[g] = history[g]
                 /\ g = h => /\ history'[g].status = status
                             /\ history'[g].reason = reason
BY DEF SetStatus, HistoryTypeOK

\* No step but CreatePending and DeleteHistory changes which rows there are and
\* whose they are.
LEMMA RowsFrame ==
    ASSUME TypeOK, [Next]_vars
    PROVE  \/ /\ hid' = hid /\ histSeq' = histSeq
              /\ DOMAIN history' = DOMAIN history
              /\ \A h \in DOMAIN history : history'[h].of = history[h].of
           \/ \E r \in Reqs : CreatePending(r) \/ DeleteHistory(r)
<1>1. ASSUME NEW r \in Reqs, MarkFailed(r) \/ MarkSuccessful(r) \/ RetryWrite(r)
      PROVE  /\ hid' = hid /\ histSeq' = histSeq
             /\ DOMAIN history' = DOMAIN history
             /\ \A h \in DOMAIN history : history'[h].of = history[h].of
  <2>1. hid' = hid /\ histSeq' = histSeq
    BY <1>1 DEF MarkFailed, MarkSuccessful, RetryWrite, ctlVars
  <2>2. \/ history' = history
        \/ \E h, status, reason : SetStatus(h, status, reason)
    BY <1>1 DEF MarkFailed, MarkSuccessful, RetryWrite
  <2> QED
    BY <2>1, <2>2, SetStatusEffect DEF TypeOK
<1> QED
  BY <1>1, HistoryFrame

\* What CreatePending and DeleteHistory do to the rows.
LEMMA CreateEffect ==
    ASSUME TypeOK, NEW r \in Reqs, CreatePending(r)
    PROVE  /\ histSeq' = histSeq + 1
           /\ histSeq \in Nat
           /\ DOMAIN history \subseteq 1 .. histSeq
           /\ DOMAIN history' = DOMAIN history \cup {histSeq + 1}
           /\ \A h \in DOMAIN history : history'[h] = history[h]
           /\ history'[histSeq + 1].of = r
           /\ history'[histSeq + 1].status = "PENDING_RETRY"
           /\ history'[histSeq + 1].reason = "NULL"
           /\ hid'[r] = histSeq + 1
           /\ \A q \in Reqs \ {r} : hid'[q] = hid[q]
<1>1. histSeq \in Nat /\ DOMAIN history \subseteq 1 .. histSeq
  BY HistoryAssumption DEF TypeOK, HistoryTypeOK
<1>2. histSeq + 1 \notin DOMAIN history
  BY <1>1
<1> QED
  BY <1>1, <1>2 DEF CreatePending, Put, TypeOK, ControlTypeOK

\* DELETE leaves the other rows alone.
LEMMA DeleteRows ==
    ASSUME NEW r \in Reqs, DeleteHistory(r)
    PROVE  /\ hid' = hid /\ histSeq' = histSeq
           /\ DOMAIN history' \subseteq DOMAIN history
           /\ \A h \in DOMAIN history' : history'[h] = history[h]
BY DEF DeleteHistory, Without, ctlVars

\* The same for DELETE.
LEMMA DeleteEffect ==
    ASSUME TypeOK, NEW r \in Reqs, DeleteHistory(r)
    PROVE  /\ hid' = hid /\ histSeq' = histSeq /\ job' = job
           /\ \/ history' = history
              \/ /\ DOMAIN history' = DOMAIN history \ {job[r].id}
                 /\ \A h \in DOMAIN history' : history'[h] = history[h]
                 /\ job[r].id \in DOMAIN history =>
                        pc'[r] = "answer" /\ code'[r] = 204
<1>1. hid' = hid /\ histSeq' = histSeq /\ job' = job
  BY DEF DeleteHistory, ctlVars
<1>2. CASE UNCHANGED history
  BY <1>1, <1>2
<1>3. CASE /\ history' = Without(history, {job[r].id})
           /\ IF job[r].id \in DOMAIN history
              THEN GotoWith(r, "answer", 204) ELSE Answer(r, 404)
  <2>1. job[r].id \in DOMAIN history => pc'[r] = "answer" /\ code'[r] = 204
    BY <1>3 DEF Answer, GotoWith, TypeOK, ControlTypeOK
  <2>2. /\ DOMAIN history' = DOMAIN history \ {job[r].id}
        /\ \A h \in DOMAIN history' : history'[h] = history[h]
    BY <1>3 DEF Without
  <2> QED
    BY <1>1, <2>1, <2>2
<1> QED
  BY <1>2, <1>3 DEF DeleteHistory

\* Rows and requests go on naming each other.
LEMMA RowStep ==
    ASSUME TypeOK, PcInv, RowInv, [Next]_vars
    PROVE  RowInv'
<1>0. \A h \in DOMAIN history : history[h].of \in Reqs
  BY DEF TypeOK, HistoryTypeOK, HistoryRow
<1>1. CASE /\ hid' = hid /\ histSeq' = histSeq
           /\ DOMAIN history' = DOMAIN history
           /\ \A h \in DOMAIN history : history'[h].of = history[h].of
  BY <1>0, <1>1 DEF RowInv
<1>2. ASSUME NEW r \in Reqs, CreatePending(r)
      PROVE  RowInv'
  <2>0. /\ histSeq' = histSeq + 1
        /\ histSeq \in Nat
        /\ DOMAIN history \subseteq 1 .. histSeq
        /\ DOMAIN history' = DOMAIN history \cup {histSeq + 1}
        /\ \A h \in DOMAIN history : history'[h] = history[h]
        /\ history'[histSeq + 1].of = r
        /\ hid'[r] = histSeq + 1
        /\ \A q \in Reqs \ {r} : hid'[q] = hid[q]
    BY <1>2, CreateEffect
  <2>1. pc[r] = "pending"
    BY <1>2 DEF CreatePending, Statement
  <2>2. hid[r] = NoId
    BY <2>1 DEF PcInv, PcOf
  <2>3. \A h \in DOMAIN history : history[h].of # r
    BY <2>2, <2>0 DEF RowInv, NoId
  <2>4. \A q \in Reqs : hid[q] \in 0 .. MaxHistory /\ hid[q] <= histSeq
    BY DEF RowInv, TypeOK, ControlTypeOK
  <2>5. \A q \in Reqs : hid'[q] <= histSeq'
    BY <2>4, <2>0, HistoryAssumption
  <2>6. \A q \in Reqs : hid'[q] \in DOMAIN history' => history'[hid'[q]].of = q
    <3> SUFFICES ASSUME NEW q \in Reqs, hid'[q] \in DOMAIN history'
                 PROVE  history'[hid'[q]].of = q
      OBVIOUS
    <3>1. CASE q = r
      BY <3>1, <2>0
    <3>2. CASE q # r
      <4>1. hid'[q] = hid[q] /\ hid[q] # histSeq + 1
        BY <2>4, <3>2, <2>0, HistoryAssumption
      <4>2. hid[q] \in DOMAIN history
        BY <4>1, <2>0
      <4> QED
        BY <4>1, <4>2, <2>0 DEF RowInv
    <3> QED
      BY <3>1, <3>2
  <2>7. \A h \in DOMAIN history' : hid'[history'[h].of] = h
    <3> SUFFICES ASSUME NEW h \in DOMAIN history'
                 PROVE  hid'[history'[h].of] = h
      OBVIOUS
    <3>1. CASE h \in DOMAIN history
      BY <1>0, <2>3, <3>1, <2>0 DEF RowInv
    <3>2. CASE h = histSeq + 1
      BY <3>2, <2>0
    <3> QED
      BY <3>1, <3>2, <2>0
  <2> QED
    BY <2>5, <2>6, <2>7 DEF RowInv
<1>3. ASSUME NEW r \in Reqs, DeleteHistory(r)
      PROVE  RowInv'
  <2>1. /\ hid' = hid /\ histSeq' = histSeq
        /\ DOMAIN history' \subseteq DOMAIN history
        /\ \A h \in DOMAIN history' : history'[h] = history[h]
    BY <1>3, DeleteRows
  <2> QED
    BY <1>0, <2>1 DEF RowInv
<1> QED
  BY <1>1, <1>2, <1>3, RowsFrame

\* Who is not applied and over, or applied and over, stays so; nobody who is not
\* at its COMMIT becomes applied.
LEMMA AppliedFrame ==
    ASSUME TypeOK, TxInv, [Next]_vars, NEW q \in Reqs, pc[q] \in Over
    PROVE  /\ pc'[q] \in Over
           /\ q \in applied' <=> q \in applied
BY OverStays DEF TypeOK

\* A final status goes on telling the truth.
LEMMA StatusStep ==
    ASSUME TypeOK, TxInv, PcInv, AppliedInv, RowInv, StatusInv, RetryInv, [Next]_vars
    PROVE  StatusInv'
<1>0. \A h \in DOMAIN history : history[h].of \in Reqs
  BY DEF TypeOK, HistoryTypeOK, HistoryRow
<1>a. \A q \in Reqs : pc[q] \in Over =>
          pc'[q] \in Over /\ (q \in applied' <=> q \in applied)
  BY AppliedFrame
<1> DEFINE Right(row, done, at) ==
        /\ row.status = "SUCCESSFUL" => row.of \in done /\ at[row.of] \in Over
        /\ row.status = "FAILED" => row.of \notin done /\ at[row.of] \in Over
<1>b. ASSUME NEW h \in DOMAIN history, history'[h] = history[h]
      PROVE  Right(history'[h], applied', pc')
  BY <1>0, <1>a, <1>b DEF StatusInv
<1> HIDE DEF Right
<1>c. (\A h \in DOMAIN history' : Right(history'[h], applied', pc')) => StatusInv'
  BY DEF StatusInv, Right
<1>1. CASE history' = history
  BY <1>1, <1>b, <1>c
<1>2. ASSUME NEW r \in Reqs, CreatePending(r)
      PROVE  StatusInv'
  <2>1. /\ DOMAIN history' = DOMAIN history \cup {histSeq + 1}
        /\ \A h \in DOMAIN history : history'[h] = history[h]
        /\ history'[histSeq + 1].status = "PENDING_RETRY"
    BY <1>2, CreateEffect
  <2>2. Right(history'[histSeq + 1], applied', pc')
    BY <2>1 DEF Right
  <2> QED
    BY <1>b, <1>c, <2>1, <2>2
<1>3. ASSUME NEW r \in Reqs, DeleteHistory(r)
      PROVE  StatusInv'
  <2>1. /\ DOMAIN history' \subseteq DOMAIN history
        /\ \A h \in DOMAIN history' : history'[h] = history[h]
    BY <1>3, DeleteRows
  <2> QED
    BY <1>b, <1>c, <2>1
<1>4. ASSUME NEW g, NEW status, NEW reason, SetStatus(g, status, reason),
             g \in DOMAIN history => Right(history'[g], applied', pc')
      PROVE  StatusInv'
  <2>1. /\ DOMAIN history' = DOMAIN history
        /\ \A h \in DOMAIN history : h # g => history'[h] = history[h]
    BY <1>4, SetStatusEffect DEF TypeOK
  <2>2. \A h \in DOMAIN history' : Right(history'[h], applied', pc')
    BY <1>b, <1>4, <2>1
  <2> QED
    BY <1>c, <2>2
<1>5. ASSUME NEW r \in Reqs, MarkFailed(r), SetStatus(hid[r], "FAILED", "text")
      PROVE  StatusInv'
  <2> SUFFICES ASSUME hid[r] \in DOMAIN history
               PROVE  Right(history'[hid[r]], applied', pc')
    BY <1>4, <1>5
  <2>1. /\ hid' = hid
        /\ history'[hid[r]].of = r /\ history'[hid[r]].status = "FAILED"
    BY <1>5, SetStatusEffect DEF TypeOK, RowInv, MarkFailed, ctlVars
  <2>2. pc[r] = "fail" /\ pc'[r] = "answer" /\ applied' = applied
    BY <1>5 DEF MarkFailed, Statement, Goto, TypeOK, ControlTypeOK, txVars
  <2>3. r \notin applied
    BY <2>2 DEF AppliedInv, AppliedOf, Over
  <2> QED
    BY <2>1, <2>2, <2>3 DEF Right, Over
<1>6. ASSUME NEW r \in Reqs, MarkSuccessful(r),
             SetStatus(hid[r], "SUCCESSFUL", ReasonOf(hid[r]))
      PROVE  StatusInv'
  <2> SUFFICES ASSUME hid[r] \in DOMAIN history
               PROVE  Right(history'[hid[r]], applied', pc')
    BY <1>4, <1>6
  <2>1. /\ hid' = hid
        /\ history'[hid[r]].of = r /\ history'[hid[r]].status = "SUCCESSFUL"
    BY <1>6, SetStatusEffect DEF TypeOK, RowInv, MarkSuccessful, ctlVars
  <2>2. pc[r] = "succeed" /\ pc'[r] = "answer" /\ applied' = applied
    BY <1>6 DEF MarkSuccessful, Statement, Answer, GotoWith, TypeOK, ControlTypeOK, txVars
  <2>3. r \in applied
    BY <2>2 DEF AppliedInv, AppliedOf
  <2> QED
    BY <2>1, <2>2, <2>3 DEF Right, Over
<1>7. ASSUME NEW r \in Reqs, RetryWrite(r), SetStatus(job[r].id, "PENDING_RETRY", "NULL")
      PROVE  StatusInv'
  <2> SUFFICES ASSUME job[r].id \in DOMAIN history
               PROVE  Right(history'[job[r].id], applied', pc')
    BY <1>4, <1>7
  <2>1. job' = job /\ history'[job[r].id].status = "PENDING_RETRY"
    BY <1>7, SetStatusEffect DEF TypeOK, RetryWrite, ctlVars
  <2> QED
    BY <2>1 DEF Right
<1> QED
  BY <1>1, <1>2, <1>3, <1>5, <1>6, <1>7, HistoryFrame DEF MarkFailed, MarkSuccessful, RetryWrite

\* What the SELECT of a retry saw stays true until its UPDATE.
LEMMA RetryStep ==
    ASSUME TypeOK, TxInv, PcInv, AppliedInv, RowInv, StatusInv, RetryInv, [Next]_vars
    PROVE  RetryInv'
<1> SUFFICES ASSUME NEW q \in Reqs, pc'[q] = "retryWrite"
             PROVE  /\ job'[q].id <= histSeq'
                    /\ job'[q].id \in DOMAIN history' =>
                          /\ history'[job'[q].id].of \notin applied'
                          /\ pc'[history'[job'[q].id].of] \in Over
  BY DEF RetryInv
<1>0. \A h \in DOMAIN history : history[h].of \in Reqs
  BY DEF TypeOK, HistoryTypeOK, HistoryRow
<1>a. \A r \in Reqs : pc[r] \in Over =>
          pc'[r] \in Over /\ (r \in applied' <=> r \in applied)
  BY AppliedFrame
<1>b. job[q].id \in 0 .. MaxHistory
  BY JobType DEF TypeOK, Job
<1>1. job'[q] = job[q] /\ \/ pc[q] = "retryWrite"
                          \/ RetryRead(q) /\ pc'[q] = "retryWrite"
  <2>1. CASE UNCHANGED vars \/ Finished \/ Recycle
    BY <2>1 DEF vars, Finished, Recycle, ctlVars
  <2>2. CASE Crash
    BY <2>2 DEF Crash, ctlVars
  <2>3. ASSUME NEW r \in Reqs, r # q,
               Arrive(r) \/ Step(r) \/ ClientGone(r) \/ AwaitDone(r)
        PROVE  job'[q] = job[q] /\ pc'[q] = pc[q]
    BY <2>3, OneMoves DEF TypeOK
  <2>4. CASE Arrive(q)
    <3>1. PICK j \in Jobs : IF j.valid THEN Goto(q, FirstPc(j)) ELSE Answer(q, 400)
      BY <2>4 DEF Arrive
    <3>2. pc'[q] = FirstPc(j) \/ pc'[q] = "done"
      BY <3>1 DEF Goto, Answer, GotoWith, TypeOK, ControlTypeOK
    <3>3. j.kind \in {"sync", "retry", "delete", "health"}
      BY JobsAssumption DEF Job
    <3> QED
      BY <3>2, <3>3 DEF FirstPc
  <2>5. CASE Step(q) /\ ~RetryRead(q)
    BY <2>5 DEF Step, Goto, GotoWith, Answer, CreatePending, CreatePendingFails, Begin,
       BeginFails, ItemSaved, ItemRejected, ItemAfterRollback, Commit, CommitFails,
       CommitCancelled, MarkFailed, MarkSuccessful, RetryWrite, RetryReread,
       DeleteHistory, ProbeRead, ProbeWrite, ProbeCleanUp, Respond, HistoryUntouched,
       ctlVars, TypeOK, ControlTypeOK
  <2>6. CASE RetryRead(q)
    BY <2>6 DEF RetryRead, HistoryUntouched, ctlVars
  <2>7. CASE ClientGone(q) \/ AwaitDone(q)
    BY <2>7 DEF ClientGone, AwaitDone, ctlVars
  <2> QED
    BY <2>1, <2>2, <2>3, <2>4, <2>5, <2>6, <2>7 DEF Next
<1>2. CASE RetryRead(q) /\ pc'[q] = "retryWrite"
  <2>1. /\ job[q].id \in DOMAIN history
        /\ history[job[q].id].status = "FAILED"
    BY <1>2 DEF RetryRead, Goto, Answer, GotoWith, TypeOK, ControlTypeOK
  <2>2. history' = history /\ histSeq' = histSeq
    BY <1>2 DEF RetryRead, HistoryUntouched, hisVars
  <2>3. /\ history[job[q].id].of \notin applied
        /\ pc[history[job[q].id].of] \in Over
    BY <2>1 DEF StatusInv
  <2>4. job[q].id <= histSeq
    BY <2>1 DEF TypeOK, HistoryTypeOK
  <2> QED
    BY <1>0, <1>1, <1>a, <2>1, <2>2, <2>3, <2>4
<1>3. CASE pc[q] = "retryWrite"
  <2>1. /\ job[q].id <= histSeq
        /\ job[q].id \in DOMAIN history =>
               /\ history[job[q].id].of \notin applied
               /\ pc[history[job[q].id].of] \in Over
    BY <1>3 DEF RetryInv
  <2>2. /\ histSeq' >= histSeq
        /\ job[q].id \in DOMAIN history' =>
               /\ job[q].id \in DOMAIN history
               /\ history'[job[q].id].of = history[job[q].id].of
    <3>1. histSeq \in Nat
      BY HistoryAssumption DEF TypeOK, HistoryTypeOK
    <3>2. CASE /\ histSeq' = histSeq
               /\ DOMAIN history' = DOMAIN history
               /\ \A h \in DOMAIN history : history'[h].of = history[h].of
      BY <3>1, <3>2
    <3>3. ASSUME NEW r \in Reqs, CreatePending(r)
          PROVE  /\ histSeq' >= histSeq
                 /\ job[q].id \in DOMAIN history' =>
                        /\ job[q].id \in DOMAIN history
                        /\ history'[job[q].id].of = history[job[q].id].of
      <4>1. /\ histSeq' = histSeq + 1
            /\ DOMAIN history' = DOMAIN history \cup {histSeq + 1}
            /\ \A h \in DOMAIN history : history'[h] = history[h]
        BY <3>3, CreateEffect
      <4>2. job[q].id # histSeq + 1
        BY <1>b, <2>1, <3>1
      <4> QED
        BY <3>1, <4>1, <4>2
    <3>4. ASSUME NEW r \in Reqs, DeleteHistory(r)
          PROVE  /\ histSeq' = histSeq
                 /\ DOMAIN history' \subseteq DOMAIN history
                 /\ \A h \in DOMAIN history' : history'[h] = history[h]
      BY <3>4, DeleteRows
    <3> QED
      BY <3>1, <3>2, <3>3, <3>4, RowsFrame
  <2>3. job[q].id <= histSeq'
    BY <1>b, <2>1, <2>2, HistoryTypeStep, HistoryAssumption DEF TypeOK, HistoryTypeOK
  <2> QED
    BY <1>0, <1>1, <1>a, <2>1, <2>2, <2>3
<1> QED
  BY <1>1, <1>2, <1>3

\* Only a DELETE that finds its row decides for a 204.
LEMMA NewDeletion ==
    ASSUME TypeOK, TxInv, [Next]_vars, NEW d \in Reqs, code[d] # 204, code'[d] = 204
    PROVE  /\ DeleteHistory(d)
           /\ job[d].id \in DOMAIN history
           /\ DOMAIN history' = DOMAIN history \ {job[d].id}
<1> USE DEF TypeOK
<1>1. ~(UNCHANGED vars \/ Finished \/ Recycle \/ Crash)
  BY DEF vars, Finished, Recycle, Crash
<1>2. ASSUME NEW r \in Reqs, r # d
      PROVE  ~(Arrive(r) \/ Step(r) \/ ClientGone(r) \/ AwaitDone(r))
  BY <1>2, OneMoves
<1>3. ~(ClientGone(d) \/ AwaitDone(d))
  BY DEF ClientGone, AwaitDone
<1>4. ~Arrive(d)
  BY DEF Arrive, Goto, Answer, GotoWith, ControlTypeOK
<1>5. ~ItemRejected(d)
  <2> SUFFICES ASSUME ItemRejected(d) PROVE FALSE
    OBVIOUS
  <2>1. \A rnd \in Ids : Outcome(d, rnd).err \in {0, 400, 409, 500}
    BY ItemAtHand DEF ItemRejected
  <2>2. PICK status \in {400, 409, 500} : GotoWith(d, "fail", status)
    BY <2>1 DEF ItemRejected
  <2> QED
    BY <2>2 DEF GotoWith, ControlTypeOK
<1>6. CASE Step(d)
  BY <1>5, <1>6 DEF Step, Goto, GotoWith, Answer, CreatePending, CreatePendingFails, Begin,
     BeginFails, ItemSaved, ItemAfterRollback, Commit, CommitFails, CommitCancelled,
     MarkFailed, MarkSuccessful, RetryRead, RetryWrite, RetryReread, DeleteHistory,
     ProbeRead, ProbeWrite, ProbeCleanUp, Respond, Without, ControlTypeOK
<1> QED
  BY <1>1, <1>2, <1>3, <1>4, <1>6 DEF Next

\* A row does not disappear without a delete that found it, and its id is not
\* used again.
LEMMA AuditStep ==
    ASSUME TypeOK, TxInv, PcInv, AppliedInv, RowInv, AuditInv, [Next]_vars
    PROVE  AuditInv'
<1> DEFINE Gone(d) == Deleted(d, job[d].id)
<1>0. /\ histSeq \in Nat /\ DOMAIN history \subseteq 1 .. histSeq
      /\ \A d \in Reqs : job[d].id \in 0 .. MaxHistory
  BY HistoryAssumption, JobType DEF TypeOK, HistoryTypeOK, Job
<1>1. ASSUME NEW d \in Reqs, Gone(d)
      PROVE  Gone(d)' /\ job'[d] = job[d]
  BY <1>1, OverStays DEF Deleted, Over, TypeOK
<1>2. ASSUME NEW d \in Reqs, Gone(d)', ~Gone(d)
      PROVE  /\ DeleteHistory(d) /\ code[d] # 204 /\ job' = job
             /\ job[d].id \in DOMAIN history
             /\ DOMAIN history' = DOMAIN history \ {job[d].id}
  <2>1. code[d] # 204
    <3> SUFFICES ASSUME code[d] = 204 PROVE FALSE
      OBVIOUS
    <3>1. pc[d] \in Over
      BY DEF PcInv, PcOf
    <3>2. job'[d] = job[d]
      BY <3>1, OverStays DEF TypeOK
    <3> QED
      BY <1>2, <3>1, <3>2 DEF Deleted, Over
  <2>2. DeleteHistory(d) /\ job[d].id \in DOMAIN history
        /\ DOMAIN history' = DOMAIN history \ {job[d].id}
    BY <1>2, <2>1, NewDeletion DEF Deleted
  <2> QED
    BY <2>1, <2>2, DeleteEffect
<1>3. /\ histSeq' \in Nat /\ histSeq <= histSeq'
      /\ \A h \in DOMAIN history' \ DOMAIN history : h = histSeq + 1
  <2>1. ASSUME NEW r \in Reqs, CreatePending(r)
        PROVE  histSeq' = histSeq + 1 /\ DOMAIN history' = DOMAIN history \cup {histSeq + 1}
    BY <2>1, CreateEffect
  <2>2. ASSUME NEW r \in Reqs, DeleteHistory(r)
        PROVE  histSeq' = histSeq /\ DOMAIN history' \subseteq DOMAIN history
    BY <2>2, DeleteRows
  <2> QED
    BY <1>0, <2>1, <2>2, RowsFrame
<1>4. ASSUME NEW r \in Reqs, hid'[r] # NoId
      PROVE  \/ hid'[r] \in DOMAIN history'
             \/ \E d \in Reqs : Deleted(d, hid[r])'
  <2>1. CASE hid'[r] = hid[r]
    <3>1. ASSUME NEW d \in Reqs, Deleted(d, hid[r])
          PROVE  Deleted(d, hid[r])'
      BY <1>1, <2>1, <3>1 DEF Deleted
    <3>2. CASE hid[r] \in DOMAIN history \ DOMAIN history'
      <4>1. PICK q \in Reqs : DeleteHistory(q)
        BY <3>2, CreateEffect, RowsFrame
      <4>2. /\ job' = job /\ hid[r] = job[q].id
            /\ pc'[q] = "answer" /\ code'[q] = 204
        <5>1. history' # history
          BY <3>2
        <5>2. /\ job' = job
              /\ DOMAIN history' = DOMAIN history \ {job[q].id}
              /\ job[q].id \in DOMAIN history => pc'[q] = "answer" /\ code'[q] = 204
          BY <4>1, <5>1, DeleteEffect
        <5> QED
          BY <3>2, <5>2
      <4>3. job[q].kind = "delete"
        BY <4>1 DEF DeleteHistory, Statement, PcInv, PcOf
      <4> QED
        BY <2>1, <4>2, <4>3 DEF Deleted
    <3> QED
      BY <1>4, <2>1, <3>1, <3>2 DEF AuditInv
  <2>2. CASE hid'[r] # hid[r]
    <3>1. PICK q \in Reqs : CreatePending(q)
      BY <2>2, DeleteEffect, RowsFrame
    <3> QED
      BY <2>2, <3>1, CreateEffect
  <2> QED
    BY <2>1, <2>2
<1>5. ASSUME NEW d \in Reqs, Gone(d)'
      PROVE  job'[d].id <= histSeq' /\ job'[d].id \notin DOMAIN history'
  <2>1. CASE Gone(d)
    <3>1. job'[d] = job[d] /\ job[d].id <= histSeq /\ job[d].id \notin DOMAIN history
      BY <1>1, <2>1 DEF AuditInv, DeletedOnce
    <3> QED
      BY <1>0, <1>3, <3>1
  <2>2. CASE ~Gone(d)
    <3>1. job' = job /\ job[d].id \in DOMAIN history
          /\ DOMAIN history' = DOMAIN history \ {job[d].id}
      BY <1>2, <1>5, <2>2
    <3> QED
      BY <1>0, <1>3, <3>1
  <2> QED
    BY <2>1, <2>2
<1>6. ASSUME NEW d \in Reqs, NEW e \in Reqs, e # d, Gone(d)', Gone(e)'
      PROVE  job'[e].id # job'[d].id
  <2>1. CASE Gone(d) /\ Gone(e)
    BY <1>1, <1>6, <2>1 DEF AuditInv, DeletedOnce, Deleted
  <2>2. ASSUME NEW a \in Reqs, NEW b \in Reqs, a # b, ~Gone(a), Gone(a)', Gone(b)'
        PROVE  job'[a].id # job'[b].id
    <3>1. /\ DeleteHistory(a) /\ job' = job /\ job[a].id \in DOMAIN history
      BY <1>2, <2>2
    <3>2. code'[b] = code[b]
      BY <2>2, <3>1, OneMoves DEF Step, TypeOK
    <3>3. Gone(b)
      BY <1>2, <2>2, <3>2 DEF Deleted
    <3> QED
      BY <3>1, <3>3 DEF AuditInv, DeletedOnce
  <2> QED
    BY <1>6, <2>1, <2>2
<1>7. DeletedOnce'
  BY <1>5, <1>6 DEF DeletedOnce, Deleted
<1> QED
  BY <1>4, <1>5, <1>7 DEF AuditInv, Deleted

\* failure_reason stays on the FAILED rows.
LEMMA ReasonStep ==
    ASSUME TypeOK, PcInv, AppliedInv, RowInv, StatusInv, ReasonIffFailed, [Next]_vars
    PROVE  ReasonIffFailed'
<1>1. CASE history' = history
  BY <1>1 DEF ReasonIffFailed
<1>2. ASSUME NEW r \in Reqs, CreatePending(r)
      PROVE  ReasonIffFailed'
  <2>1. /\ DOMAIN history' = DOMAIN history \cup {histSeq + 1}
        /\ \A h \in DOMAIN history : history'[h] = history[h]
        /\ history'[histSeq + 1].status = "PENDING_RETRY"
        /\ history'[histSeq + 1].reason = "NULL"
    BY <1>2, CreateEffect
  <2> QED
    BY <2>1 DEF ReasonIffFailed
<1>3. ASSUME NEW r \in Reqs, DeleteHistory(r)
      PROVE  ReasonIffFailed'
  <2>1. /\ DOMAIN history' \subseteq DOMAIN history
        /\ \A h \in DOMAIN history' : history'[h] = history[h]
    BY <1>3, DeleteRows
  <2> QED
    BY <2>1 DEF ReasonIffFailed
<1>4. ASSUME NEW g, NEW status, NEW reason, SetStatus(g, status, reason),
             g \in DOMAIN history => (reason = "text" <=> status = "FAILED")
      PROVE  ReasonIffFailed'
  <2>1. /\ DOMAIN history' = DOMAIN history
        /\ \A h \in DOMAIN history : h # g => history'[h] = history[h]
        /\ g \in DOMAIN history => history'[g].status = status /\ history'[g].reason = reason
    BY <1>4, SetStatusEffect DEF TypeOK
  <2> QED
    BY <1>4, <2>1 DEF ReasonIffFailed
<1>5. ASSUME NEW r \in Reqs, MarkSuccessful(r), hid[r] \in DOMAIN history
      PROVE  ReasonOf(hid[r]) # "text"
  <2>1. pc[r] = "succeed"
    BY <1>5 DEF MarkSuccessful, Statement
  <2>2. r \in applied /\ history[hid[r]].of = r
    BY <1>5, <2>1 DEF AppliedInv, AppliedOf, RowInv
  <2>3. history[hid[r]].status # "FAILED"
    BY <1>5, <2>2 DEF StatusInv
  <2> QED
    BY <1>5, <2>3 DEF ReasonIffFailed, ReasonOf
<1>6. ASSUME NEW r \in Reqs, MarkFailed(r) \/ MarkSuccessful(r) \/ RetryWrite(r)
      PROVE  ReasonIffFailed'
  <2>1. CASE MarkFailed(r)
    BY <1>1, <1>4, <2>1 DEF MarkFailed
  <2>2. CASE MarkSuccessful(r)
    BY <1>1, <1>4, <1>5, <2>2 DEF MarkSuccessful
  <2>3. CASE RetryWrite(r)
    BY <1>1, <1>4, <2>3 DEF RetryWrite
  <2> QED
    BY <1>6, <2>1, <2>2, <2>3
<1> QED
  BY <1>1, <1>2, <1>3, <1>6, HistoryFrame

-----------------------------------------------------------------------------
(***************************************************************************)
(* The transaction                                                         *)
(***************************************************************************)
\* While a transaction keeps the connection, nothing it has run can change, and
\* its owner only moves on to its error path, after a disconnect.
LEMMA OwnerFrame ==
    ASSUME TypeOK, TxInv, [Next]_vars, ~Crash, conn # Free,
           UNCHANGED <<conn, work, tabs, applied>>
    PROVE  /\ conn \in Reqs
           /\ job'[conn] = job[conn]
           /\ fk' = fk
           /\ gone \subseteq gone'
           /\ pc'[conn] = pc[conn] \/ (pc'[conn] = "fail" /\ conn \in gone)
<1>0. conn \in Reqs /\ pc[conn] \in {"items", "commit", "fail"}
  BY DEF TypeOK, StoreTypeOK, TxInv
<1>1. fk' = fk
  BY FkFrame DEF Recycle
<1>2. CASE UNCHANGED vars \/ Finished \/ Recycle
  BY <1>0, <1>1, <1>2 DEF vars, Finished, Recycle, ctlVars
<1>3. ASSUME NEW r \in Reqs, Arrive(r) \/ Step(r) \/ ClientGone(r) \/ AwaitDone(r)
      PROVE  gone \subseteq gone'
  BY <1>3 DEF Step, Arrive, ClientGone, AwaitDone, CreatePending, CreatePendingFails, Begin,
     BeginFails, ItemSaved, ItemRejected, ItemAfterRollback, Commit, CommitFails,
     CommitCancelled, MarkFailed, MarkSuccessful, RetryRead, RetryWrite, RetryReread,
     DeleteHistory, ProbeRead, ProbeWrite, ProbeCleanUp, Respond, HistoryUntouched, ctlVars
<1>4. ASSUME NEW r \in Reqs, r # conn,
             Arrive(r) \/ Step(r) \/ ClientGone(r) \/ AwaitDone(r)
      PROVE  job'[conn] = job[conn] /\ pc'[conn] = pc[conn]
  BY <1>0, <1>4, OneMoves DEF TypeOK
<1>5. CASE Arrive(conn) \/ ClientGone(conn) \/ AwaitDone(conn)
  <2>1. ~AwaitDone(conn)
    BY FreeAssumption DEF AwaitDone, Rollback
  <2> QED
    BY <1>0, <1>5, <2>1 DEF Arrive, ClientGone
<1>6. CASE Step(conn)
  <2>1. ~Statement(conn, "fail") /\ ~Statement(conn, "succeed")
    BY DEF Statement
  <2>2. ItemSaved(conn) \/ ItemRejected(conn) \/ Commit(conn) \/ CommitFails(conn)
        \/ CommitCancelled(conn)
    BY <1>0, <1>6 DEF Step, Statement, CreatePending, CreatePendingFails, Begin, BeginFails,
       ItemAfterRollback, MarkFailed, MarkSuccessful, RetryRead, RetryWrite,
       RetryReread, DeleteHistory, ProbeRead, ProbeWrite, ProbeCleanUp, Respond
  <2>3. ~ItemSaved(conn)
    <3> SUFFICES ASSUME ItemSaved(conn) PROVE FALSE
      OBVIOUS
    <3>1. PICK x : work' = Append(work, x)
      BY DEF ItemSaved
    <3>2. Len(work') = Len(work) + 1 /\ Len(work) \in Nat
      BY <3>1, AppendShape DEF TypeOK, StoreTypeOK
    <3> QED
      BY <3>2
  <2>4. ~ItemRejected(conn) /\ ~Commit(conn) /\ ~CommitFails(conn)
    BY DEF ItemRejected, Commit, CommitFails, Rollback
  <2> QED
    BY <1>0, <2>2, <2>3, <2>4 DEF CommitCancelled, GotoWith, ctlVars, TypeOK, ControlTypeOK
<1> QED
  BY <1>0, <1>1, <1>2, <1>3, <1>4, <1>5, <1>6 DEF Next

\* The open transaction has run a prefix of its batch, from the committed tables.
LEMMA TxStep ==
    ASSUME TypeOK, TxInv, PcInv, [Next]_vars
    PROVE  TxInv'
<1>f. ASSUME conn' = Free, work' = << >>
      PROVE  TxInv'
  BY <1>f DEF TxInv
<1>1. CASE Crash
  BY <1>1, <1>f DEF Crash, Rollback
<1>2. CASE UNCHANGED <<conn, work, tabs, applied>> /\ ~Crash
  <2>1. CASE conn = Free
    BY <1>2, <1>f, <2>1 DEF TxInv
  <2>2. CASE conn # Free
    <3>1. /\ conn \in Reqs
          /\ job'[conn] = job[conn]
          /\ fk' = fk
          /\ gone \subseteq gone'
          /\ pc'[conn] = pc[conn] \/ (pc'[conn] = "fail" /\ conn \in gone)
      BY <1>2, <2>2, OwnerFrame
    <3>2. conn' = conn /\ work' = work /\ tabs' = tabs
      BY <1>2
    <3> QED
      BY <2>2, <3>1, <3>2 DEF TxInv, RanItem
  <2> QED
    BY <2>1, <2>2
<1>3. ASSUME NEW r \in Reqs, Begin(r)
      PROVE  TxInv'
  <2>1. conn' = r /\ work' = <<tabs>> /\ tabs' = tabs /\ pc[r] = "begin"
        /\ pc'[r] = "items" /\ job' = job
    BY <1>3 DEF Begin, Statement, Goto, ctlVars, TypeOK, ControlTypeOK
  <2>2. Len(job[r].items) > 0
    BY <2>1, JobsAssumption DEF PcInv, PcOf, SyncPcs
  <2>3. Len(job[r].items) \in Nat
    BY JobType DEF TypeOK, Job
  <2>4. Len(work') = 1 /\ work'[1] = tabs
    BY <2>1
  <2> QED
    BY <2>1, <2>2, <2>3, <2>4, FreeAssumption DEF TxInv
<1>4. ASSUME NEW r \in Reqs, ItemSaved(r)
      PROVE  TxInv'
  <2>1. PICK rnd \in Ids : /\ Outcome(r, rnd).err = 0
                           /\ work' = Append(work, Outcome(r, rnd).tabs)
    BY <1>4 DEF ItemSaved
  <2>2. /\ conn = r /\ conn' = r /\ tabs' = tabs /\ pc[r] = "items" /\ job' = job /\ fk' = fk
        /\ pc'[r] = IF Len(work) = Len(job[r].items) THEN "commit" ELSE "items"
    BY <1>4 DEF ItemSaved, Goto, ctlVars, TypeOK, ControlTypeOK
  <2>3. /\ Len(work') = Len(work) + 1
        /\ \A k \in 1 .. Len(work) : work'[k] = work[k]
        /\ work'[Len(work) + 1] = Outcome(r, rnd).tabs
        /\ Len(work) \in Nat
    BY <2>1, AppendShape DEF TypeOK, StoreTypeOK
  <2>4. Len(work) \in 1 .. Len(job[r].items) /\ Len(job[r].items) \in Nat
    BY <2>1, <2>2, ItemAtHand DEF TypeOK
  <2>5. RanItem(work[Len(work)], r, Len(work), work'[Len(work) + 1])
    BY <2>1, <2>3 DEF RanItem, Outcome
  <2>6. \A k \in 1 .. Len(work) : RanItem(work'[k], r, k, work'[k + 1])
    <3> SUFFICES ASSUME NEW k \in 1 .. Len(work)
                 PROVE  RanItem(work'[k], r, k, work'[k + 1])
      OBVIOUS
    <3>1. CASE k = Len(work)
      BY <2>3, <2>5, <3>1
    <3>2. CASE k # Len(work)
      <4>1. k \in 1 .. Len(work) - 1 /\ k + 1 \in 1 .. Len(work)
        BY <2>3, <3>2
      <4>2. RanItem(work[k], r, k, work[k + 1])
        BY <2>2, <4>1, FreeAssumption DEF TxInv
      <4> QED
        BY <2>3, <4>1, <4>2
    <3> QED
      BY <3>1, <3>2
  <2>7. work'[1] = tabs'
    BY <2>2, <2>3, <2>4, FreeAssumption DEF TxInv
  <2>8. /\ pc'[r] \in {"items", "commit"}
        /\ pc'[r] = "items" => Len(work') <= Len(job'[r].items)
        /\ pc'[r] = "commit" => Len(work') = Len(job'[r].items) + 1
        /\ Len(work') >= 1
    BY <2>2, <2>3, <2>4
  <2>9. \A k \in 1 .. Len(work') - 1 : RanItem(work[k], conn, k, work[k + 1])'
    <3>1. \A k \in 1 .. Len(work') - 1 : k \in 1 .. Len(work)
      BY <2>3
    <3> QED
      BY <2>2, <2>6, <3>1 DEF RanItem
  <2> QED
    BY <2>2, <2>7, <2>8, <2>9, FreeAssumption DEF TxInv
<1>5. ASSUME NEW r \in Reqs, ItemRejected(r) \/ Commit(r) \/ CommitFails(r) \/ AwaitDone(r)
      PROVE  TxInv'
  BY <1>5, <1>f DEF ItemRejected, Commit, CommitFails, AwaitDone, Rollback
<1>6. ASSUME NEW r \in Reqs, ProbeWrite(r) \/ ProbeCleanUp(r)
      PROVE  TxInv'
  BY <1>6, <1>f DEF ProbeWrite, ProbeCleanUp, Statement, TxInv
<1> QED
  BY <1>1, <1>2, <1>3, <1>4, <1>5, <1>6, StoreFrame

-----------------------------------------------------------------------------
(***************************************************************************)
(* The schema's promises                                                   *)
(***************************************************************************)
\* UNIQUE columns and sequences hold in the committed and in the open tables.
LEMMA TablesStep ==
    ASSUME TypeOK, TxInv, TablesInv, [Next]_vars
    PROVE  TablesInv'
<1>0. /\ Consistent(tabs) /\ \A k \in 1 .. Len(work) : Consistent(work[k])
      /\ Len(work) \in Nat
  BY DEF TablesInv, Consistent, TypeOK, StoreTypeOK
<1>s. ASSUME Consistent(tabs'), \A k \in 1 .. Len(work') : Consistent(work'[k])
      PROVE  TablesInv'
  BY <1>s DEF TablesInv, Consistent
<1>e. ASSUME Consistent(tabs'), work' = << >>
      PROVE  TablesInv'
  BY <1>e, <1>s
<1>1. CASE UNCHANGED <<conn, work, tabs, applied>>
  BY <1>0, <1>1, <1>s
<1>2. ASSUME NEW r \in Reqs, Begin(r)
      PROVE  TablesInv'
  <2>1. tabs' = tabs /\ work' = <<tabs>>
    BY <1>2 DEF Begin
  <2>2. Len(work') = 1 /\ work'[1] = tabs
    BY <2>1
  <2> QED
    BY <1>0, <1>s, <2>1, <2>2
<1>3. ASSUME NEW r \in Reqs, ItemSaved(r)
      PROVE  TablesInv'
  <2>1. PICK rnd \in Ids : /\ Outcome(r, rnd).err = 0
                           /\ work' = Append(work, Outcome(r, rnd).tabs)
    BY <1>3 DEF ItemSaved
  <2>2. /\ Len(work') = Len(work) + 1
        /\ \A k \in 1 .. Len(work) : work'[k] = work[k]
        /\ work'[Len(work) + 1] = Outcome(r, rnd).tabs
    BY <2>1, AppendShape DEF TypeOK, StoreTypeOK
  <2>3. /\ Len(work) \in 1 .. Len(job[r].items)
        /\ job[r].items[Len(work)] \in Item /\ job[r].model \in Models
        /\ IsTables(work[Len(work)])
    BY <1>3, ItemAtHand DEF ItemSaved, TypeOK
  <2>4. Consistent(Outcome(r, rnd).tabs)
    <3>1. Consistent(work[Len(work)])
      BY <1>0, <2>3
    <3> QED
      BY <2>1, <2>3, <3>1, ProcessItemConsistent DEF Outcome
  <2>5. tabs' = tabs
    BY <1>3 DEF ItemSaved
  <2> QED
    BY <1>0, <1>s, <2>2, <2>4, <2>5
<1>4. ASSUME NEW r \in Reqs, ItemRejected(r) \/ CommitFails(r) \/ AwaitDone(r)
      PROVE  TablesInv'
  BY <1>0, <1>4, <1>e DEF ItemRejected, CommitFails, AwaitDone, Rollback
<1>5. ASSUME NEW r \in Reqs, Commit(r)
      PROVE  TablesInv'
  <2>1. Len(work) >= 1
    BY <1>5, FreeAssumption DEF Commit, TxInv
  <2> QED
    BY <1>0, <1>5, <1>e, <2>1 DEF Commit
<1>6. ASSUME NEW r \in Reqs, ProbeWrite(r) \/ ProbeCleanUp(r)
      PROVE  TablesInv'
  <2>1. IsTables(tabs)
    BY DEF TypeOK, StoreTypeOK
  <2>2. Consistent(tabs')
    BY <1>0, <1>6, <2>1, ProbeInsertKeeps, ProbeDeleteKeeps DEF ProbeWrite, ProbeCleanUp
  <2>3. work' = work
    BY <1>6 DEF ProbeWrite, ProbeCleanUp
  <2> QED
    BY <1>0, <1>s, <2>2, <2>3
<1>7. CASE Crash
  BY <1>0, <1>7, <1>e DEF Crash, Rollback
<1> QED
  BY <1>1, <1>2, <1>3, <1>4, <1>5, <1>6, <1>7, StoreFrame

\* Foreign keys hold while every connection enforces them.
LEMMA KeysStep ==
    ASSUME TypeOK, TxInv, KeysInv, [Next]_vars
    PROVE  KeysInv'
<1> SUFFICES ASSUME "recycle" \notin FaultKinds
             PROVE  /\ fk' = "ON"
                    /\ References(tabs')
                    /\ \A k \in 1 .. Len(work') : References(work'[k])
  BY DEF KeysInv
<1>0. /\ fk = "ON" /\ References(tabs) /\ \A k \in 1 .. Len(work) : References(work[k])
      /\ Len(work) \in Nat /\ IsTables(tabs)
  BY DEF KeysInv, TypeOK, StoreTypeOK
<1>1. fk' = "ON"
  BY <1>0, FkFrame DEF Crash, Recycle, Fault
<1> DEFINE Kept == /\ References(tabs')
                   /\ \A k \in 1 .. Len(work') : References(work'[k])
<1>2. Kept
  <2>1. CASE UNCHANGED <<conn, work, tabs, applied>>
    BY <1>0, <2>1
  <2>2. ASSUME NEW r \in Reqs, Begin(r)
        PROVE  Kept
    <3>1. tabs' = tabs /\ work' = <<tabs>>
      BY <2>2 DEF Begin
    <3>2. Len(work') = 1 /\ work'[1] = tabs
      BY <3>1
    <3> QED
      BY <1>0, <3>1, <3>2
  <2>3. ASSUME NEW r \in Reqs, ItemSaved(r)
        PROVE  Kept
    <3>1. PICK rnd \in Ids : /\ Outcome(r, rnd).err = 0
                             /\ work' = Append(work, Outcome(r, rnd).tabs)
      BY <2>3 DEF ItemSaved
    <3>2. /\ Len(work') = Len(work) + 1
          /\ \A k \in 1 .. Len(work) : work'[k] = work[k]
          /\ work'[Len(work) + 1] = Outcome(r, rnd).tabs
      BY <3>1, AppendShape DEF TypeOK, StoreTypeOK
    <3>3. /\ Len(work) \in 1 .. Len(job[r].items)
          /\ job[r].items[Len(work)] \in Item /\ job[r].model \in Models
          /\ IsTables(work[Len(work)])
      BY <2>3, ItemAtHand DEF ItemSaved, TypeOK
    <3>4. References(Outcome(r, rnd).tabs)
      <4>1. References(work[Len(work)])
        BY <1>0, <3>3
      <4> QED
        BY <1>0, <3>1, <3>3, <4>1, ProcessItemReferences DEF Outcome
    <3>5. tabs' = tabs
      BY <2>3 DEF ItemSaved
    <3> QED
      BY <1>0, <3>2, <3>4, <3>5
  <2>4. ASSUME NEW r \in Reqs, ItemRejected(r) \/ CommitFails(r) \/ AwaitDone(r)
        PROVE  Kept
    BY <1>0, <2>4 DEF ItemRejected, CommitFails, AwaitDone, Rollback
  <2>5. ASSUME NEW r \in Reqs, Commit(r)
        PROVE  Kept
    <3>1. Len(work) >= 1
      BY <2>5, FreeAssumption DEF Commit, TxInv
    <3> QED
      BY <1>0, <2>5, <3>1 DEF Commit
  <2>6. ASSUME NEW r \in Reqs, ProbeWrite(r) \/ ProbeCleanUp(r)
        PROVE  Kept
    <3>1. References(tabs')
      BY <1>0, <2>6, ProbeInsertKeeps, ProbeDeleteKeeps DEF ProbeWrite, ProbeCleanUp
    <3>2. work' = work
      BY <2>6 DEF ProbeWrite, ProbeCleanUp
    <3> QED
      BY <1>0, <3>1, <3>2
  <2>7. CASE Crash
    BY <1>0, <2>7 DEF Crash, Rollback
  <2> QED
    BY <2>1, <2>2, <2>3, <2>4, <2>5, <2>6, <2>7, StoreFrame
<1> QED
  BY <1>1, <1>2

-----------------------------------------------------------------------------
(***************************************************************************)
(* The invariant                                                           *)
(***************************************************************************)
\* The service starts in it.
LEMMA InitIInv ==
    ASSUME Init
    PROVE  IInv
<1> USE DEF Init
<1>1. ControlTypeOK
  BY HistoryAssumption, FaultAssumption DEF ControlTypeOK, Pcs, RestPcs, NoId
<1>2. IsTables(EmptyTables) /\ Consistent(EmptyTables) /\ References(EmptyTables)
  <2>1. /\ EmptyTables.rows = [m \in Models |-> EmptyTable]
        /\ EmptyTables.seq = [m \in AutoModels |-> 0]
        /\ EmptyTables = [rows |-> EmptyTables.rows, seq |-> EmptyTables.seq]
    BY DEF EmptyTables
  <2>2. DOMAIN EmptyTable = {} /\ IsTable(EmptyTable)
    BY DEF EmptyTable, IsTable
  <2>3. EmptyTables.seq \in [AutoModels -> 0 .. MaxRowid]
    BY <2>1, RowidAssumption
  <2>4. \A m \in Models : EmptyTables.rows[m] = EmptyTable
    BY <2>1
  <2>5. AutoModels \subseteq Models /\ "orders" \in Models
    BY DEF AutoModels, Models
  <2>6. EmptyTables.rows = [m \in Models |-> EmptyTables.rows[m]]
    BY <2>1
  <2>7. IsTables(EmptyTables)
    BY <2>1, <2>2, <2>3, <2>4, <2>6 DEF IsTables
  <2>8. Consistent(EmptyTables)
    BY <2>2, <2>4, <2>5 DEF Consistent, UniqueKeys, SequenceAhead
  <2>9. References(EmptyTables)
    BY <2>2, <2>4, <2>5 DEF References, Orders
  <2> QED
    BY <2>7, <2>8, <2>9
<1>3. StoreTypeOK
  BY <1>2 DEF StoreTypeOK, ForeignKeys
<1>4. DOMAIN history = {} /\ history = [h \in DOMAIN history |-> history[h]]
  BY DEF EmptyTable
<1>5. HistoryTypeOK
  BY <1>4, HistoryAssumption DEF HistoryTypeOK
<1>6. PcInv
  BY DEF PcInv, PcOf, SyncPcs, HealthPcs, RetryPcs, Running
<1>7. AppliedInv
  BY DEF AppliedInv, AppliedOf
<1>8. RowInv /\ StatusInv /\ ReasonIffFailed
  BY <1>4 DEF RowInv, StatusInv, ReasonIffFailed, NoId
<1>9. RetryInv /\ AuditInv
  BY DEF RetryInv, AuditInv, DeletedOnce, Deleted
<1>10. TxInv
  BY DEF TxInv
<1>11. TablesInv /\ KeysInv
  BY <1>2 DEF TablesInv, KeysInv, Consistent
<1> QED
  BY <1>1, <1>3, <1>5, <1>6, <1>7, <1>8, <1>9, <1>10, <1>11 DEF IInv, TypeOK, LedgerInv

\* Every step preserves it.
LEMMA StepIInv ==
    ASSUME IInv, [Next]_vars
    PROVE  IInv'
<1> USE DEF IInv, LedgerInv
<1>1. TypeOK'
  BY ControlTypeStep, StoreTypeStep, HistoryTypeStep DEF TypeOK
<1>2. LedgerInv'
  BY PcStep, AppliedStep, RowStep, StatusStep, RetryStep, AuditStep
<1>3. TxInv' /\ ReasonIffFailed' /\ TablesInv' /\ KeysInv'
  BY TxStep, ReasonStep, TablesStep, KeysStep
<1> QED
  BY <1>1, <1>2, <1>3

\* The inductive invariant holds in every reachable state.
THEOREM Invariant == Spec => []IInv
<1>1. Init => IInv
  BY InitIInv
<1>2. IInv /\ [Next]_vars => IInv'
  BY StepIInv
<1> QED
  BY <1>1, <1>2, PTL DEF Spec

\* Every variable of the service keeps its type.
THEOREM TypeCorrect == Spec => []TypeOK
<1>1. IInv => TypeOK
  BY DEF IInv
<1> QED
  BY <1>1, Invariant, PTL

\* The status of a ledger row tells what happened to its request's batch.
THEOREM LedgerIsTruthful == Spec => []LedgerTruthful
<1>1. IInv => LedgerTruthful
  BY DEF IInv, LedgerInv, StatusInv, LedgerTruthful
<1> QED
  BY <1>1, Invariant, PTL

\* A sync request is answered 200 exactly when its batch is applied.
THEOREM ResponsesAreTruthful == Spec => []ResponseTruthful
<1>1. IInv => ResponseTruthful
  BY DEF IInv, LedgerInv, AppliedInv, AppliedOf, ResponseTruthful
<1> QED
  BY <1>1, Invariant, PTL

\* The id a request remembers never names another request's row.
THEOREM RowsAreOwn == Spec => []RowIsOwn
<1>1. IInv => RowIsOwn
  BY DEF IInv, LedgerInv, RowInv, RowIsOwn
<1> QED
  BY <1>1, Invariant, PTL

\* An applied batch has a ledger row, or a delete request that found it: answered
\* 204, about to be, or lost in a crash after its DELETE.
THEOREM AuditTrailKept == Spec => []AuditTrail
<1>1. ASSUME IInv PROVE AuditTrail
  <2> SUFFICES ASSUME NEW r \in applied
               PROVE  \/ \E h \in DOMAIN history : history[h].of = r
                      \/ \E d \in Reqs : Deleted(d, hid[r])
    BY DEF AuditTrail
  <2>1. r \in Reqs /\ hid[r] # NoId
    BY <1>1 DEF IInv, LedgerInv, TypeOK, ControlTypeOK, AppliedInv, AppliedOf
  <2>2. hid[r] \in DOMAIN history => history[hid[r]].of = r
    BY <1>1, <2>1 DEF IInv, LedgerInv, RowInv
  <2> QED
    BY <1>1, <2>1, <2>2 DEF IInv, LedgerInv, AuditInv
<1> QED
  BY <1>1, Invariant, PTL

\* A deletion that found its row is final, and the only one of that row.
THEOREM DeletionsAreFinal == Spec => []DeletedOnce
<1>1. IInv => DeletedOnce
  BY DEF IInv, LedgerInv, AuditInv
<1> QED
  BY <1>1, Invariant, PTL

\* Exactly the FAILED rows have a failure_reason.
THEOREM ReasonsMatch == Spec => []ReasonIffFailed
<1>1. IInv => ReasonIffFailed
  BY DEF IInv
<1> QED
  BY <1>1, Invariant, PTL

\* The UNIQUE columns hold and automatic rowids are fresh.
THEOREM TablesStayConsistent == Spec => []TablesConsistent
<1>1. IInv => TablesConsistent
  BY DEF IInv, TablesInv, TablesConsistent
<1> QED
  BY <1>1, Invariant, PTL

\* If the pool never replaces its connection, no order dangles.
THEOREM ReferencesStay == "recycle" \notin FaultKinds => (Spec => []ReferencesHold)
<1> SUFFICES ASSUME "recycle" \notin FaultKinds
             PROVE  Spec => []ReferencesHold
  OBVIOUS
<1>1. IInv => ReferencesHold
  BY DEF IInv, KeysInv, ReferencesHold
<1> QED
  BY <1>1, Invariant, PTL

-----------------------------------------------------------------------------
(***************************************************************************)
(* The outcome of an answered sync                                         *)
(***************************************************************************)
\* A retry that has written the row goes on counting as one: its last SELECT finds
\* the row, which is still there.
LEMMA RetriesStays ==
    ASSUME IInv, [Next]_vars, NEW r \in Reqs, NEW q \in Reqs,
           Retries(q, r), hid'[r] = hid[r], hid[r] \in DOMAIN history
    PROVE  Retries(q, r)'
<1> USE DEF IInv
<1>1. CASE pc[q] \in Over
  <2>1. /\ pc'[q] = pc[q] /\ code'[q] = code[q] /\ job'[q] = job[q]
        /\ q \in untold' <=> q \in untold
    BY <1>1, OverStays DEF TypeOK, Retries
  <2> QED
    BY <2>1 DEF Retries
<1>2. CASE pc[q] = "retryReread"
  <2>1. CASE UNCHANGED vars \/ Finished \/ Recycle
    BY <1>2, <2>1 DEF Retries, vars, Finished, Recycle, ctlVars
  <2>2. CASE Crash
    BY <1>2, <2>2 DEF Retries, Crash, ctlVars, TypeOK, ControlTypeOK, RestPcs
  <2>3. ASSUME NEW p \in Reqs, p # q, Arrive(p) \/ Step(p) \/ ClientGone(p) \/ AwaitDone(p)
        PROVE  job'[q] = job[q] /\ pc'[q] = pc[q]
    BY <2>3, OneMoves DEF TypeOK
  <2>4. CASE Arrive(q) \/ ClientGone(q) \/ AwaitDone(q)
    BY <1>2, <2>4, FreeAssumption DEF Retries, Arrive, ClientGone, AwaitDone, SyncPcs, ctlVars
  <2>5. CASE Step(q)
    <3>1. RetryReread(q)
      BY <1>2, <2>5 DEF Step, Statement, CreatePending,
         CreatePendingFails, Begin, BeginFails, ItemSaved, ItemRejected,
         ItemAfterRollback, Commit, CommitFails, CommitCancelled, MarkFailed,
         MarkSuccessful, RetryRead, RetryWrite, DeleteHistory,
         ProbeRead, ProbeWrite, ProbeCleanUp, Respond
    <3>2. job' = job /\ (Answer(q, 200) \/ (Answer(q, 500) /\ q \in untold'))
      BY <3>1 DEF RetryReread, Unnoticed, Retries
    <3> QED
      BY <3>2 DEF Retries, Answer, GotoWith, TypeOK, ControlTypeOK
  <2> QED
    BY <1>2, <2>1, <2>2, <2>3, <2>4, <2>5 DEF Next, Retries
<1> QED
  BY <1>1, <1>2 DEF Retries, Over

\* Only the two marks decide how a sync that has a row is answered.
LEMMA AnsweredByMark ==
    ASSUME IInv, [Next]_vars, NEW r \in Reqs, pc[r] \notin {"answer", "done"},
           pc'[r] \in {"answer", "done"},
           job'[r].kind = "sync", hid'[r] # NoId
    PROVE  MarkFailed(r) \/ MarkSuccessful(r)
<1> USE DEF IInv, LedgerInv, TypeOK, ControlTypeOK
<1>1. ~(UNCHANGED vars \/ Finished \/ Recycle \/ Crash)
  BY DEF vars, Finished, Recycle, Crash, RestPcs
<1>2. ~ \E p \in Reqs : p # r /\ (Arrive(p) \/ Step(p) \/ ClientGone(p) \/ AwaitDone(p))
  BY OneMoves
<1>3. Arrive(r) \/ Step(r) \/ ClientGone(r) \/ AwaitDone(r)
  BY <1>1, <1>2 DEF Next
<1>4. ~Arrive(r) /\ ~ClientGone(r) /\ ~AwaitDone(r)
  BY DEF Arrive, ClientGone, AwaitDone, PcInv, PcOf, ctlVars
<1>5. ~CreatePending(r) /\ ~CreatePendingFails(r) /\ ~Begin(r) /\ ~BeginFails(r)
  <2>1. ~CreatePendingFails(r)
    BY DEF CreatePendingFails, Statement, PcInv, PcOf, ctlVars
  <2> QED
    BY <2>1 DEF CreatePending, Begin, BeginFails, Goto, GotoWith
<1>6. /\ ~ItemSaved(r) /\ ~ItemRejected(r) /\ ~ItemAfterRollback(r)
      /\ ~Commit(r) /\ ~CommitFails(r) /\ ~CommitCancelled(r)
  BY DEF ItemSaved, ItemRejected, ItemAfterRollback, Commit, CommitFails, CommitCancelled,
     Goto, GotoWith
<1>7. ~RetryRead(r) /\ ~RetryWrite(r) /\ ~RetryReread(r)
  <2>1. pc[r] \in RetryPcs => job[r].kind = "retry"
    BY DEF PcInv, PcOf
  <2> QED
    BY <2>1 DEF RetryRead, RetryWrite, RetryReread, Statement, RetryPcs, HistoryUntouched, ctlVars
<1>8. ~DeleteHistory(r) /\ ~Respond(r)
  BY DEF DeleteHistory, Respond, Statement, PcInv, PcOf, ctlVars
<1>9. ~ProbeRead(r) /\ ~ProbeWrite(r) /\ ~ProbeCleanUp(r)
  <2>1. pc[r] \in HealthPcs => job[r].kind = "health"
    BY DEF PcInv, PcOf
  <2> QED
    BY <2>1 DEF ProbeRead, ProbeWrite, ProbeCleanUp, Statement, HealthPcs, HistoryUntouched, ctlVars
<1> QED
  BY <1>3, <1>4, <1>5, <1>6, <1>7, <1>8, <1>9 DEF Step

\* The row of an answered sync is written by nobody but a retry.
LEMMA AnsweredRow ==
    ASSUME IInv, [Next]_vars, NEW r \in Reqs, pc[r] \in {"answer", "done"},
           hid'[r] = hid[r], hid[r] \in DOMAIN history'
    PROVE  /\ hid[r] \in DOMAIN history
           /\ \/ history'[hid[r]] = history[hid[r]]
              \/ \E q \in Reqs : /\ RetryWrite(q) /\ job[q].id = hid[r]
                                 /\ history'[hid[r]].status = "PENDING_RETRY"
<1> USE DEF IInv, LedgerInv, TypeOK
<1>1. hid[r] \in DOMAIN history => history[hid[r]].of = r
  BY DEF RowInv
<1>2. CASE history' = history
  BY <1>2
<1>3. ASSUME NEW q \in Reqs, CreatePending(q)
      PROVE  hid[r] \in DOMAIN history /\ history'[hid[r]] = history[hid[r]]
  <2>1. /\ histSeq \in Nat /\ DOMAIN history' = DOMAIN history \cup {histSeq + 1}
        /\ \A h \in DOMAIN history : history'[h] = history[h]
    BY <1>3, CreateEffect
  <2>2. hid[r] <= histSeq /\ hid[r] \in 0 .. MaxHistory
    BY DEF RowInv, ControlTypeOK
  <2>3. hid[r] # histSeq + 1
    BY <2>1, <2>2, HistoryAssumption
  <2> QED
    BY <2>1, <2>3
<1>4. ASSUME NEW q \in Reqs, DeleteHistory(q)
      PROVE  hid[r] \in DOMAIN history /\ history'[hid[r]] = history[hid[r]]
  BY <1>4, DeleteRows
<1>5. ASSUME NEW q \in Reqs, NEW status, NEW reason, SetStatus(hid[q], status, reason), q # r
      PROVE  hid[r] \in DOMAIN history /\ history'[hid[r]] = history[hid[r]]
  <2>1. /\ DOMAIN history' = DOMAIN history
        /\ \A g \in DOMAIN history : g # hid[q] => history'[g] = history[g]
    BY <1>5, SetStatusEffect
  <2>2. hid[q] \in DOMAIN history => history[hid[q]].of = q
    BY DEF RowInv
  <2> QED
    BY <1>1, <1>5, <2>1, <2>2
<1>6. ASSUME NEW q \in Reqs, MarkFailed(q) \/ MarkSuccessful(q)
      PROVE  hid[r] \in DOMAIN history /\ history'[hid[r]] = history[hid[r]]
  <2>1. q # r
    BY <1>6 DEF MarkFailed, MarkSuccessful, Statement
  <2>2. history' = history \/ \E status, reason : SetStatus(hid[q], status, reason)
    BY <1>6 DEF MarkFailed, MarkSuccessful
  <2> QED
    BY <1>2, <1>5, <2>1, <2>2
<1>7. ASSUME NEW q \in Reqs, RetryWrite(q)
      PROVE  /\ hid[r] \in DOMAIN history
             /\ \/ history'[hid[r]] = history[hid[r]]
                \/ job[q].id = hid[r] /\ history'[hid[r]].status = "PENDING_RETRY"
  <2> SUFFICES ASSUME SetStatus(job[q].id, "PENDING_RETRY", "NULL")
               PROVE  /\ hid[r] \in DOMAIN history
                      /\ \/ history'[hid[r]] = history[hid[r]]
                         \/ job[q].id = hid[r] /\ history'[hid[r]].status = "PENDING_RETRY"
    BY <1>2, <1>7 DEF RetryWrite
  <2>2. /\ DOMAIN history' = DOMAIN history
        /\ \A g \in DOMAIN history :
              /\ g # job[q].id => history'[g] = history[g]
              /\ g = job[q].id => history'[g].status = "PENDING_RETRY"
    BY SetStatusEffect
  <2> QED
    BY <2>2
<1> QED
  BY <1>2, <1>3, <1>4, <1>6, <1>7, HistoryFrame

\* A retry that writes the row of a sync finds it FAILED or already retried.
LEMMA RetryRecorded ==
    ASSUME IInv, [Next]_vars, NEW r \in Reqs, hid'[r] = hid[r], hid[r] \in DOMAIN history,
           r \in applied' <=> r \in applied, NEW q \in Reqs, RetryWrite(q),
           job[q].id = hid[r], history'[hid[r]].status = "PENDING_RETRY"
    PROVE  Recorded(r)' \/ history' = history
<1> USE DEF IInv, LedgerInv
<1>1. CASE history' = history
  BY <1>1
<1>2. CASE history' # history
  <2>1. pc[q] = "retryWrite" /\ job' = job /\ pc'[q] = "retryReread"
    BY <1>2 DEF RetryWrite, Statement, Goto, ctlVars, TypeOK, ControlTypeOK
  <2>2. job[q].kind = "retry"
    BY <2>1 DEF PcInv, PcOf, RetryPcs
  <2>3. r \notin applied
    BY <2>1 DEF RetryInv, RowInv
  <2> QED
    BY <2>1, <2>2, <2>3 DEF Recorded, Retried, Retries
<1> QED
  BY <1>1, <1>2

\* Every step keeps the outcomes recorded.
LEMMA OutcomeStep ==
    ASSUME IInv, OutcomeInv, [Next]_vars
    PROVE  OutcomeInv'
<1> USE DEF IInv, LedgerInv
<1> SUFFICES ASSUME NEW r \in Reqs, Sync(r)', pc'[r] \in {"answer", "done"},
                    hid'[r] \in DOMAIN history'
             PROVE  Recorded(r)'
  BY DEF OutcomeInv
<1>1. CASE pc[r] \in {"answer", "done"}
  <2>1. /\ job'[r] = job[r] /\ hid'[r] = hid[r]
        /\ r \in applied' <=> r \in applied
        /\ r \in untold' <=> r \in untold
    BY <1>1, OverStays DEF Over, TypeOK
  <2>2. /\ hid[r] \in DOMAIN history
        /\ \/ history'[hid[r]] = history[hid[r]]
           \/ \E q \in Reqs : /\ RetryWrite(q) /\ job[q].id = hid[r]
                              /\ history'[hid[r]].status = "PENDING_RETRY"
    BY <1>1, <2>1, AnsweredRow
  <2>3. Recorded(r)
    BY <1>1, <2>1, <2>2 DEF OutcomeInv, Sync
  <2>4. CASE history'[hid[r]] = history[hid[r]]
    <3>1. Retried(r) => Retried(r)'
      BY <2>1, <2>2, RetriesStays DEF Retried
    <3> QED
      BY <2>1, <2>3, <2>4, <3>1 DEF Recorded
  <2> QED
    BY <2>1, <2>2, <2>4, RetryRecorded
<1>2. CASE pc[r] \notin {"answer", "done"}
  <2>1. MarkFailed(r) \/ MarkSuccessful(r)
    BY <1>2, AnsweredByMark DEF Sync
  <2>2. hid' = hid /\ applied' = applied
    BY <2>1 DEF MarkFailed, MarkSuccessful, txVars
  <2>3. pc[r] \in {"fail", "succeed"} /\ (pc[r] = "succeed" <=> r \in applied)
    BY <2>1 DEF MarkFailed, MarkSuccessful, Statement, AppliedInv, AppliedOf, Over
  <2>4. CASE history' = history /\ r \in untold'
    <3>1. history[hid[r]].of = r /\ hid[r] \in DOMAIN history
      BY <2>2, <2>4 DEF RowInv
    <3>2. history[hid[r]].status = "PENDING_RETRY"
      BY <2>3, <3>1 DEF StatusInv, Over, TypeOK, HistoryTypeOK, HistoryRow
    <3> QED
      BY <2>2, <2>4, <3>2 DEF Recorded
  <2>5. CASE pc[r] = "fail" /\ SetStatus(hid[r], "FAILED", "text")
    BY <2>2, <2>3, <2>5, SetStatusEffect DEF Recorded, TypeOK
  <2>6. CASE pc[r] = "succeed" /\ SetStatus(hid[r], "SUCCESSFUL", ReasonOf(hid[r]))
    BY <2>2, <2>3, <2>6, SetStatusEffect DEF Recorded, TypeOK
  <2> QED
    BY <2>1, <2>4, <2>5, <2>6 DEF MarkFailed, MarkSuccessful, Statement, Unnoticed
<1> QED
  BY <1>1, <1>2

\* An answered sync has its outcome in the ledger, whatever clients go away,
\* processes die and retries and deletes are interleaved; only an UPDATE that fails
\* leaves the row as it was.
THEOREM OutcomesAreRecorded == Spec => []OutcomeRecorded
<1>1. Init => OutcomeInv
  BY DEF Init, OutcomeInv
<1>2. IInv /\ OutcomeInv /\ [Next]_vars => OutcomeInv'
  BY OutcomeStep
<1>3. OutcomeInv => OutcomeRecorded
  BY DEF OutcomeInv, OutcomeRecorded
<1> QED
  BY <1>1, <1>2, <1>3, Invariant, PTL DEF Spec

-----------------------------------------------------------------------------
(***************************************************************************)
(* What no step does                                                       *)
(***************************************************************************)
\* A row that says SUCCESSFUL is not written again.
LEMMA SuccessFinalOne ==
    ASSUME IInv, [Next]_vars
    PROVE  SuccessFinalStep
<1> USE DEF IInv, LedgerInv
<1> SUFFICES ASSUME NEW h \in DOMAIN history, history[h].status = "SUCCESSFUL",
                    h \in DOMAIN history'
             PROVE  history'[h] = history[h]
  BY DEF SuccessFinalStep
<1>1. history[h].of \in applied /\ pc[history[h].of] \in Over
  BY DEF StatusInv
<1>2. ASSUME NEW g, NEW status, NEW reason, SetStatus(g, status, reason), g # h
      PROVE  history'[h] = history[h]
  BY <1>2, SetStatusEffect DEF TypeOK
<1>3. ASSUME NEW r \in Reqs, CreatePending(r)
      PROVE  history'[h] = history[h]
  BY <1>3, CreateEffect
<1>4. ASSUME NEW r \in Reqs, DeleteHistory(r)
      PROVE  history'[h] = history[h]
  BY <1>4, DeleteRows
<1>5. ASSUME NEW r \in Reqs, MarkFailed(r) \/ MarkSuccessful(r)
      PROVE  history'[h] = history[h]
  <2>1. pc[r] \in {"fail", "succeed"}
    BY <1>5 DEF MarkFailed, MarkSuccessful, Statement
  <2>2. hid[r] # h
    BY <1>1, <2>1 DEF RowInv, Over
  <2> QED
    BY <1>2, <1>5, <2>2 DEF MarkFailed, MarkSuccessful
<1>6. ASSUME NEW r \in Reqs, RetryWrite(r)
      PROVE  history'[h] = history[h]
  <2>1. pc[r] = "retryWrite"
    BY <1>6 DEF RetryWrite, Statement
  <2>2. job[r].id # h
    BY <1>1, <2>1 DEF RetryInv
  <2> QED
    BY <1>2, <1>6, <2>2 DEF RetryWrite
<1> QED
  BY <1>3, <1>4, <1>5, <1>6, HistoryFrame

\* SUCCESSFUL is final.
THEOREM SuccessIsFinal == Spec => SuccessFinal
<1>1. IInv /\ [Next]_vars => [SuccessFinalStep]_vars
  BY SuccessFinalOne
<1> QED
  BY <1>1, Invariant, PTL DEF Spec, SuccessFinal

\* The probe's INSERT and DELETE touch no customer but the probe's own.
LEMMA ProbeWriteOnly ==
    ASSUME IInv, NEW r \in Reqs, ProbeWrite(r) \/ ProbeCleanUp(r), tabs' # tabs
    PROVE  ProbeOnly(r)
<1> USE DEF IInv, LedgerInv
<1>0. "customers" \in Models /\ "customers" \in AutoModels /\ IsTables(tabs)
  BY DEF Models, AutoModels, TypeOK, StoreTypeOK
<1>1. job[r].kind = "health"
  BY DEF ProbeWrite, ProbeCleanUp, Statement, PcInv, PcOf, HealthPcs
<1>2. CASE tabs' = ProbeInsert(tabs, r) /\ ProbeInsertError(tabs, r) = 0
  <2> DEFINE id == TargetId(tabs, "customers", ProbeItem(r))
  <2>1. \A m \in Models : tabs'.rows[m] =
            IF m = "customers" THEN Put(Customers(tabs), id, [key |-> r, by |-> r])
                               ELSE tabs.rows[m]
    BY <1>0, <1>2, SaveEffect DEF ProbeInsert, Customers
  <2>2. id \notin DOMAIN Customers(tabs)
    <3>1. id = tabs.seq["customers"] + 1
      BY DEF TargetId, ProbeItem
    <3>2. \A i \in DOMAIN Customers(tabs) : i <= tabs.seq["customers"] /\ i \in Ids
      BY <1>0 DEF TablesInv, SequenceAhead, Customers, IsTables, IsTable
    <3>3. tabs.seq["customers"] \in Int /\ Ids \subseteq Int
      BY <1>0 DEF IsTables, Ids
    <3> QED
      BY <3>1, <3>2, <3>3
  <2> HIDE DEF id
  <2>3. Customers(tabs') = Put(Customers(tabs), id, [key |-> r, by |-> r])
    BY <1>0, <2>1 DEF Customers
  <2>4. /\ DOMAIN Customers(tabs') = DOMAIN Customers(tabs) \cup {id}
        /\ \A i \in DOMAIN Customers(tabs) : Customers(tabs')[i] = Customers(tabs)[i]
        /\ Customers(tabs')[id].key = r
    BY <2>2, <2>3 DEF Put
  <2> QED
    BY <1>1, <2>1, <2>4 DEF ProbeOnly
<1>3. CASE tabs' = ProbeDelete(tabs, r)
  <2>1. \A m \in Models : tabs'.rows[m] =
            IF m = "customers" THEN Without(Customers(tabs), ProbeIds(tabs, r))
                               ELSE tabs.rows[m]
    BY <1>0, <1>3 DEF ProbeDelete, IsTables
  <2>2. Customers(tabs') = Without(Customers(tabs), ProbeIds(tabs, r))
    BY <1>0, <2>1 DEF Customers
  <2>3. /\ DOMAIN Customers(tabs') = DOMAIN Customers(tabs) \ ProbeIds(tabs, r)
        /\ \A i \in DOMAIN Customers(tabs') : Customers(tabs')[i] = Customers(tabs)[i]
    BY <2>2 DEF Without
  <2>4. \A i \in DOMAIN Customers(tabs) :
            Customers(tabs)[i].key # r => i \in DOMAIN Customers(tabs')
    BY <2>3 DEF ProbeIds
  <2> QED
    BY <1>1, <2>1, <2>3, <2>4 DEF ProbeOnly
<1> QED
  BY <1>2, <1>3 DEF ProbeWrite, ProbeCleanUp

\* A commit installs the result of running the whole batch.
LEMMA AtomicBatchOne ==
    ASSUME IInv, [Next]_vars
    PROVE  AtomicBatchStep
<1> SUFFICES ASSUME tabs' # tabs
             PROVE  \E r \in Reqs : WholeBatch(r) \/ ProbeOnly(r)
  BY DEF AtomicBatchStep
<1>1. PICK r \in Reqs : Commit(r) \/ ProbeWrite(r) \/ ProbeCleanUp(r)
  BY StoreFrame DEF Begin, ItemSaved, ItemRejected, CommitFails, AwaitDone, Crash, Rollback
<1>2. CASE Commit(r)
  <2>1. conn = r /\ pc[r] = "commit" /\ tabs' = work[Len(work)]
    BY <1>2 DEF Commit
  <2>2. /\ Len(work) = Len(job[r].items) + 1
        /\ work[1] = tabs
        /\ \A k \in 1 .. Len(work) - 1 : RanItem(work[k], r, k, work[k + 1])
    BY <2>1, FreeAssumption DEF IInv, TxInv
  <2>3. Len(job[r].items) \in Nat
    BY JobType DEF IInv, TypeOK, Job
  <2>4. Len(work) - 1 = Len(job[r].items)
    BY <2>2, <2>3
  <2> QED
    BY <2>1, <2>2, <2>4 DEF WholeBatch
<1>3. CASE ProbeWrite(r) \/ ProbeCleanUp(r)
  BY <1>3, ProbeWriteOnly
<1> QED
  BY <1>1, <1>2, <1>3

\* Batches are atomic and isolated.
THEOREM BatchesAreAtomic == Spec => AtomicBatches
<1>1. IInv /\ [Next]_vars => [AtomicBatchStep]_vars
  BY AtomicBatchOne
<1> QED
  BY <1>1, Invariant, PTL DEF Spec, AtomicBatches

-----------------------------------------------------------------------------
(***************************************************************************)
(* The service implements the abstract ledger                              *)
(***************************************************************************)
\* The steps of the handlers that write the ledger or decide a batch, and that
\* every other step leaves the abstract state alone.
LEMMA LedgerStep ==
    ASSUME IInv, [Next]_vars
    PROVE  [Ledger!LedgerNext]_(Ledger!ledgerVars)
<1> USE DEF IInv, LedgerInv
<1>0. \A h \in DOMAIN history : history[h].of \in Reqs /\ history[h].status \in Ledger!Statuses
  BY DEF TypeOK, HistoryTypeOK, HistoryRow, Ledger!Statuses
<1>s. ASSUME \A q \in Reqs : AttemptOf(q)' = AttemptOf(q) /\ RowOf(q)' = RowOf(q)
      PROVE  UNCHANGED Ledger!ledgerVars
  BY <1>s DEF Ledger!ledgerVars
<1>a. ASSUME UNCHANGED <<hid, history>>
      PROVE  \A q \in Reqs : RowOf(q)' = RowOf(q)
  BY <1>a DEF RowOf
\* One attempt, or all that run, are given up.
<1>d. ASSUME NEW lost \in SUBSET Reqs, UNCHANGED <<hid, history>>, applied' = applied,
             \A q \in lost : AttemptOf(q) = "running" /\ AttemptOf(q)' = "dead",
             \A q \in Reqs \ lost : AttemptOf(q)' = AttemptOf(q)
      PROVE  [Ledger!LedgerNext]_(Ledger!ledgerVars)
  <2>1. \A q \in Reqs : RowOf(q)' = RowOf(q)
    BY <1>a, <1>d
  <2>2. CASE lost = {}
    BY <1>d, <1>s, <2>1, <2>2
  <2>3. CASE lost # {}
    <3>1. Ledger!Die(lost)
      BY <1>d, <2>1, <2>3 DEF Ledger!Die
    <3> QED
      BY <3>1 DEF Ledger!LedgerNext
  <2> QED
    BY <2>2, <2>3
<1>1. CASE UNCHANGED vars \/ Finished \/ Recycle
  <2>1. pc' = pc /\ hid' = hid /\ history' = history /\ applied' = applied
    BY <1>1 DEF vars, Finished, Recycle, ctlVars, hisVars, txVars
  <2> QED
    BY <1>s, <2>1 DEF AttemptOf, RowOf
<1>2. CASE Crash
  <2>1. hid' = hid /\ history' = history /\ applied' = applied
        /\ pc' = [r \in Reqs |-> IF pc[r] \in RestPcs THEN pc[r] ELSE "lost"]
    BY <1>2 DEF Crash, Rollback, ctlVars, hisVars
  <2> DEFINE lost == {q \in Reqs : AttemptOf(q) = "running"}
  <2>2. \A q \in lost : AttemptOf(q) = "running" /\ AttemptOf(q)' = "dead"
    BY <2>1 DEF AttemptOf, RestPcs
  <2>3. \A q \in Reqs \ lost : AttemptOf(q)' = AttemptOf(q)
    BY <2>1 DEF AttemptOf, RestPcs
  <2>4. lost \in SUBSET Reqs
    OBVIOUS
  <2> HIDE DEF lost
  <2> QED
    BY <1>d, <2>1, <2>2, <2>3, <2>4
\* What the others see of a request does not change when r moves.
<1>o. ASSUME NEW r \in Reqs, Arrive(r) \/ Step(r) \/ ClientGone(r) \/ AwaitDone(r),
             NEW q \in Reqs, q # r
      PROVE  AttemptOf(q)' = AttemptOf(q)
  BY <1>o, OneMoves DEF AttemptOf, TypeOK
<1>3. ASSUME NEW r \in Reqs, Arrive(r) \/ ClientGone(r) \/ AwaitDone(r)
      PROVE  UNCHANGED Ledger!ledgerVars
  <2>1. hid' = hid /\ history' = history /\ applied' = applied
    BY <1>3 DEF Arrive, ClientGone, AwaitDone, Rollback, ctlVars, hisVars, txVars
  <2>2. pc' = pc \/ hid[r] = NoId
    BY <1>3 DEF Arrive, ClientGone, AwaitDone, PcInv, PcOf
  <2>3. AttemptOf(r)' = AttemptOf(r)
    BY <2>1, <2>2 DEF AttemptOf
  <2> QED
    BY <1>3, <1>a, <1>o, <1>s, <2>1, <2>3
<1>4. ASSUME NEW r \in Reqs, CreatePending(r)
      PROVE  Ledger!Open(r)
  <2>1. /\ histSeq \in Nat
        /\ DOMAIN history \subseteq 1 .. histSeq
        /\ DOMAIN history' = DOMAIN history \cup {histSeq + 1}
        /\ \A h \in DOMAIN history : history'[h] = history[h]
        /\ history'[histSeq + 1].status = "PENDING_RETRY"
        /\ hid'[r] = histSeq + 1
        /\ \A q \in Reqs \ {r} : hid'[q] = hid[q]
    BY <1>4, CreateEffect DEF TypeOK
  <2>2. pc[r] = "pending" /\ pc'[r] = "begin" /\ applied' = applied
    BY <1>4 DEF CreatePending, Statement, Goto, txVars, TypeOK, ControlTypeOK
  <2>3. hid[r] = NoId /\ r \notin applied
    BY <2>2 DEF PcInv, PcOf, AppliedInv, AppliedOf, Over
  <2>4. AttemptOf(r) = "none" /\ AttemptOf(r)' = "running" /\ RowOf(r)' = "PENDING_RETRY"
    <3>1. histSeq + 1 # NoId
      BY <2>1 DEF NoId
    <3> QED
      BY <2>1, <2>2, <2>3, <3>1 DEF AttemptOf, RowOf
  <2>5. \A q \in Reqs \ {r} : AttemptOf(q)' = AttemptOf(q)
    BY <1>4, <1>o DEF Step
  <2>6. \A q \in Reqs \ {r} : RowOf(q)' = RowOf(q)
    <3> SUFFICES ASSUME NEW q \in Reqs \ {r}
                 PROVE  RowOf(q)' = RowOf(q)
      OBVIOUS
    <3>1. hid[q] \in 0 .. MaxHistory /\ hid[q] <= histSeq
      BY DEF RowInv, TypeOK, ControlTypeOK
    <3>2. hid[q] # histSeq + 1
      BY <2>1, <3>1, HistoryAssumption
    <3> QED
      BY <2>1, <3>2 DEF RowOf
  <2> QED
    BY <2>4, <2>5, <2>6 DEF Ledger!Open
<1>5. ASSUME NEW r \in Reqs,
             \/ CreatePendingFails(r) \/ Begin(r) \/ ItemSaved(r)
             \/ RetryRead(r) \/ RetryReread(r)
             \/ ProbeRead(r) \/ ProbeWrite(r) \/ ProbeCleanUp(r)
      PROVE  UNCHANGED Ledger!ledgerVars
  <2>1. hid' = hid /\ history' = history /\ applied' = applied
    BY <1>5 DEF CreatePendingFails, Begin, ItemSaved, RetryRead, RetryReread, ProbeRead,
       ProbeWrite, ProbeCleanUp, HistoryUntouched, ctlVars, hisVars, txVars
  <2>2. ASSUME Begin(r) \/ ItemSaved(r)
        PROVE  AttemptOf(r)' = AttemptOf(r)
    <3>1. pc[r] \in {"begin", "items"} /\ pc'[r] \in {"items", "commit"}
      BY <2>2 DEF Begin, ItemSaved, Statement, Goto, TypeOK, ControlTypeOK
    <3> QED
      BY <2>1, <3>1 DEF AttemptOf
  <2>3. ASSUME ~(Begin(r) \/ ItemSaved(r))
        PROVE  AttemptOf(r)' = AttemptOf(r)
    <3>1. pc[r] = "pending" \/ pc[r] \in RetryPcs \cup HealthPcs
      BY <1>5, <2>3 DEF CreatePendingFails, RetryRead, RetryReread, ProbeRead,
         ProbeWrite, ProbeCleanUp, Statement, RetryPcs, HealthPcs
    <3>2. hid[r] = NoId
      BY <3>1 DEF PcInv, PcOf
    <3> QED
      BY <2>1, <3>2 DEF AttemptOf
  <2>4. AttemptOf(r)' = AttemptOf(r)
    BY <2>2, <2>3
  <2>5. Step(r)
    BY <1>5 DEF Step
  <2> QED
    BY <1>a, <1>o, <1>s, <2>1, <2>4, <2>5
<1>5a. ASSUME NEW r \in Reqs, Respond(r)
       PROVE  UNCHANGED Ledger!ledgerVars
  <2>1. /\ hid' = hid /\ history' = history /\ applied' = applied
        /\ pc[r] = "answer" /\ pc'[r] = "done" /\ Step(r)
    BY <1>5a DEF Respond, Step, Goto, ctlVars, hisVars, txVars, TypeOK, ControlTypeOK
  <2>2. AttemptOf(r)' = AttemptOf(r)
    BY <2>1 DEF AttemptOf
  <2> QED
    BY <1>a, <1>o, <1>s, <2>1, <2>2
<1>6. ASSUME NEW r \in Reqs,
             \/ BeginFails(r) \/ ItemRejected(r) \/ ItemAfterRollback(r)
             \/ CommitFails(r) \/ CommitCancelled(r)
      PROVE  [Ledger!LedgerNext]_(Ledger!ledgerVars)
  <2>1. /\ hid' = hid /\ history' = history /\ applied' = applied
        /\ pc[r] \in {"begin", "items", "commit"} /\ pc'[r] = "fail"
    BY <1>6 DEF BeginFails, ItemRejected, ItemAfterRollback, CommitFails, CommitCancelled,
       Rollback, GotoWith, ctlVars, hisVars, txVars, TypeOK, ControlTypeOK
  <2>2. hid[r] # NoId /\ r \notin applied
    BY <2>1 DEF PcInv, PcOf, AppliedInv, AppliedOf, Running, Over
  <2>3. AttemptOf(r) = "running" /\ AttemptOf(r)' = "dead"
    BY <2>1, <2>2 DEF AttemptOf
  <2>4. Step(r)
    BY <1>6 DEF Step
  <2>5. \A q \in Reqs \ {r} : AttemptOf(q)' = AttemptOf(q)
    BY <1>o, <2>4
  <2>6. {r} \in SUBSET Reqs
    OBVIOUS
  <2> QED
    BY <1>d, <2>1, <2>3, <2>5, <2>6
<1>7. ASSUME NEW r \in Reqs, Commit(r)
      PROVE  Ledger!Apply(r)
  <2>1. /\ hid' = hid /\ history' = history /\ applied' = applied \cup {r}
        /\ pc[r] = "commit" /\ pc'[r] = "succeed"
    BY <1>7 DEF Commit, Goto, ctlVars, hisVars, TypeOK, ControlTypeOK
  <2>2. hid[r] # NoId /\ r \notin applied
    BY <2>1 DEF PcInv, PcOf, AppliedInv, AppliedOf, Running, Over
  <2>3. AttemptOf(r) = "running" /\ AttemptOf(r)' = "applied"
    BY <2>1, <2>2 DEF AttemptOf
  <2>4. \A q \in Reqs \ {r} : AttemptOf(q)' = AttemptOf(q)
    BY <1>7, <1>o DEF Step
  <2>5. \A q \in Reqs : RowOf(q)' = RowOf(q)
    BY <1>a, <2>1
  <2> QED
    BY <2>3, <2>4, <2>5 DEF Ledger!Apply
\* The rows that a statement on row g leaves alone.
<1>g. ASSUME NEW g, NEW status, NEW reason, SetStatus(g, status, reason), hid' = hid,
             NEW q \in Reqs, hid[q] # g \/ g \notin DOMAIN history
      PROVE  RowOf(q)' = RowOf(q)
  <2>1. /\ DOMAIN history' = DOMAIN history
        /\ \A h \in DOMAIN history : h # g => history'[h] = history[h]
    BY <1>g, SetStatusEffect DEF TypeOK
  <2> QED
    BY <1>g, <2>1 DEF RowOf
<1>h. ASSUME NEW r \in Reqs, hid[r] \in DOMAIN history
      PROVE  /\ RowOf(r) = history[hid[r]].status
             /\ \A q \in Reqs \ {r} : hid[q] # hid[r]
  <2>1. hid[r] # NoId
    BY <1>h DEF TypeOK, HistoryTypeOK, NoId
  <2> QED
    BY <1>h, <2>1 DEF RowOf, RowInv
<1>8. ASSUME NEW r \in Reqs, NEW outcome, NEW status, NEW reason,
             Step(r), SetStatus(hid[r], status, reason), hid' = hid,
             hid[r] # NoId, hid[r] \in DOMAIN history,
             pc[r] \notin Over,
             AttemptOf(r) = outcome, AttemptOf(r)' = outcome
      PROVE  Ledger!Report(r, outcome, status)
  <2>1. history[hid[r]].of = r
    BY <1>8 DEF RowInv
  <2>2. history[hid[r]].status = "PENDING_RETRY"
    BY <1>0, <1>8, <2>1 DEF StatusInv, Ledger!Statuses
  <2>3. /\ DOMAIN history' = DOMAIN history
        /\ history'[hid[r]].status = status
    BY <1>8, SetStatusEffect DEF TypeOK
  <2>4. RowOf(r) = "PENDING_RETRY" /\ RowOf(r)' = status
    BY <1>8, <2>2, <2>3 DEF RowOf
  <2>5. \A q \in Reqs \ {r} : RowOf(q)' = RowOf(q)
    BY <1>8, <1>g, <1>h
  <2>6. \A q \in Reqs \ {r} : AttemptOf(q)' = AttemptOf(q)
    BY <1>8, <1>o
  <2> QED
    BY <1>8, <2>4, <2>5, <2>6 DEF Ledger!Report
<1>9. ASSUME NEW r \in Reqs, MarkFailed(r) \/ MarkSuccessful(r)
      PROVE  [Ledger!LedgerNext]_(Ledger!ledgerVars)
  <2>1. /\ hid' = hid /\ applied' = applied /\ pc'[r] = "answer" /\ Step(r)
        /\ (MarkFailed(r) /\ pc[r] = "fail") \/ (MarkSuccessful(r) /\ pc[r] = "succeed")
    BY <1>9 DEF MarkFailed, MarkSuccessful, Step, Statement, Goto, GotoWith,
       txVars, TypeOK, ControlTypeOK
  <2>2. hid[r] # NoId /\ pc[r] \notin Over
    BY <2>1 DEF PcInv, PcOf, Running, Over
  <2>3. /\ pc[r] = "fail" => AttemptOf(r) = "dead" /\ AttemptOf(r)' = "dead"
        /\ pc[r] = "succeed" => AttemptOf(r) = "applied" /\ AttemptOf(r)' = "applied"
    BY <2>1, <2>2 DEF AttemptOf, AppliedInv, AppliedOf, Over
  <2>4. AttemptOf(r)' = AttemptOf(r)
    BY <2>1, <2>3
  <2>5. CASE history' = history
    BY <1>a, <1>o, <1>s, <2>1, <2>4, <2>5
  <2>6. CASE hid[r] \notin DOMAIN history
    <3>1. history' = history
      BY <1>9, <2>6 DEF MarkFailed, MarkSuccessful, SetStatus
    <3> QED
      BY <2>5, <3>1
  <2>7. CASE hid[r] \in DOMAIN history /\ MarkFailed(r) /\ history' # history
    <3>1. SetStatus(hid[r], "FAILED", "text") /\ pc[r] = "fail"
      BY <2>7 DEF MarkFailed, Statement
    <3>2. Ledger!Fail(r)
      BY <1>8, <2>1, <2>2, <2>3, <2>7, <3>1 DEF Ledger!Fail
    <3> QED
      BY <3>2 DEF Ledger!LedgerNext
  <2>8. CASE hid[r] \in DOMAIN history /\ MarkSuccessful(r) /\ history' # history
    <3>1. SetStatus(hid[r], "SUCCESSFUL", ReasonOf(hid[r])) /\ pc[r] = "succeed"
      BY <2>8 DEF MarkSuccessful, Statement
    <3>2. Ledger!Succeed(r)
      BY <1>8, <2>1, <2>2, <2>3, <2>8, <3>1 DEF Ledger!Succeed
    <3> QED
      BY <3>2 DEF Ledger!LedgerNext
  <2> QED
    BY <1>9, <2>5, <2>6, <2>7, <2>8
<1>10. ASSUME NEW r \in Reqs, RetryWrite(r) \/ DeleteHistory(r)
       PROVE  \A q \in Reqs : AttemptOf(q)' = AttemptOf(q)
  <2>1. Step(r) /\ hid' = hid /\ pc[r] \in RetryPcs \cup {"delete"}
    BY <1>10 DEF RetryWrite, DeleteHistory, Step, Statement, ctlVars, RetryPcs
  <2>2. hid[r] = NoId
    BY <2>1 DEF PcInv, PcOf
  <2>3. AttemptOf(r)' = AttemptOf(r)
    BY <2>1, <2>2 DEF AttemptOf
  <2> QED
    BY <1>o, <2>1, <2>3
<1>11. ASSUME NEW r \in Reqs, RetryWrite(r)
       PROVE  [Ledger!LedgerNext]_(Ledger!ledgerVars)
  <2>1. hid' = hid
    BY <1>11 DEF RetryWrite, ctlVars
  <2>2. CASE history' = history
    BY <1>a, <1>s, <1>10, <1>11, <2>1, <2>2
  <2>3. CASE history' # history
    <3>0. PICK g : g = job[r].id
      OBVIOUS
    <3>1. SetStatus(g, "PENDING_RETRY", "NULL") /\ g \in DOMAIN history
      BY <1>11, <2>3, <3>0 DEF RetryWrite, SetStatus
    <3>a. PICK a : a = history[g].of
      OBVIOUS
    <3>2. a \in Reqs /\ hid[a] = g /\ a \notin applied
      BY <1>0, <1>11, <3>0, <3>1, <3>a DEF RowInv, RetryInv, RetryWrite, Statement
    <3>3. history[g].status \in {"FAILED", "PENDING_RETRY"}
      BY <1>0, <3>1, <3>2, <3>a DEF StatusInv, Ledger!Statuses
    <3>4. RowOf(a) = history[g].status
      BY <1>h, <3>1, <3>2
    <3>5. RowOf(a)' = "PENDING_RETRY"
      <4>1. g \in DOMAIN history' /\ history'[g].status = "PENDING_RETRY"
        BY <3>1, SetStatusEffect DEF TypeOK
      <4>2. hid[a] # NoId
        BY <3>1, <3>2 DEF TypeOK, HistoryTypeOK, NoId
      <4> QED
        BY <2>1, <3>2, <4>1, <4>2 DEF RowOf
    <3>6. \A q \in Reqs \ {a} : RowOf(q)' = RowOf(q)
      BY <1>g, <1>h, <2>1, <3>1, <3>2
    <3>7. CASE history[g].status = "PENDING_RETRY"
      BY <1>s, <1>10, <1>11, <3>4, <3>5, <3>6, <3>7
    <3>8. CASE history[g].status = "FAILED"
      <4>1. \A q \in Reqs : AttemptOf(q)' = AttemptOf(q)
        BY <1>10, <1>11
      <4>2. Ledger!Requeue(a)
        BY <3>2, <3>4, <3>5, <3>6, <3>8, <4>1 DEF Ledger!Requeue
      <4> QED
        BY <3>2, <4>2 DEF Ledger!LedgerNext
    <3> QED
      BY <3>3, <3>7, <3>8
  <2> QED
    BY <2>2, <2>3
<1>12. ASSUME NEW r \in Reqs, DeleteHistory(r)
       PROVE  [Ledger!LedgerNext]_(Ledger!ledgerVars)
  <2>1. /\ hid' = hid
        /\ \/ history' = history
           \/ /\ DOMAIN history' = DOMAIN history \ {job[r].id}
              /\ \A h \in DOMAIN history' : history'[h] = history[h]
    BY <1>12, DeleteEffect
  <2>2. CASE history' = history \/ job[r].id \notin DOMAIN history
    <3>1. \A q \in Reqs : RowOf(q)' = RowOf(q)
      BY <2>1, <2>2 DEF RowOf
    <3> QED
      BY <1>s, <1>10, <1>12, <3>1
  <2>3. CASE history' # history /\ job[r].id \in DOMAIN history
    <3>0. PICK g : g = job[r].id
      OBVIOUS
    <3>a. PICK a : a = history[g].of
      OBVIOUS
    <3>1. a \in Reqs /\ hid[a] = g /\ g \in DOMAIN history /\ g # NoId
          /\ history[g].status \in Ledger!Statuses
      BY <1>0, <2>3, <3>0, <3>a DEF RowInv, TypeOK, HistoryTypeOK, NoId
    <3>2. DOMAIN history' = DOMAIN history \ {g}
          /\ \A h \in DOMAIN history' : history'[h] = history[h]
      BY <2>1, <2>3, <3>0
    <3>3. RowOf(a) = history[g].status /\ \A q \in Reqs \ {a} : hid[q] # g
      BY <1>h, <3>1
    <3>4. RowOf(a)' = "deleted"
      BY <2>1, <3>1, <3>2 DEF RowOf
    <3>5. \A q \in Reqs \ {a} : RowOf(q)' = RowOf(q)
      BY <2>1, <3>2, <3>3 DEF RowOf
    <3>6. \A q \in Reqs : AttemptOf(q)' = AttemptOf(q)
      BY <1>10, <1>12
    <3>7. Ledger!Delete(a)
      BY <3>1, <3>3, <3>4, <3>5, <3>6 DEF Ledger!Delete
    <3> QED
      BY <3>1, <3>7 DEF Ledger!LedgerNext
  <2> QED
    BY <2>2, <2>3
<1>13. ASSUME NEW r \in Reqs, Ledger!Open(r) \/ Ledger!Apply(r)
       PROVE  Ledger!LedgerNext
  BY <1>13 DEF Ledger!LedgerNext
<1> QED
  BY <1>1, <1>2, <1>3, <1>4, <1>5, <1>5a, <1>6, <1>7, <1>9, <1>11, <1>12, <1>13
  DEF Next, Step

\* The Go service implements the abstract ledger.
THEOREM Refinement == Spec => ImplementsLedger
<1>1. Init => Ledger!LedgerInit
  BY DEF Init, Ledger!LedgerInit, AttemptOf, RowOf
<1>2. IInv /\ [Next]_vars => [Ledger!LedgerNext]_(Ledger!ledgerVars)
  BY LedgerStep
<1> QED
  BY <1>1, <1>2, Invariant, PTL DEF Spec, ImplementsLedger, Ledger!LedgerSpec
==============================================================================
