----------------------------- MODULE SyncLedger -----------------------------
(***************************************************************************)
(* What the synchronisation ledger promises, whatever the implementation:  *)
(* every attempt to apply a batch opens a row before it starts, the        *)
(* attempt is applied as a whole or not at all, and the row only ever      *)
(* reports what really happened to its attempt.                            *)
(*                                                                         *)
(* The statuses and the operations are those of the sync_history table     *)
(* (internal/handlers/sync.go and history.go of the Go service; the other  *)
(* services keep the same table).                                          *)
(***************************************************************************)
CONSTANT Attempts       \* identities of the attempts, one per POST /sync

VARIABLES attempt,      \* attempt[a]: how far the batch of a got
          row           \* row[a]: the ledger row of a, as a reader sees it

ledgerVars == <<attempt, row>>

Statuses == {"PENDING_RETRY", "SUCCESSFUL", "FAILED"}

LedgerTypeOK ==
    /\ attempt \in [Attempts -> {"none", "running", "applied", "dead"}]
    /\ row \in [Attempts -> Statuses \cup {"none", "deleted"}]

LedgerInit ==
    /\ attempt = [a \in Attempts |-> "none"]
    /\ row = [a \in Attempts |-> "none"]

-----------------------------------------------------------------------------
\* The row is durable before the batch starts.
Open(a) ==
    /\ attempt[a] = "none"
    /\ attempt' = [attempt EXCEPT ![a] = "running"]
    /\ row' = [row EXCEPT ![a] = "PENDING_RETRY"]

\* The whole batch becomes visible.
Apply(a) ==
    /\ attempt[a] = "running"
    /\ attempt' = [attempt EXCEPT ![a] = "applied"]
    /\ row' = row

\* Attempts are given up, leaving no trace in the tables: one by an error or a
\* lost client, all that are running by a crash.
Die(lost) ==
    /\ lost # {}
    /\ \A a \in lost : attempt[a] = "running"
    /\ attempt' = [a \in Attempts |-> IF a \in lost THEN "dead" ELSE attempt[a]]
    /\ row' = row

Report(a, outcome, status) ==
    /\ attempt[a] = outcome
    /\ row[a] = "PENDING_RETRY"
    /\ row' = [row EXCEPT ![a] = status]
    /\ attempt' = attempt

\* Only the row of an applied batch ever says SUCCESSFUL.
Succeed(a) == Report(a, "applied", "SUCCESSFUL")

\* Only the row of a batch that left no trace ever says FAILED.
Fail(a) == Report(a, "dead", "FAILED")

\* POST /sync-history/retry/:id
Requeue(a) ==
    /\ row[a] = "FAILED"
    /\ row' = [row EXCEPT ![a] = "PENDING_RETRY"]
    /\ attempt' = attempt

\* DELETE /sync-history/:id
Delete(a) ==
    /\ row[a] \in Statuses
    /\ row' = [row EXCEPT ![a] = "deleted"]
    /\ attempt' = attempt

LedgerNext ==
    \/ \E a \in Attempts : Open(a) \/ Apply(a) \/ Succeed(a) \/ Fail(a)
                           \/ Requeue(a) \/ Delete(a)
    \/ \E lost \in SUBSET Attempts : Die(lost)

LedgerSpec == LedgerInit /\ [][LedgerNext]_ledgerVars
=============================================================================
