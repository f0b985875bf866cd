------------------------------ MODULE MCGoSync ------------------------------
(***************************************************************************)
(* Instances of GoSync for TLC.                                            *)
(***************************************************************************)
EXTENDS GoSyncProps

CONSTANTS n1, n2

\* Items
NewRow(key)       == [valid |-> TRUE, id |-> NoId, key |-> key, cust |-> 1,
                      amount |-> {}, hasItems |-> FALSE, items |-> << >>]
WithId(item, i)   == [item EXCEPT !.id = i]
Broken(item)      == [item EXCEPT !.valid = FALSE]
ForAmount(key, c, a) == [NewRow(key) EXCEPT !.cust = c, !.amount = {a}]
ForLines(key, c, ls) == [NewRow(key) EXCEPT !.cust = c, !.hasItems = TRUE,
                                            !.items = ls]
Line(p, q, u) == [product |-> p, qty |-> q, price |-> u, valid |-> TRUE]

\* Jobs
SyncJob(model, items) ==
    [NoJob EXCEPT !.kind = "sync", !.valid = TRUE, !.model = model, !.items = items]
RetryJob(i)  == [NoJob EXCEPT !.kind = "retry", !.valid = TRUE, !.id = i]
DeleteJob(i) == [NoJob EXCEPT !.kind = "delete", !.valid = TRUE, !.id = i]
HealthJob    == [NoJob EXCEPT !.valid = TRUE]
BadBody      == [SyncJob("customers", << >>) EXCEPT !.valid = FALSE]
BadId        == [RetryJob(NoId) EXCEPT !.valid = FALSE]

\* The ledger protocol: a batch of two, the same batch with a bad second item,
\* and the operations on the first row.
ProtocolJobs ==
    { SyncJob("customers", <<NewRow(n1), NewRow(n2)>>),
      SyncJob("customers", <<NewRow(n1), Broken(NewRow(n2))>>),
      RetryJob(1), DeleteJob(1), BadBody, BadId }

\* One batch that can be applied and one that cannot, and a retry.
FewJobs ==
    { SyncJob("customers", <<NewRow(n1)>>), SyncJob("customers", <<Broken(NewRow(n1))>>),
      RetryJob(1) }

\* The target tables: each kind of item, upserts that meet automatic ids, the
\* last rowid, batches that fail half-way, and health probes in between.
DataJobs ==
    { SyncJob("customers", <<WithId(NewRow(n1), 2)>>),
      SyncJob("customers", <<NewRow(n2), WithId(NewRow(n1), 1)>>),
      SyncJob("products", <<NewRow(n1), WithId(NewRow(n2), 1)>>),
      SyncJob("orders", <<ForLines(n1, 2, <<Line(1, 2, 3)>>)>>),
      SyncJob("orders", <<WithId(ForAmount(n1, 1, 5), 1)>>),
      SyncJob("employees", <<NewRow(n1), WithId(NewRow(n2), 1)>>),
      HealthJob }

\* A health probe and an order for the customer id the probe is given.
ProbeJobs == { HealthJob, SyncJob("orders", <<ForAmount(n1, 1, 5)>>) }

\* A batch that fails, and its retry.
RetryJobs == { SyncJob("customers", <<Broken(NewRow(n1))>>), RetryJob(1) }

Symmetry == Permutations(Reqs)
=============================================================================
