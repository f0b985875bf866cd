# Sync Bridge: TLA+ models, checks and proofs

Sync Bridge is a monorepo of eight services (Go, Java, Rust, FastAPI, Django,
NestJS, Express, C#) that implement the same API: clients post batches of
customers, products, orders or employees, the service applies each batch to its
database and keeps a ledger, `sync_history`, of every attempt. This directory
holds a TLA+ model of the system, the TLC configurations that check it on small
instances, and TLAPS proofs, for instances of any size, of all the safety
properties but one.

The Go service is modelled as a whole, from the configuration and the shutdown of
its process to the fields of a GraphQL response. The ledger protocol that all the
services share is stated as an abstract specification of its own (`SyncLedger`),
which the Go service is proved to implement. Of the other services the Java one,
whose ledger protocol differs most, has a model of its sync and its history.

- [The system](#the-system)
- [The modules](#the-modules)
- [What the runs check](#what-the-runs-check)
- [Findings](#findings)
- [What is proved](#what-is-proved)
- [What is not modelled](#what-is-not-modelled)
- [Plan](#plan)
- [Running it](#running-it)

## The system

### Parts, state and operations

| Part | State | Operations |
| --- | --- | --- |
| Sync handler (`handlers/sync.go`) | target tables; an open transaction; one ledger row per request | `POST /sync`: insert the ledger row, begin, process each item, commit or roll back, update the row |
| History handlers (`handlers/history.go`) | `sync_history` | list by page, read one row, statistics, `POST retry/:id` (`FAILED` to `PENDING_RETRY`), `DELETE :id` |
| Health check (`handlers/health.go`) | a probe row in `customers` | read, insert a probe customer, delete it |
| Database (`db/db.go`, `001_init.sql`) | one pooled connection, its pragmas, `sqlite_sequence` | set-up; replacement of the connection after an hour |
| GraphQL resolvers (`graph/schema.resolvers.go`) | `employees` | create, update (read, merge, write, read), delete; find one, list, search |
| GraphQL execution (`graph/generated.go`) | the fields of an operation under way | unmarshal arguments, resolve the root fields in order or at once, marshal, count nulls, respond |
| Employee broker (`graph/resolver.go`) | map of subscriber channels under a mutex | subscribe, unsubscribe, publish |
| Process (`cmd/server/main.go`, `config.go`) | configuration, listener, database handle, connections | load, open, listen, wait for a signal, shut down in five seconds |
| Authentication (`middleware.go`) | none | admit or refuse a request |
| DTOs and errors (`dto.go`, `errors.go`) | none | validation, mapping of database errors to status codes |
| Request ids, metrics, Swagger, playground | none shared with the handlers | |
| Java service (`SyncService`, `SyncHistoryService`, `SyncHistoryController`) | a pool of connections, a transaction per sync, ledger rows | sync, mark, retry, delete |
| The six other services | the same tables and ledger, through other frameworks | the same API |

### How the parts interact

All handlers of the Go service run as goroutines over one `*sql.DB` whose pool
holds **one** connection. A transaction keeps that connection from `BEGIN` to
`COMMIT` or `ROLLBACK`; every other statement, including those that the same
handler runs outside its transaction, waits for it. The ledger row is inserted
and updated outside the transaction on purpose, so that it survives a rollback.
`BeginTx` is given the request's context: when the client goes away, a goroutine
of `database/sql` rolls the transaction back behind the handler's back.

The GraphQL resolvers use the same pool. The generated code starts a goroutine
for each root field of a query and resolves those of a mutation in order.
`createEmployee` passes the new row to the broker, which sends it to every
subscriber's channel without blocking.

`main` opens the database, starts the goroutine that listens and waits for a
signal; `Shutdown` closes the listener and waits for the requests under way, and
only when `main` returns is the database closed. Websockets are not waited for.

In the Java service `sync()` runs in a transaction that holds a connection of the
pool, and each call on the ledger (`REQUIRES_NEW`) takes a second one. `markSuccess`
therefore commits *before* the batch does.

### What is hard

- **The ledger and the tables are written by separate transactions**, with a
  crash, a failing statement, a lost client, a retry or a delete possible between
  any two of them. Does a row ever say something that did not happen?
- **One connection.** A handler that needs the connection which its own
  transaction holds would wait for ever.
- **Rows named by id.** Every update of the ledger is `WHERE id = ?`, long after
  the id was read, while other clients delete and retry rows.
- **Pragmas belong to connections**, and the pool replaces connections.
- **Automatic and explicit ids share one sequence**, with a largest id.
- **The broker**: channels that are closed while others send, readers that do not
  read, several publishers.
- **Paging** by two statements per page over a table that changes meanwhile.
- **Operations with several fields**: goroutines of one response, mutations whose
  fields depend on each other, one field of several failing, updates that write
  back what they read before.
- **Shutdown**: a signal at any moment, handlers that hang, a listener that comes
  up late, a database that must outlive the last handler.
- **Two connections per sync** (Java): syncs that each hold one and wait for
  another, and a ledger that is ahead of the tables.

PROJECT.json lists these, and some of the services that are not modelled, as
hazards, each at its line and with the properties that would catch it going wrong.

## The modules

| Module | What it is |
| --- | --- |
| `SyncLedger` | Abstract specification: what the ledger promises about attempts and rows. |
| `SyncTables` | The target tables as values, and what one batch item does to them (`processItem`), as operators. |
| `GoSync` | The REST side of the Go service as concurrent requests over one connection. |
| `GoSyncProps` | The properties of `GoSync`, the refinement mapping to `SyncLedger`, the inductive invariant. |
| `MCGoSync` | Instances of `GoSync` for TLC. |
| `SyncTables_proofs` | Lemmas: what `processItem` and the probe do to the types, UNIQUE columns, sequences and references of the tables. |
| `GoSync_proofs` | The theorems about `GoSync`. |
| `GoEmployees` | The GraphQL resolvers, the subscription and the broker. |
| `MCGoEmployees` | Instances of `GoEmployees` for TLC. |
| `GoGraphQL` | Operations of several fields around the resolvers of `GoEmployees`, their responses, and a sequential reference. |
| `MCGoGraphQL` | An instance of `GoGraphQL` for TLC. |
| `GoHistoryPages` | `ListHistoryHandler`, read page by page by a client while rows change; `StatsHandler` and `GetHistoryHandler`. |
| `GoServer` | The life of the Go process: configuration, listener, connections, authentication, shutdown. |
| `MCGoServer` | An instance of `GoServer` for TLC. |
| `JavaSync` | Sync, ledger transactions, connection pool and history controller of the Java service. |
| `OrderedIds_proofs` | Lemmas: a finite set of integers can be listed in ascending and in descending order (`ORDER BY id`). |
| `GoEmployees_proofs` | The theorems about the resolvers and the broker. |
| `GoGraphQL_proofs` | The theorems about operations; it reuses the invariant of `GoEmployees_proofs`. |
| `GoHistoryPages_proofs` | The theorems about the reads of the history. |
| `GoServer_proofs` | The theorems about the process. |
| `JavaSync_proofs` | The theorems about the Java service. |

`GoGraphQL` extends `GoEmployees` and composes operations out of its calls. The
other modules share no state: what a handler is to `GoServer` (some statements
and a reply) is what `GoSync`, `GoHistoryPages` and `GoGraphQL` look into.

Operators introduced by "Seeded fault" are wrong variants of the definition that
follows them. They are not part of any specification: substituting one for the
right definition must make a property fail, which shows that the property depends
on that piece of the code (the `mutants` of PROJECT.json).

### SyncTables

A value `t` holds the four tables (functions from rowids to rows) and
`sqlite_sequence`. `ProcessItem(t, model, item, rnd, fk, by)` returns the tables
after one item and the error code that `processItem` and `HandleDBError` give.
Of a row only what a check or a constraint reads is kept: its UNIQUE column, and
for an order its customer, amount and lines. A JSON item is a record; `valid`
stands for decoding and validation. Amounts are Go `int`s and wrap
(`WrapInt`), the largest rowid is a constant, ids for employees without a number
are any id (63 random bits in the code). Explicit ids are positive.

### GoSync

| Action | Code |
| --- | --- |
| `Arrive` | routing, `ShouldBindJSON`, `Validate`, `ParseInt` of the id; 400 without any row |
| `CreatePending`, `CreatePendingFails` | `createPendingHistory` |
| `Begin`, `BeginFails` | `db.BeginTx` with the request's context |
| `ItemSaved`, `ItemRejected` | one turn of the loop over `payload.Data`; on an error `tx.Rollback` |
| `ItemAfterRollback` | the next item after a rollback: 500 for `sql.ErrTxDone`, or 400 for an item that does not validate and never gets that far |
| `Commit`, `CommitFails`, `CommitCancelled` | `tx.Commit` |
| `MarkFailed`, `MarkSuccessful` | the two updates of the row, whose errors are dropped |
| `RetryRead`, `RetryWrite`, `RetryReread` | the three statements of `RetryHistoryHandler` |
| `DeleteHistory` | the DELETE of `DeleteHistoryHandler`, which commits by itself |
| `Respond` | the answer after a mark or a delete; the process may die between the two |
| `ProbeRead`, `ProbeWrite`, `ProbeCleanUp` | the three statements of `HealthHandler` |
| `ClientGone`, `AwaitDone` | the context is cancelled; `database/sql` rolls back (external) |
| `Crash` | kill, or `Shutdown` that runs out of time, and a restart on the same file |
| `Recycle` | `SetConnMaxLifetime`: a new connection, on which no pragma is run |

A step is one SQL statement; all statements of an item are one step because
nothing can come between them that anybody could see. `Statement(r, label)` is
the wait for the connection. `applied`, the `of` of a ledger row and the `by` of
a table row are history variables, as is `untold`, the requests of which a
statement failed without anybody being told. `FaultKinds` says which faults an instance
has and `MaxFaults` how many; the proofs hold for any number.

### GoEmployees and GoGraphQL

A call of a resolver takes its steps by SQL statements and by the channel
operations of `Publish`, between which other goroutines run; `mu` is the broker's
mutex. The statements fail when the context is cancelled, when the id or the
e-mail is in use, and not otherwise; a context that is cancelled while rows are
read ends the loop without an error, since `rows.Err()` is not looked at. `Take`
is the reader that gqlgen runs: nothing is assumed about its speed.

| Action | Code |
| --- | --- |
| `Insert`, `Readback`, `Publish`, `Send`, `Published` | `CreateEmployee`, `EmployeeBroker.Publish` |
| `Read`, `Write`, `Reread` | `UpdateEmployee`; `Merged` is the row it writes |
| `Delete`, `SayHello`, `FindOne`, `ListPage` | `DeleteEmployee`, `Hello`, `Employee`, `Employees` and `SearchEmployees` |
| `Subscribe`, `Leave`, `Unsubscribe`, `Take`, `EndOfStream` | `EmployeeCreated`, the broker, the reader of the stream |
| `Exec`, `StartField`, `FieldStep`, `Respond` | `Exec`, `_Query`, `_Mutation` and the functions of the root fields |
| `Abandon` | the client goes away: the context of all fields is cancelled (external) |

A document is a sequence of root fields with a type; parsing and validation are
gqlgen's and have happened. An employee has an id, an e-mail and one optional
column. Selections, lists and nulls are marshalled as the generated code does:
a null where the schema allows none makes the object around it null and is
counted (`Invalid`); data that are null as a whole are the empty sequence. `Whole` and `InTurn` are the reference: the document executed
by itself, field by field. `start`, `alone` and `held` are history variables.

`ORDER BY id` is written, here and in `GoHistoryPages`, as the choice of a listing
in order (`InIdOrder`, `Newest`) and not as a sort of the community modules, whose
definition ends in an operator that only TLC can evaluate; `OrderedIds_proofs`
shows that there is such a listing.

### GoHistoryPages

`Count` and `Select` are the two statements of a response. All that other requests
do to the ledger is `InsertRow`, `MarkRow` (the sync that inserted a row, which is
`open` until then, marks it by its id), `RetryCheck` and `RetryWrite` (the SELECT
of a retry and its UPDATE by id alone; `checked` holds the ids between the two,
for any number of retries at once) and `DeleteRow`. The
client asks for page after page until a response says `last`, or polls one row
(`GetHistory`) or the statistics (`Stats`). History variables record what changed
since it started.

### GoServer

`main` has one action per step that others can interleave with: `Load`, `InitDB`,
`Spawn`, `Notify`, `BeginShutdown`, `Poll`, `ForcedShutdown`, `CloseDb`, `Return`.
`Listen` is the goroutine. A connection is new, old (nothing came for five
seconds), in the middleware, in a handler, a websocket, idle or closed; what
`net/http` does with them is modelled from the documented behaviour of `Shutdown`
and marked external. `Statement` lets a handler use the database at any time and
records in `met` if it found it closed.

### JavaSync

| Action | Code |
| --- | --- |
| `Arrive` | `sync()` is called and asks for the connection of its transaction |
| `Take`, `TimesOut` | Hikari hands out a connection, or throws after 30 seconds (external) |
| `createPending`, `markInvalid`, `markFailed` | the `REQUIRES_NEW` transactions of `SyncHistoryService`, with their COMMIT |
| `markSuccess`, `saveSuccess` | the read of the row, and its UPDATE and COMMIT |
| `StatementFails` | a statement or the COMMIT of one of these transactions fails |
| `Work` | the items of the batch and the flush, of which only success or failure is kept |
| `Commit`, `CommitFails`, `Rollback` | the end of the transaction of `sync()` |
| `Respond` | the answer |
| `RetryRead`, `RetryWrite`, `DeleteRead`, `DeleteWrite`, `CallFails` | `SyncHistoryController` |
| `Crash` | the JVM dies; what is committed remains |

`pc` follows `sync()`; `begin`, `create`, `invalid`, `succeed` and `fail` are the
waits for a connection that begin a transaction. `ThrownTo` says where an exception
leads: only that of `markSuccess` is caught by `sync()`. A retry is a read and a
`save`, which inserts a new row if the old one is gone. `torn` is a history
variable: the syncs whose batch was rolled back although `markSuccess` had
committed, because the COMMIT of the batch failed or the process died before it.

`Crash` assumes a database that outlives the process. With the in-memory H2 of
`application.yml` the ledger and the tables go together, and a restart is `Init`.

## What the runs check

| Run | Instance | Shows |
| --- | --- | --- |
| `go_ledger` | 4 requests, 3 ledger ids, batches of two, one fault of any kind | Rows and answers are truthful, ids name the right row, no audit entry disappears but by a delete that found it, a deleted row stays deleted, outcomes are recorded unless their UPDATE failed, `failure_reason` matches, batches are atomic, `SUCCESSFUL` is final, `SyncLedger` is implemented |
| `go_tables` | 4 requests, all models, 2 rowids | UNIQUE columns, fresh automatic ids and foreign keys hold through upserts, rollbacks, the last rowid and probes |
| `go_live` | 3 requests, two disconnects, with fairness | Every request is answered |
| `go_recycle` | a replaced connection | *violated:* an order for a missing customer is committed |
| `go_probe` | a health check and an order | *violated:* the probe row stays |
| `go_retry` | a failed batch and its retry, with fairness | *violated:* nothing ever attempts a retried row |
| `go_broker` | 2 calls of any kind, 2 subscribers, channels of one, with fairness | No send on a closed channel; events in order, at most once, lost only to a full channel; calls are answered whatever the readers do; ended subscriptions are closed |
| `go_graphql` | 2 operations of up to 2 fields out of 8 documents, 2 ids, 2 e-mails, a subscriber, one client lost | Responses conform to the schema; a creation is announced exactly if it is answered with an employee; only an INSERT makes a row appear; an undisturbed operation equals the sequential reference; an update overwrites columns it does not name only with what was there since it was called |
| `go_pages` | 3 rows, sizes 0 (default), 1 and 2, with and without a filter | What a walk over the pages shows, misses and repeats; the pages run out; statistics and polled rows never go back on what they said |
| `go_server` | 3 connections, 5 environments, 5 kinds of requests, with fairness | A clean exit has answered everything; handlers always have the database; nothing new is accepted in a shutdown; a signal ends the process |
| `java_ledger` | 2 syncs, 2 connections, 3 calls of the controller; any statement and any COMMIT may fail, the process may die at any step; with fairness | Connections are neither shared nor leaked; a `SUCCESSFUL` row is applied, about to be, or of a batch whose COMMIT was cut off (`torn`), and no other; 200 is answered exactly if the batch is committed; a row left `PENDING_RETRY` has a reason; every sync is answered unless the process dies |
| `java_unrecorded` | 2 syncs, 2 connections | *violated:* a sync without a connection leaves no row |

### The bounds and why they are enough

Four requests let a sync, a delete, a retry and a second sync meet on the same
row; the ledger's states depend on no more than that, and three ledger ids make
the reuse of ids and a full table happen. Batches of two have a middle at which
to fail. Two rowids are enough for an upsert on the next automatic id and for
the last rowid. `IntBound` is small so that amounts can wrap. One fault in
`go_ledger` can come at any of the steps; `go_live` has two lost clients, so that
the second can go while the first one's transaction is being rolled back. A channel holds ten events
in the code and one in the model: what matters is empty, room and full. Three
rows make a first, a middle and a last page of one row, and a full and a
half-full page of two. Two operations of two fields
are the least that have an order within and a race between; the documents were
chosen so that fields meet on an id or on an e-mail in both ways. Three
connections can be in a handler, idle and a websocket at once. Two syncs on two
connections bring about both waits: each holds one connection and waits for a
second, or one holds both and the other waits for its first. Three calls of the
controller are a retry and a delete that race, and another retry of the row that
comes of it. The theorems below remove the
bounds for the properties they cover.

Symmetry is used for requests and operations (they are only compared
for equality), and in no run that checks liveness.

### Fairness

`go_live` and `go_retry` assume strong fairness of each request's statements:
`database/sql` hands a returned connection to a waiting request picked from a
map, at random, so no request is passed over for ever; and weak fairness of the
goroutine that rolls back a cancelled transaction, which waits for nobody. No
fairness is assumed of clients, faults or arrivals. `go_broker` assumes
strong fairness of calls and of `Unsubscribe`: Go's mutex goes into
starvation mode and hands itself to the waiter that has waited longest. Nothing
is assumed of the readers, which is the point of the run. `go_server` assumes weak
fairness of `main`, of the listening goroutine and of the clock, and nothing of
clients and handlers. `java_ledger` assumes weak fairness of each sync as a whole,
its time-out included: a thread that waits gets a connection or, after 30 seconds,
an exception.

Deadlock is checked in every run; `Finished`, `AllAnswered` and `Ended` are the
only ways to stop.

## Findings

1. **Foreign keys after an hour** (`go_recycle`, `db.go:32`). The pragma is run on
   the first connection only; once the pool has replaced it, orders for customers
   that do not exist are accepted.
2. **Probe rows** (`go_probe`, `health.go:56`). An order that takes the probe's id
   makes its DELETE fail; the error is dropped and the row stays.
3. **Retries** (`go_retry`, `history.go:376`). A retried row is reset and never
   processed.
4. **Unrecorded attempts** (`java_unrecorded`, `SyncService.java:98`). The README
   promises that all attempts are recorded; a sync that finds the pool empty, or
   gets its first connection and no second, is answered with an error before
   `createPending` has written anything.

None of these contradicts the truthfulness of the Go service's ledger: a row that
is not updated stays `PENDING_RETRY` and claims nothing.

Further behaviour of the code that the models have and no run is about:

- `markHistoryFailed` drops the error of its UPDATE (`sync.go:202`), so that a
  failing statement leaves a `PENDING_RETRY` row where the README of the Go
  service (line 12) promises a `FAILED` one.
- An order update with only an amount keeps the old lines (`sync.go:414`), so that
  the stored amount may differ from the sum that line 356 enforces on each item.
- Two concurrent `updateEmployee` calls can undo each other's columns;
  `UnnamedColumnsWereThere` says how far.
- An operation over a websocket may find the database closed in a shutdown:
  `HandlersHaveTheDb` excepts it.
- In the Java service the row of a batch that was rolled back says `SUCCESSFUL`, for
  good, if the COMMIT of `sync()` fails or the JVM dies after `markSuccess` has
  committed (`SyncService.java:119`). The client gets an error or no answer, and
  nothing ever corrects the row: a retry refuses rows that are not `FAILED`.
  `SuccessMeansApplied` and `ResponseTruthful` say that this is the only way to
  such a row.
- In the Java service a retry that races a deletion brings the row back under a
  new id (`SyncHistoryController.java:62`), which no step of `SyncLedger` allows.
- The quick start of the Go README (line 22) sets `PORT`; `config.go` reads `APP_PORT`.

## What is proved

All results hold for every value of the constants that satisfies the named
assumptions, in particular for any number of requests, calls, subscribers, rows,
connections and faults. None of the safety properties of the runs is left out but
`IsolatedRunsAreSequential` (see [Checked only](#checked-only)).

| Module | Theorem | Statement |
| --- | --- | --- |
| `GoSync_proofs` | `TypeCorrect` | `Spec => []TypeOK` |
| | `LedgerIsTruthful` | `SUCCESSFUL` rows were applied, `FAILED` rows were not |
| | `ResponsesAreTruthful` | 200 exactly if applied |
| | `RowsAreOwn` | a request's id never names another's row |
| | `AuditTrailKept` | an applied batch has its row, or a DELETE found it, whose request is answered 204 or died before its answer |
| | `DeletionsAreFinal` | a row that a DELETE found does not come back, and nobody else deletes it |
| | `ReasonsMatch` | `failure_reason` exactly on `FAILED` rows |
| | `TablesStayConsistent` | UNIQUE columns and fresh ids |
| | `ReferencesStay` | foreign keys, provided connections are not replaced |
| | `OutcomesAreRecorded` | the row of an answered sync has its final status, was reset by a retry, or its UPDATE failed |
| | `SuccessIsFinal` | a `SUCCESSFUL` row never changes |
| | `BatchesAreAtomic` | the tables change by whole batches, or by a probe's own row |
| | `Refinement` | `Spec => Ledger!LedgerSpec` |
| `GoEmployees_proofs` | `TypeCorrect` | `Spec => []TypeOK` |
| | `NoPanic` | no send on a closed channel |
| | `Ordered` | events arrive in order and at most once |
| | `NoneLost` | an event is lost only to a full channel |
| | `Announced` | a creation is announced exactly if it is answered with an employee |
| | `InsertsCreate` | only an INSERT makes a row appear |
| `GoGraphQL_proofs` | `GraphTypeCorrect` | `GraphSpec => []GraphTypeOK` |
| | `ResponsesConform` | no null where the schema allows none |
| | `GraphAnnounced`, `GraphInsertsCreate` | the two properties above, for operations of several fields and clients that go away |
| | `NothingMadeUp` | an update writes to columns it does not name only what was there since it was called |
| `GoHistoryPages_proofs` | `TypeCorrect` | `Spec => []TypeOK` |
| | `Complete`, `NoneTwice`, `Bounded` | what a walk over the pages misses and repeats, and that it ends |
| | `StatsSound` | statistics add up and do not go back |
| | `OneLife` | a polled row ends once and does not come back |
| `GoServer_proofs` | `TypeCorrect` | `Spec => []TypeOK` |
| | `CleanExit` | a clean exit has answered everything |
| | `HandlersServed` | handlers find the database open |
| | `NothingNew` | nothing new is accepted in a shutdown |
| `JavaSync_proofs` | `PoolTheorem` | connections are neither shared nor leaked |
| | `SuccessTheorem` | a `SUCCESSFUL` row is applied, about to be, or torn |
| | `ResponseTheorem` | 200 exactly if committed; a finished sync's row says `SUCCESSFUL` exactly if it is committed or torn |
| | `PendingTheorem` | a `PENDING_RETRY` row has a reason |

Each module also states its inductive invariant as a theorem (`Invariant`,
`GraphInvariant`).

### Assumptions

Bounds are natural numbers; jobs, inputs and documents are well-formed, a valid
sync has at least one item and a document at least one field; model values such
as `Free` and `Nil` are not requests or rows; the ids of employees are finitely
many integers (`IdsAssumption`; Go `int`s), the first contents of the table is a
table (`StartAssumption`), and there are finitely many calls (`CallsAssumption`).
One theorem is about instances without a fault: `ReferencesStay` without replaced
connections, which finding 1 is about. All others allow failing statements, lost
clients, crashes, retries and deletes wherever the module has them.

### The arguments

**Ledger of the Go service.** None of the properties is inductive alone.
`LedgerTruthful` says nothing about a request that is about to write `FAILED`, so
`IInv` adds:

- `PcInv`, `AppliedInv`: what a program counter says about the request (a request
  about to mark success has been applied, one about to mark failure has not);
- `RowInv`: rows and requests name each other, and no id exceeds the sequence, so
  that an id is never given out twice;
- `StatusInv`: a row has a final status only once its request is over, so that a
  retry cannot race with the first attempt;
- `RetryInv`: what the retry's SELECT saw is still good enough when its UPDATE
  runs, although the row may have been deleted or retried meanwhile;
- `AuditInv`: a missing row was deleted by a request that is about to answer 204,
  has done so or died before it could, and a row that was deleted is missing;
- `TxInv`: the open transaction started from the tables as they are committed
  *now*, because nobody else can write while it holds the only connection, and
  has run a prefix of its batch without an error. Atomicity follows at `COMMIT`;
- `TablesInv`, `KeysInv`: the schema's promises hold after each item, not only
  after the batch.

`SyncTables_proofs` reduces the effect of an item to `Writes(t, u, ...)`: one
table gets one row at one id whose UNIQUE value is free. Each invariant of the
tables is then shown for `Writes` and for the probe's statements once. The step
lemmas of `GoSync_proofs` follow the actions: each conjunct of `IInv` has one
lemma with one case per action that can disturb it. The refinement theorem maps
each action to a step of `SyncLedger` or to a stuttering step, using `IInv`.
`OutcomeRecorded` follows from `OutcomeInv`, inductive on top of `IInv`: a sync
that has a row and is about to answer has come through one of the two marks, whose
UPDATE has written the row or failed, and afterwards only a retry writes it.

**Broker and resolvers.** The mutex is held by the one call that is sending, whose
event is the last one (`MutexInv`); a subscriber that is still to be sent to is in
the map, and one in the map is not closed (`SubInv`): hence no panic. What a
subscriber has received and has in its channel is in order and older than the
event under way if that one is still to come (`OrderInv`), so that the next send
keeps the order. Each call is announced by at most one event, with the employee
that it holds and then answers (`EventInv`). All this is shown for `Moves`, the
steps of `GoEmployees` and the cancellation of contexts, of which the steps of
`GoGraphQL` are special cases (`OpMoves`), so that the theorems about operations
inherit it.

**GraphQL operations.** A field runs with the arguments of its document, and an
operation is answered only when its fields are done (`FieldInv`). That `Exec` waits
for its goroutines is part of the model and not a result. What an update has read is among the rows that its id has had since
the call (`HeldInv`). `DataConforms` follows from the marshalling operators at the
step that responds. The proof showed that two arms of the case distinction of
`RootValue` overlapped, for an answer that is an error and null; the definition
now takes them in the order of the code.

**Reads of the history.** A row whose sync has yet to mark it is `PENDING_RETRY`,
and no retry has found it `FAILED`; a row that a retry has found `FAILED` has never
been `SUCCESSFUL` (`WriterInv`). So no write, however late, changes a `SUCCESSFUL`
row, which is what the statistics and the polled row rest on. The rank of an id among the rows that match is its
position in the list (`NewestRanks`), and a page holds the rows of the ranks from
its offset to its end (`SelectPage`). While no row comes to match, ranks can only
fall: what was shown stays within the places shown, and is in descending order
(`ShownInv`); hence no repeats. While no row stops matching, ranks can only rise:
a row that is still to be shown stays behind those places (`LeftInv`); on the last
page of a response that was not torn there is nothing behind them, by the
rounding up of `totalPages` (`Pages`). A page that is not the last has a
successor within the rows there ever were (`PageInv`).

**Process.** The database is open from `spawn` to `close` (`DbInv`), there is no
connection before the listener and no listener in the shutdown (`ListenerInv`), and
after `Shutdown` has returned without an error only websockets are left
(`DrainedInv`).

**Java service.** `PoolSound` is inductive with the types. For the ledger, a sync is
answered 200 with its commit and by nothing else, and is applied or torn, never
both, only once its transaction is over (`AnswerInv`); rows and syncs name
each other except for rows that a retry brought back (`OwnRowInv`), only rows of
syncs that failed before their commit are retried (`StatusInv`), and what a retry has
read remains the row of such a one (`RetryInv`).

### Checked only

- Liveness (`AllAnswered`, `CallsAnswered`, `SignalEnds`, `SyncsAnswered`): the
  prover has no rules for fairness that go far enough.
- `IsolatedRunsAreSequential`: the sequential reference is a fold over the fields
  of a document, and a proof would need induction over it.
- The properties of the runs that expect a violation.

The inductive invariant of `GoSync` was checked with TLC, on the instance of
`go_ledger`, before it was proved.

## What is not modelled

- FastAPI, Rust, NestJS, Express, Django and C#: each would need a model of its
  own of the transactions and the ledger writes, as Java has; the hazards of
  PROJECT.json say where they differ. Of the Java service the items of a batch,
  the reads of the history and the employee GraphQL.
- Introspection and query complexity of the generated GraphQL code, the Swagger
  document (a constant), request ids and metrics, which no handler depends on.
- The dates and times of `scanEmployee`, and panics in a resolver.
- `COMMIT` that fails and leaves SQLite's transaction open, as `SQLITE_BUSY` can
  with a second process on the file: the model's failed `COMMIT` rolls back.
- The in-memory database of the default configuration, which a replaced
  connection loses as a whole.
- Failing statements in `GoEmployees` other than by cancellation or constraint.
- Texts: messages, reasons (beyond "set" or "NULL"), time stamps, currencies,
  names; request headers, metrics, logging, documentation endpoints.
- Explicit ids that are zero or negative.

## Plan

1. *(done)* The ledger protocol of the Go service, its target tables, the
   abstract ledger and the proofs.
2. *(done)* The rest of the Go service: resolvers, broker, GraphQL execution,
   history reads, process. The Java service's sync and ledger.
3. *(done)* Proofs of the safety properties of all the modules.
4. A refinement for the Java service: `SyncLedger` with a step for rows that a
   retry brings back; a third service (FastAPI or Rust) as an instance of it.

## Running it

```
tlc -workers 2 -config MCGoSync.cfg MCGoSync
tlapm GoSync_proofs.tla
```

Configurations without `MC` in their names are those of the findings and end in a
counterexample; all others end without an error. `tlapm` checks the modules
whose names end in `_proofs` to the last step.
