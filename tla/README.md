# CRM playground: TLA+ models and proofs

TLA+ modules, TLC configurations and TLAPS proofs for
`deltaflow-playground-crm`: a Go program in two flavors (`flavors/postgres-redis`,
`flavors/postgres-es`) that writes CRM changes with an outbox delta in one
Postgres transaction and has a DeltaFlow worker bring a read model (Redis
metrics, Elasticsearch documents) up to date. Paths below are relative to
`src/`; "the library" is `github.com/lemenendez/deltaflow` v0.11.2, which is not
part of the repository.

To check: `tlc -config X.cfg MCModule.tla` for each run of `PROJECT.json`, and
`tlapm M.tla` for each of the modules `WriterStage_proofs`,
`WorkerPool_proofs`, `SyncWorker_proofs`, `RedisTarget_proofs`,
`ESTarget_proofs`, `CRMDemo_proofs`, `WorkloadIDs_proofs` and
`Workload_proofs`.

## 1. The system

`main` sets a deadline of two minutes and calls `runDemo`. It resets the sync's
tables, seeds the CRM tables and plans the events (`buildScenario`), starts
`RunWorkers` with one worker in a goroutine, and calls `runWriters` meanwhile.

```
 actors (goroutines) --ackCh--> runWriters      main: deadline, runDemo
        | one transaction:                        | writersDone, workerCancel
        v row + delta                             v
   Postgres  crm_* | deltas | sync_jobs  <---- RunWorkers: RunOnce, MakeRetrying-
        ^            project (reads the row)       |        Available, WorkComplete
        '------------------------------------- SyncWorker slots -- Apply --> Redis / ES
```

| component | state | operations | what is hard | what makes it correct |
|---|---|---|---|---|
| Writer stage (`simulation.go`: `runWriters`, `applyAndEnqueue`) | event lists, goroutines, `ackCh`, run context, result | partition, one transaction per event, acknowledge, cancel, collect | contending transactions, an error or cancellation between any two calls, a COMMIT in doubt, an unbuffered channel | a row changes exactly with its delta; per-actor order; `nil` means all committed; it returns and leaves no goroutine |
| CRM source store (`domain.go`: `crmStore`) | rows with a version | `applyMutation`, `project`, schema reset and seed | concurrent updates of a row, reads while writers go on | no lost update; the projection is a committed state |
| DeltaFlow job store (library; `host.go` queries its tables) | deltas; jobs with state, attempts, lease, `available_at` | dispatch, claim, finalise, retry, dead-letter, `ResetSync`, `CountJobs`, `CountPendingDeltas`, `MakeRetryingAvailable` | leases that run out under a worker | synced and dead are final; attempts stay within `MaxAttempts` |
| Worker loop (`host.go`: `RunWorkers`, `WorkComplete`) | goroutines, `errCh`, `done`, result | two selects, `RunOnce`, `afterRunOnce`, `shouldStop`, error sends, collection | a verdict from two queries at different moments, several ways to stop at once | `nil` means drained; never blocks on `errCh`; every delta settles; it returns |
| Run orchestration (`main`, `engine.go`: `runDemo`) | `writersDone`, deadline, worker context | set up, start both stages, join them, count, fail | writer errors while the worker runs, closing the database, a killed process and the next start over its tables | the report is true and final; nothing of an earlier run takes part; every start ends |
| Redis target (`redis_target.go`) | Redis keys, the target's copies, `failOnce`, counters | `Apply`: guards, two queries, writes key by key, copy, count | queried values written later and side by side with other slots, failures half way | no stale key without a job that owes it; copies and counters agree with Redis and the jobs |
| Elasticsearch target (`elasticsearch_target.go`), simulator (`domain.go`) | index, queues, `failOnce`, counters | `reset`, `seedGhost`, `Apply`, `snapshot` | requests out of order, given up and carried out late | no stale document without a job that owes it; each operation counted once; the report's documents are the latest rows |
| Workload (`main.go`: `loadConfig`; `simulation.go`: `buildScenario`) | settings, CRM tables, the target's faults, the plan | read settings, fill tables, plan events | IDs sorted as strings, kinds and Go types chosen in different places, a failed reset | the plan can be carried out; one dead letter; the report names the entity that is retried; tables change as a whole |
| Counting projector (`domain.go`) | a counter | `Project` | retries, failed queries | a ghost's attempts, and no others, are counted |
| Host helpers, report, `contactsruntime`, build files | - | - | - | see section 7 |

The stages interact through Postgres only, apart from `writersDone`, the worker
context and the channels. A delta is committed by an actor, dispatched and
claimed by the worker, its row projected by a slot, and the projection applied
to the target; `WorkComplete` decides from the tables that this is over.

`PROJECT.json` lists the hazards, each at the line where it bites, with the
properties that cover it.

## 2. Modules

| module | models | extends |
|---|---|---|
| `WriterContract` | abstract: what `runWriters` promises | - |
| `ReadModel` | abstract: an eventually consistent copy with debts | - |
| `WriterStage` | `runWriters`, `applyAndEnqueue`, the transactions in Postgres | instance of `WriterContract` |
| `JobStore` | the library's tables and their operations; `ResetSync`, `MakeRetryingAvailable` | - |
| `WorkerPool` | `RunWorkers`, `WorkComplete`, `shouldStop` of `runDemo` | `JobStore` |
| `SyncWorker` | one worker with `Concurrency` slots, as a target sees it | `JobStore` |
| `RedisTarget` | `redisCRMTarget.Apply` in those slots, with the writers | `SyncWorker`, instance of `ReadModel` |
| `ESTarget` | `elasticsearchCRMTarget` and the simulator in those slots, the counting projector, `snapshot` | `SyncWorker`, instance of `ReadModel` |
| `CRMDemo` | `main` and `runDemo`, run after run | `JobStore`, instances of `WorkerPool` and `WriterContract` |
| `Workload` | `loadConfig`, `crmStore` schema and reset, `buildScenario` | - |
| `MC...` | small instances for TLC | the module named |
| `WriterStage_proofs`, `WorkerPool_proofs` | theorems | the module named |
| `SyncWorker_proofs` | lemmas on what the worker has in its hands | `SyncWorker` |
| `RedisTarget_proofs`, `ESTarget_proofs` | theorems | the module named, `SyncWorker_proofs` |
| `CRMDemo_proofs` | theorems | `CRMDemo`, instance of `WorkerPool_proofs` |
| `WorkloadIDs_proofs` | lemmas on digits, the order of strings, sorted keys | `Workload` |
| `Workload_proofs` | theorems | `WorkloadIDs_proofs` |

`JobStore` has variables and operations but no `Next`: it is composed by
extension. `CRMDemo` shares its store with an instance of `WorkerPool`, whose
steps it takes as they are, and puts `WriterContract` in the place of the
writer stage, which `WriterStage` is shown to implement. Definitions with a
suffix (`EnqueueInTx_OwnConnection`) are variants of the definition they stand
before, each with a plausible mistake; nothing refers to them, and
`PROJECT.json` names the property that refutes each.

### WriterStage and the code

`events`, `actorEvents`, `enqueued`, `firstFailure` and `closed` are the
variables of `runWriters` (an event is its position in the list, a delta has
the position of its event). `pc[a]` is the place of actor `a` in its goroutine:
`check` is the head of the range loop, `begin` to `reply` are the calls of
`applyAndEnqueue`, `ack` is the send on `ackCh`. `SendAck` is the rendezvous:
the channel is unbuffered, so the send and the receive with what the receiver
does to its own variables are one step.

Commit takes two steps on the caller's side (`SendCommit`, `CommitReturns`) and
one on the server's (`ServerCommits` or `ServerAborts`), so an error may arrive
for a COMMIT that succeeds, even later than `runWriters` returns. An error is
possible at each call (`DBError`), and once the run context is done every call
may give up (`CtxError`). `RowLocked` is the row lock of an open UPDATE, held
until the server has settled the transaction.

`WriterContract` keeps only the rows, the deltas, the COMMITs in doubt and the
outcome. A transaction publishes a row version and a delta in one step, in the
order of its actor; `nil` is returned when all are published; an error leaves
any number published and at most one in doubt per actor. `Contract` in
`WriterStage` maps the stage to it: a COMMIT that failed on the caller's side
and not on the server's is one in doubt once `runWriters` has returned.

### JobStore, WorkerPool and the code

A job bears the name of its delta. The playground sets no dedup window
(`DeltaStoreConfig{}`), so every delta has a job of its own. `owner[d]` is
`locked_by` while `locked_until` is ahead; `LeaseExpires` makes it pass.
`WorkerPool` splits `RunOnce` into dispatch, claim and one step per job, keeps
the two queries of `WorkComplete` apart, and treats the two selects of the loop
as one state, since the goroutine touches nothing between them.
`LeaseLost` is the "job lease not owned" error of the README of postgres-es.
The writers are an environment that commits deltas until it sets `writersDone`;
`OkMeansAllCommitted` of `WriterStage` is what entitles it to.

### SyncWorker, RedisTarget, ESTarget and the code

`slot[s]` is what one of the `Concurrency` goroutines of `RunOnce` is doing. A
slot reads at one step and writes at a later one; other slots and the writers
act in between. `RecordOutcome` finalises the job, `OutcomeLost` is the failure
to do so after `Apply` has had its effect.

In `RedisTarget` the aggregate queries are `Metrics(k)`, evaluated when the
query runs; `WriteKey` writes one key at a time in any order, as the range over
a Go map does; `RememberKeys` and `CountOp` are the two later sections under
the mutex. Redis begins empty or with what an earlier run left. In `ESTarget` a
document is known by the version of the row it was made from. A request can be
carried out, refused, answered too late (`ApplierFails` with the document
written) or given up by the client and carried out at any later time
(`ClientGivesUp`, `LateRequest`). The same holds for a write to Redis
(`ClientGivesUp`, `LateWrite`). `connected` tells whether the address or
endpoint is set; without it `RedisTarget` writes nothing and keeps its copies,
and `SimulatorApplies` takes the place of the Elasticsearch target: guards,
queues and counters in one critical section. `WorkComplete` is the state in
which `runDemo` calls `snapshot`, one search of `PageSize` documents.

`ReadModel` says what both targets promise: a key may be written only while it
is owed, and a debt is settled only by the right value. In the mapping a key is
owed while a change of it has a job that is not synced, while no job for it was
synced in this run, and once a write of it has been given up.

### CRMDemo and the code

`main` is the place of `main` and `runDemo`: `open`, `resetJobs`, `resetDeltas`
and `build` are the setup, `writers` is the call of `runWriters` with the
worker's goroutine beside it, `join` the receive from `workerStatsCh`, `cancel`
and `wait` the failure path (the Elasticsearch flavor has no `wait`), `count`
and `snapshot` the calls before the report, `done` and `failed` the deferred
calls, `reported` and `exited` the end of the process. In `failed` the worker
may still run, as it does in the code until `db.Close`. A delta is
`<<run, event>>`, so that rows an earlier process left are told from those of
this run. `Kill` ends the process anywhere, and `EndProcess` after `db.Close`,
under a worker that may still be at work in `failed`. What Postgres has been
told to commit is then in doubt:

- A writer's COMMIT (`inDoubt`) is settled at any time later (`Settle`), also
  after the `ResetSync` of the next run, unless the row lock it holds makes
  `buildScenario` wait for it.
- The COMMIT of the worker's Dispatch (`taken`, the deltas it has marked) is
  settled as a whole (`SettleDispatch`): before the two DELETEs of `ResetSync`,
  or between them, since the DELETE of the jobs does not see jobs that are not
  committed. The DELETE of the deltas waits for it, since a Dispatch updates its
  deltas (`state`, `dispatched_at`). If the library's schema ties a job to its
  delta by a foreign key, that DELETE fails (`CallFails`) or takes the job with
  it; otherwise the job stays without a delta.
- A claim, the UPDATE that finalises a job and `MakeRetryingAvailable`
  (`LateCall`) change only jobs that the DELETE of the jobs waits for and
  removes, so they are steps of the time before the next start.

`landed` is the history of what has been committed of earlier runs since
`ResetSync` began. A Dispatch whose caller gets an error although the server
commits it has no step of its own: the error ends the worker and with it the
run without a report, and what it leaves is what a kill during the call leaves.

### Workload and the code

`LoadSetting` reads one variable after the other and stops at the first that is
unusable. `ResetStatement` is one statement of the transaction of
`crmStore.reset` (the inserts of a table are one); `tx` is what the transaction
sees, `rows` what is committed. `PlanMutation` is one iteration of the loop over
`MUTATION_COUNT`, `PlanSpecial` one of the three events after it; what the faker
picks is nondeterministic. An ID is the sequence of the characters after its
prefix, since its order as a string is what matters; `numeral` are the digits
of a number and `Digits` is `%03d`, which pads them and never cuts.
`sortedKeys` is what the sort of the map's keys returns: at place `i` the key
that has `i - 1` others before it.

## 3. Runs

| run | instance | shows |
|---|---|---|
| `writer_safety` | 3 actors, 2 rows, 4 events | outbox atomicity `VersionCountsDeltas`; `CommittedInOrder`; `OkMeansAllCommitted`; `ReportedCountBounds`; `NoWriterLeftBehind`; the refinement `ImplementsContract` |
| `writer_live` | 2 actors, contended plan, invalid plan, empty plan | `StageReturns` under fairness |
| `writer_count` | as `writer_live` | a violation, see section 6 |
| `pool` | 2 workers, 2 jobs, 2 attempts, batch 2 | `NilMeansDrained`, `ErrorSendNeverBlocks`, `TerminalIsFinal` as an action property; `EveryDeltaSettles`, `PoolReturns` under fairness |
| `redis_totals` | 2 slots, 3 changes of totals, with and without an address | `StaleIsOwed`, `ReportStaleIsOwed`, the refinement `ImplementsReadModel` |
| `redis_tail` | 1 slot, retry order, dead order, ghost, a customer's change, one write given up | `StaleIsOwed`, `ReportStaleIsOwed`, `OpsCountSyncedJobs` |
| `es_document` | 2 slots, 3 changes of one customer | `DocStaleIsOwed`, the refinement `ImplementsReadModel` |
| `es_tail` | 1 slot, retry customer, dead order, ghost, with and without an endpoint | `DocStaleIsOwed`, `EachJobCountedOnce`, `FailuresAreAttempts`, `GhostsAreAttempts`, `SnapshotIsCurrent` |
| `es_retry` | the tail, 2 attempts | a violation, see section 6 |
| `demo_rerun` | 3 starts, 1 worker, a change and the ghost by one actor, flavor Redis | `ReportIsTrue`, `LeftoverHasLanded`, `RowsMatchDeltas`, `CountedIsFinal` |
| `demo_live` | 2 starts, 1 worker, a change and the ghost by two actors, flavor Elasticsearch | `DemoEnds` under fairness |
| `workload` | both flavors, each setting with each kind of value, IDs longer than their padding | `PlanIsAccepted`, `OneDeadLetter`, `RetryIsReported`, `ResetIsAtomic` |

The two target properties are what "eventually consistent" can mean here: at
every moment, a value that differs from what Postgres would give now is owed by
a committed delta whose job is unfinished (or dead-lettered, which the report
shows). They hold for any `Concurrency` although a slow slot overwrites a newer
value with an older one, and they hold for one reason: a batch is claimed only
after its deltas are committed, and the next `RunOnce` begins only after every
slot is idle. The variant `BatchDone_FreeSlot`, which claims as soon as a slot
is free, breaks both. They exempt keys and documents no job has refreshed in
the run, and entities for which a request was given up: a late request may
overwrite a newer document or key, since no write carries a version, and the
code has no defence. The copies in the report are not reached by late writes
(`ReportStaleIsOwed`).

`demo_rerun` shows what the tables, the report and the rows say after failed,
killed or finished runs. Two things of a dead process get into the next run
(`LeftoverHasLanded`): the delta of a writer's COMMIT that Postgres settles
after the second DELETE of `ResetSync`, and the jobs of a Dispatch that it
settles between the two. Both are worked off and counted with the others, so the
report may count more jobs than planned. The row change of the former is undone
by `reset`, which waits for its row lock.

### Bounds

The state is bounded by a finite plan or set of deltas, by `MaxAttempts` and by
four constants that bound the environment: `MaxRuns` (starts of the program,
`CRMDemo`), `MaxGivenUp` (keys with a write given up, `RedisTarget`), `Earlier`
(sizes of the generation of rows an earlier run left, `Workload`) and
`Environments` (the environments to start in, `Workload`).
There are no state constraints.

- Two actors suffice for a contended row; the third is the one that is neither
  the first nor the second to fail. Two events per actor suffice for an order.
- Two workers suffice for a lease to change hands and for a verdict to race
  other work; two jobs in one batch for one to be settled while the other is not.
  `runDemo` starts one worker, as `CRMDemo` does.
- `MaxAttempts = 2` has a first failure that retries and a second that
  dead-letters; the default is 3. `redis_totals` takes 1: it is about overlap.
- Two slots are the default of postgres-es, one that of postgres-redis. Three
  changes give a batch of two and a change that commits while it is worked on.
  `BatchSize = 2` forces a third job into a later batch.
- `MaxRuns = 3` in `demo_rerun`: the second start finds whatever the first can
  leave behind and may end in the middle of `ResetSync`; the third meets COMMITs
  of both. Its two events belong to one actor, so the second may not be due; one
  locks a row, the other does not. `demo_live` has two starts and an actor each.
- `MaxGivenUp = 1`: the exempt key of a late write and one that is not.
- `PageSize = 2` against three entities has full pages and others; it is 10000
  in the code. `Base = 3`, `Width = 1` with three orders gives IDs that outgrow
  their padding, which takes 1000 orders in the code.
- `Workload` takes each setting through unset, no integer, negative, zero, one,
  and two larger values, one setting at a time, since `loadConfig` and
  `buildScenario` relate no two settings but the counts to the picks.

No run uses symmetry. Deadlock checking is on in every run: `Stopped` is the
only way to end.

### Fairness

`WriterStage`: weak fairness of the caller, of each actor and of the server
settling the COMMITs it received. The Go scheduler runs every runnable
goroutine, and Postgres answers. Weak fairness is enough for an actor that waits
for a row lock: it loses against another actor at most once per event of the
plan. `WorkerPool`: weak fairness of each worker, of the collection, and of the
writers' end (`StageReturns`). Nothing is assumed of errors, deadlines, leases
or retry delays: they may or may never come. `EveryDeltaSettles` therefore
shows that `MakeRetryingAvailable` alone brings retries forward. The targets'
modules have no liveness property; that their jobs end is `EveryDeltaSettles`.
`CRMDemo`: weak fairness of `main`, of the writer stage (which `StageReturns`
entitles to), of the worker and the collection, and of the server settling the
COMMITs in doubt. The wait of two seconds ends because time passes. Nothing is
assumed of errors, kills, leases, retry delays or the deadline, so `DemoEnds`
does not lean on the two minutes of `main`.

## 4. Theorems

All are proved by TLAPS for every value of the constants, under the named
assumptions of the modules; TLC evaluates each assumption on the instances.

| assumption | says |
|---|---|
| `WriterAssumption` | there is an actor; the ghost has no row; plans are sequences of mutations |
| `JobAssumption` | a finite nonempty set of workers; positive limits |
| `OneWorker`, `SyncAssumption` | one worker, as `runDemo` asks of `RunWorkers`; a plan and a `Concurrency` are finite |
| `RedisAssumption`, `ESAssumption` | types of the changes; finitely many orders or entities; the ghost is neither the entity that times out nor the one that is rejected |
| `DemoAssumption` | one worker; a plan of finite length whose events, but for the ghost's, are about rows |
| `WorkloadAssumption` | the defaults in `main.go` are usable; a variable is an integer, another text or unset; a base of at least two and a positive padding |

Every property of the passing runs but the four liveness properties is a
theorem. `WriterTypeCorrect` has no run of its own: that the variables of the
writer stage keep their types is proved only.

### The writer stage (`WriterStage_proofs`)

One conjunct of the inductive invariant after the other:

1. `SInv` = types, the queues dealt out so far (each event in exactly its
   actor's list, in the order of the plan) and control (where an actor can be in
   which stage). It gives `WriterTypeCorrect` and `WriterNobodyLeftBehind`.
2. `DInv`: for each actor its committed deltas and its COMMITs at the server
   are told by its position. `CommittedInOrder` by itself is not inductive,
   since it says nothing of COMMITs that are still under way. It gives
   `WriterCommitsInOrder`.
3. `OInv`: an actor that ended before the end of its list leaves a trace, a
   counted failure or an ended context. It gives `WriterOkMeansAllCommitted`.
4. `LInv` = the row-lock discipline and `VersionCountsDeltas`: two open
   transactions never hold the same row, and the version staged by an open one is the
   committed version plus one. Without the lock, two actors would stage the same
   version and one update be lost. It gives `WriterVersionCountsDeltas`.
5. `CInv`: the caller's count is the number of events actors have got past;
   with `DInv` it gives `WriterReportedCountBounds`.
6. `WriterImplementsContract`, the refinement: a step at the server is a
   publication of the contract because a COMMIT under way is that of an event
   whose predecessors are all committed (`DInv`) and, by the row lock, of the
   next version of its row (`LInv`); a `nil` return is the contract's by `OInv`.

### The worker pool (`WorkerPool_proofs`)

1. `TInv` = types and "a job that is not terminal has an attempt left":
   `PoolTypeCorrect`.
2. `JobMoves`, what a step can do to a job: `PoolTerminalIsFinal`.
3. `DrainInv`: between the two queries of `WorkComplete` no delta can become
   pending again, since the writers are done, and jobs that have all settled
   stay so. It gives `PoolNilMeansDrained`, for any number of workers.
4. `SlotInv`: errors sent plus goroutines not returned never exceed the number
   of workers: `PoolErrorSendNeverBlocks`.

### The targets (`SyncWorker_proofs`, `RedisTarget_proofs`, `ESTarget_proofs`)

`HandInv` is about the worker alone: a job in a slot or in the batch is in one
place and still `processing`, even if its lease has run out, since nobody else
finalises and a claim waits until every slot is idle. A job is settled once it
was synced or is in hand, and applied once its write has been done.

`StaleIsOwed` and `DocStaleIsOwed` count a job from its record in Postgres,
later than the write; they are not inductive. The invariants behind them:

- `FreshRead`: while every committed change of a key is settled, what a slot has
  read of it is the present value. When the batch was claimed nobody held a
  value; a change that commits later is not settled before the next claim, and
  that waits for the idle slots. It is this that makes reading first and
  writing later safe without a transaction or a version.
- `FreshWritten` (Redis only): a key that a slot has written, and that another
  slot may have written again since, has the present value on the same
  condition.
- `FreshRedis`, `FreshKeys`, `FreshDoc`: the property, counted from the write.

They give `RedisLagsAtMost`, `ReportLagsAtMost` and `DocumentsLagAtMost`, and
with a case for each action the refinements `RedisImplementsReadModel` and
`IndexImplementsReadModel`: a key that is not owed is not written (a write of
the value it has is a stutter), and a debt is only settled by a step that finds
the right value there. The second has the hypothesis `connected`, since without
an endpoint no document is ever written and an owed one is never delivered; the
first has not, since the copies take the place of Redis.

`CountersAreOfSyncedJobs`, `CountsAreOfSyncedJobs`: inductive with `HandInv`,
which says that no two slots count one job. `FailuresCostAttempts` and
`GhostsCostAttempts` compare a counter with a sum of attempts, written as the
size of a set of pairs of a job and the number of an attempt; one step adds one
pair (`AttemptsGrow`) or takes none away (`AttemptsKept`).
`SnapshotShowsPostgres`: `PageInv`, nothing but a request given up can happen
once the work is complete, so that a page stays what it was.

### The program (`CRMDemo_proofs`)

The worker's part of every step is `PoolStep`, so types and job moves come from
the lemmas of `WorkerPool_proofs`, through an instance of it. `NilMeansDrained`
does not: a COMMIT of an earlier process may land between the two queries of
`WorkComplete`, after the writers of this run are done.

1. `RunInv` and `StageInv`: whose the deltas and the COMMITs in doubt are, and
   where `main` can be while the stages are where they are. `TakenInv`: a
   Dispatch in doubt is that of a worker cut off in it, whose process has ended
   or whose successor has not got past `ResetSync`; its deltas have no jobs yet.
2. `VerdictInv`: the worker that found nothing pending after the writer stage had
   succeeded has dispatched every planned event, and one that returns without an
   error has left no job unfinished. It needs that there is one worker: a
   second could still dispatch a late delta after the first has returned. It
   gives `DemoReportIsTrue` and `DemoCountedIsFinal`.
3. `LeftInv`: between the two DELETEs every job is one of a Dispatch that has
   come since the first, and by `RunInv` and `TakenInv` of an earlier run; after
   them the deltas and jobs of earlier runs are those in `landed`. It gives
   `DemoLeftoverHasLanded`, over any number of runs.
4. `RowInv`: since `reset` has waited for the row locks, a COMMIT of an earlier
   run still in doubt can only be a ghost's: `DemoRowsMatchDeltas`.

### The workload (`WorkloadIDs_proofs`, `Workload_proofs`)

1. `ConfigInv`: the settings read are the first of the list, and usable.
2. `ResetInv`: how far the transaction of `reset` has got, told by the statements
   that are left. It gives `WorkloadResetIsAtomic`.
3. `TablesInv`: `WorkloadTypeCorrect`.
4. `PlanInv`: which event can be at which place of the plan. `KindsMatch` says
   that the two choices of `mutationEvent` by the number of the event, of the
   kind and of the type of the value, agree for every number. It gives
   `WorkloadPlanIsAccepted`, `WorkloadOneDeadLetter` and
   `WorkloadRetryIsReported`.

`OneDeadLetter` rests on the order of strings: the dead order is the last of the
sorted IDs (`DeadIsLast`), for every number of orders, base and padding, however
the numbers are ordered among themselves. `numeral` is a recursive function;
that it exists, is the function its rule describes and has only digits is
proved from the least number that would be an exception (`LeastNumber`, from the
well-foundedness of `<` on the naturals). `sortedKeys` is proved to be a list of
exactly its keys (`SortedKeys`): each place is taken, since a total order gives
no two keys the same number of predecessors.

## 5. Only model-checked

- Liveness: `StageReturns`, `EveryDeltaSettles`, `PoolReturns` and `DemoEnds`.
  Fairness and `ENABLED` are outside the prover's reach. The refinements proved
  are of the safety part; the contracts state no fairness.
- `ReportedIsCommitted` and `RetrySucceeded`, which are violated (section 6).
- That `CRMDemo` may put `WriterContract` in the place of the writer stage is
  the theorem `WriterImplementsContract`; that the environment of `WorkerPool`
  may set `writersDone` only when every delta is committed is
  `WriterOkMeansAllCommitted`. The two are not composed formally.

## 6. Where the documents and the code differ

- `runWriters` fails with "writer stage failed after %d/%d committed deltas"
  (`flavors/postgres-redis/simulation.go:251`), but the number is that of
  acknowledgements without an error. When the answer to a COMMIT is lost the
  delta may be committed and is not counted. Run `writer_count` finds this;
  `ReportedCountBounds` says how far the number can be off.
- The report of postgres-es prints "simulated one temporary target timeout, then
  retry succeeded" (`flavors/postgres-es/output.go:33`) whenever two attempts
  are configured. It does not look at the job, which a second, real failure
  dead-letters when `WORKERS_MAX_ATTEMPTS` is 2. Run `es_retry` finds a printed
  report whose retry customer has no synced job.
- Noted without a run: the README of postgres-es places the lease duration in
  `host.go`, it is `LockFor` in `main.go`; it speaks of two DeltaFlow workers,
  `runDemo` starts one with two slots. The report of postgres-es says that the
  dead order's job "reached dead-letter after max attempts" (`output.go:37`),
  while the target returns an error with `Retryable: false`
  (`elasticsearch_target.go:139-144`). What the library makes of that is not in
  the repository; `RecordOutcome` allows both, and no property depends on it.

## 7. Not modelled

- **The library.** Its operations are external: modelled from the queries in
  `host.go`, the configuration in `main.go` and the READMEs. Each is one
  statement or transaction, hence one step. `Dispatch` may take any nonempty set
  of pending deltas and a claim any nonempty set within `BatchSize`.
- Timestamps (`updated_at`, the planned times): nothing reads them to decide.
- Payloads of rows, projections and reports beyond a version or a total.
- Report output (but for the two sentences on the retried entity), logging,
  build files: no state the properties speak of.
- Pure helpers of `host.go` (`StringKey`, `StringFromKey`, `StableDigest`,
  `FirstSample`, `PerSecond`, `FormatDuration`) and `queueTail`: conversions
  of single values. A projection key and the entity it names are one value.
- `contactsruntime`: validates a configuration and registers two factories with
  the library's registry, which is not in the repository; no program calls it,
  and it keeps no state.
- Statements of a dead process that Postgres does not even begin before the next
  run has got past `ResetSync`. Those it is carrying out when the process ends
  hold their locks, which `ResetSync` or `reset` waits for; COMMITs that were
  sent are modelled (section 2).
- `reset` and `seedGhost` of the Elasticsearch target, three requests, are the
  initial state of `ESTarget`; that one fails is a failed call of the setup
  (`Fail` in `Workload`, `CallFails` in `CRMDemo`).
- The columns that tie a seeded customer or order to a user or customer: no
  step tests them but the totals per customer, which `RedisTarget` has.

## 8. Plan

Written so far: every component of section 1 that keeps state has a module, and
every safety property of the runs a theorem. To come:

1. `CRMDemo` with a step-by-step link to `WriterStage`: the mapping of the
   writer stage's variables, as an instance that shares the rows and deltas.
2. The steps a job can take at all: a measure of the worker pool that each
   attempt lowers and nothing raises, the part of `EveryDeltaSettles` that needs
   no fairness.
3. `Digits` gives different numbers different IDs, so that a table has as many
   rows as it is configured to have.
