------------------------------ MODULE CRMDemo ------------------------------
(***************************************************************************)
(* main and runDemo (engine.go): one process runs the writer stage and the *)
(* worker loop over the same tables, joins them and reports.  The process  *)
(* may fail, be killed and be started again; Postgres keeps its tables and *)
(* may settle a COMMIT after the process that sent it is gone.             *)
(*                                                                         *)
(* The writer stage is its contract (WriterContract), the worker loop is   *)
(* WorkerPool with one worker.  A delta is <<run, event>>: each run's rows *)
(* in the outbox are its own, and what an earlier run left is told apart.  *)
(***************************************************************************)
EXTENDS JobStore, Sequences

CONSTANTS
    Flavor,       \* "redis" or "es": they differ in what an error does
    Row, Plan,    \* the planned events, as in WriterContract
    MaxRuns       \* bound: how often the program is started

\* runDemo asks RunWorkers for one worker.
ASSUME DemoAssumption ==
    /\ Flavor \in {"redis", "es"}
    /\ MaxRuns \in Nat \ {0}
    /\ Len(Plan) \in Nat
    /\ \A i \in 1 .. Len(Plan) :
          Plan[i].Kind # "ghost" => Plan[i].EntityID \in Row
    /\ Delta = (1 .. MaxRuns) \X (1 .. Len(Plan))
    /\ \E w \in Worker : Worker = {w}

VARIABLES
    run,          \* how often the program was started
    main,         \* where main is, or how the process ended
    deadline,     \* the context of main has ended
    report,       \* the counts printed at the end
    version, stage,                \* of the writer stage
    inDoubt,      \* deltas whose COMMIT is at the server, its caller gone
    taken,        \* deltas of a Dispatch whose COMMIT is, its worker gone
    landed,       \* history: what Postgres has committed of earlier runs since
                  \* the DELETEs of ResetSync: their deltas, or their jobs
    pc, batch, errCh, stopped, writersDone, ctxDone, result   \* the worker's

mainVars   == <<run, main, deadline, report>>
doubtVars  == <<inDoubt, taken, landed>>
writerVars == <<version, stage, doubtVars>>
poolVars   == <<pc, batch, errCh, stopped, result>>
envVars    == <<writersDone, ctxDone>>
vars == <<storeVars, mainVars, writerVars, poolVars, envVars>>

Pool == INSTANCE WorkerPool

Mine(S) == {i \in 1 .. Len(Plan) : <<run, i>> \in S}

Writers == INSTANCE WriterContract WITH
    Plans <- {Plan}, events <- Plan,
    deltas <- Mine(deltas), doubt <- Mine(inDoubt)

Ended   == {"reported", "exited"}
Setup   == {"open", "resetJobs", "resetDeltas", "build"}
Spawned == {"writers", "cancel", "wait", "join", "count", "snapshot",
            "failed", "done"}

NoReport == [Synced |-> 0, Dead |-> 0, Unfinished |-> 0]

Init ==
    /\ Pool!Init
    /\ run = 1
    /\ main = "open"
    /\ deadline = FALSE
    /\ report = NoReport
    /\ version = [r \in Row |-> 1]
    /\ stage = "running"
    /\ inDoubt = {}
    /\ taken = {}
    /\ landed = {}

----------------------------------------------------------------------------
(* main, up to the start of the two stages.                                *)

\* A call that takes the context succeeds; main goes on.
Call(from, to) ==
    /\ main = from
    /\ ~deadline
    /\ main' = to
    /\ UNCHANGED <<run, deadline>>

\* OpenFileLogger and OpenStoresWithOptions, which pings the database.
OpenStores ==
    /\ Call("open", "resetJobs")
    /\ UNCHANGED <<storeVars, writerVars, poolVars, envVars, report>>

ResetJobs_ThisRun ==
    /\ Call("resetJobs", "resetDeltas")
    /\ jobState' = [d \in Delta |-> IF d[1] = run THEN "absent"
                                                  ELSE jobState[d]]
    /\ landed' = {}
    /\ UNCHANGED <<deltas, attempts, owner, available, version, stage, inDoubt,
                   taken, poolVars, envVars, report>>

\* ResetSync, two statements outside a transaction.  The first deletes the
\* jobs; it does not see those of a Dispatch that is not committed yet.
ResetJobs ==
    /\ Call("resetJobs", "resetDeltas")
    /\ jobState' = [d \in Delta |-> "absent"]
    /\ attempts' = [d \in Delta |-> 0]
    /\ owner' = [d \in Delta |-> NoOwner]
    /\ available' = [d \in Delta |-> FALSE]
    /\ landed' = {}
    /\ UNCHANGED <<deltas, version, stage, inDoubt, taken, poolVars, envVars,
                   report>>

\* The second deletes the deltas.  It waits for the lock on those that a
\* Dispatch has marked as dispatched; a job that this has left has no delta.
ResetDeltas ==
    /\ Call("resetDeltas", "build")
    /\ taken = {}
    /\ deltas' = {}
    /\ landed' = landed \ JobsIn({"absent"})
    /\ UNCHANGED <<jobState, attempts, owner, available, version, stage,
                   inDoubt, taken, poolVars, envVars, report>>

\* A COMMIT in doubt holds the lock of its row until it is settled.
RowsLocked == \E d \in inDoubt : Plan[d[2]].Kind # "ghost"

BuildScenario_RowsKept ==
    /\ Call("build", "writers")
    /\ ~RowsLocked
    /\ UNCHANGED <<storeVars, writerVars, poolVars, envVars, report>>

\* buildScenario: the CRM tables are emptied and filled in one transaction,
\* which waits for row locks.  The goroutine of RunWorkers is started next.
BuildScenario ==
    /\ Call("build", "writers")
    /\ ~RowsLocked
    /\ version' = [r \in Row |-> 1]
    /\ UNCHANGED <<storeVars, stage, doubtVars, poolVars, envVars, report>>

----------------------------------------------------------------------------
(* The two stages.                                                         *)

\* A transaction of runWriters commits.
WriterCommits(i) ==
    /\ main = "writers"
    /\ CommitDelta(<<run, i>>)
    /\ UNCHANGED <<mainVars, doubtVars, poolVars, envVars>>
    /\ Writers!Commit(i)

WritersSucceed_FlagForgotten ==
    /\ main = "writers"
    /\ ~deadline
    /\ main' = "join"
    /\ UNCHANGED <<storeVars, run, deadline, report, doubtVars, poolVars,
                   envVars>>
    /\ Writers!ReturnOk

\* runWriters returns nil, writersDone is set, and main waits on the worker.
WritersSucceed ==
    /\ main = "writers"
    /\ ~deadline
    /\ writersDone' = TRUE
    /\ main' = "join"
    /\ UNCHANGED <<storeVars, run, deadline, report, doubtVars, poolVars,
                   ctxDone>>
    /\ Writers!ReturnOk

\* runWriters returns an error, with COMMITs in doubt; writersDone is set all
\* the same.
WritersFail ==
    /\ main = "writers"
    /\ writersDone' = TRUE
    /\ main' = "cancel"
    /\ \E D \in SUBSET Writers!DueEvents :
          inDoubt' = inDoubt \cup {<<run, i>> : i \in D}
    /\ UNCHANGED <<storeVars, run, deadline, report, taken, landed, poolVars,
                   ctxDone>>
    /\ Writers!ReturnError

\* A step of the worker's goroutine, or of RunWorkers that collects it.  One
\* that returned has put its result into workerStatsCh, which has room for it.
WorkerRuns ==
    /\ main \in Spawned
    /\ Pool!PoolStep
    /\ UNCHANGED <<mainVars, writerVars>>

\* Retry delays and leases run out.
TimePasses(d) ==
    /\ main \in Spawned
    /\ Pool!TimePasses(d)
    /\ UNCHANGED <<mainVars, writerVars>>

\* The two minutes of main are over; the worker's context ends with it.
DeadlinePasses ==
    /\ main \notin Ended
    /\ ~deadline
    /\ deadline' = TRUE
    /\ ctxDone' = TRUE
    /\ UNCHANGED <<storeVars, run, main, report, writerVars, poolVars,
                   writersDone>>

----------------------------------------------------------------------------
(* main, after the writers.                                                *)

\* workerCancel.  The Elasticsearch flavor then returns at once.
CancelWorker ==
    /\ main = "cancel"
    /\ ctxDone' = TRUE
    /\ main' = IF Flavor = "redis" THEN "wait" ELSE "failed"
    /\ UNCHANGED <<storeVars, run, deadline, report, writerVars, poolVars,
                   writersDone>>

\* The Redis flavor waits for the worker, for two seconds or for the context;
\* whichever of the three comes first.
WaitForWorker ==
    /\ main = "wait"
    /\ main' = "failed"
    /\ UNCHANGED <<storeVars, run, deadline, report, writerVars, poolVars,
                   envVars>>

JoinWorker_ErrorDropped ==
    /\ main = "join"
    /\ result # "running"
    /\ main' = "count"
    /\ UNCHANGED <<storeVars, run, deadline, report, writerVars, poolVars,
                   envVars>>

JoinWorker_NotWaited ==
    /\ main = "join"
    /\ main' = IF result = "error" THEN "failed" ELSE "count"
    /\ UNCHANGED <<storeVars, run, deadline, report, writerVars, poolVars,
                   envVars>>

\* The receive from workerStatsCh, without a time limit.
JoinWorker ==
    /\ main = "join"
    /\ result # "running"
    /\ main' = IF result = "error" THEN "failed" ELSE "count"
    /\ UNCHANGED <<storeVars, run, deadline, report, writerVars, poolVars,
                   envVars>>

\* CountJobs, one query: the numbers of the report.
CountJobs ==
    /\ Call("count", "snapshot")
    /\ report' = [Synced |-> Cardinality(JobsIn({"synced"})),
                  Dead |-> Cardinality(JobsIn({"dead"})),
                  Unfinished |-> Cardinality(Pool!Unfinished)]
    /\ UNCHANGED <<storeVars, writerVars, poolVars, envVars>>

\* target.snapshot.  That of the Redis target needs no context.
Snapshot ==
    /\ \/ Call("snapshot", "done")
       \/ /\ Flavor = "redis" /\ main = "snapshot" /\ main' = "done"
          /\ UNCHANGED <<run, deadline>>
    /\ UNCHANGED <<storeVars, writerVars, poolVars, envVars, report>>

\* A call of main fails, or its context is done: runDemo returns the error.
\* During the setup there is no worker yet, and the process exits.
CallFails ==
    /\ \/ main \in Setup /\ main' = "exited"
       \/ main = "count" /\ main' = "failed"
       \/ main = "snapshot" /\ Flavor = "es" /\ main' = "failed"
    /\ UNCHANGED <<storeVars, run, deadline, report, writerVars, poolVars,
                   envVars>>

\* The end of a process cuts off its worker.  If that was in Dispatch, its
\* COMMIT may be at the server, for any of the deltas pending then.  (A
\* Dispatch that was answered with an error leaves the same: the run ends.)
WorkerCutOff ==
    \E D \in SUBSET PendingDeltas :
        /\ D # {} => \E w \in Worker : pc[w] = "dispatch"
        /\ taken' = taken \cup D

\* The deferred calls: workerCancel and db.Close, under a worker that may
\* still run in "failed"; then the report, or log.Fatalf.  What the worker has
\* sent to Postgres may be carried out all the same.
EndProcess ==
    /\ main \in {"done", "failed"}
    /\ main' = IF main = "done" THEN "reported" ELSE "exited"
    /\ WorkerCutOff
    /\ UNCHANGED <<storeVars, run, deadline, report, version, stage, inDoubt,
                   landed, poolVars, envVars>>

----------------------------------------------------------------------------
(* The world around the process.                                           *)

\* The process is killed.  Postgres rolls back the transactions for which no
\* COMMIT has been sent; the others, of writers and worker, are in doubt.
Kill ==
    /\ main \notin Ended
    /\ main' = "exited"
    /\ \E D \in SUBSET Writers!DueEvents :
          /\ main # "writers" => D = {}
          /\ inDoubt' = inDoubt \cup {<<run, i>> : i \in D}
    /\ WorkerCutOff
    /\ UNCHANGED <<storeVars, run, deadline, report, version, stage, landed,
                   poolVars, envVars>>

\* Postgres settles a Dispatch whose worker is gone: all of its jobs appear,
\* or none, be it before the DELETEs of ResetSync or between the two.
SettleDispatch ==
    /\ taken # {}
    /\ taken' = {}
    /\ \/ /\ CommitJobs(taken)
          /\ landed' = landed \cup {d \in taken : d[1] < run}
       \/ UNCHANGED <<storeVars, landed>>
    /\ UNCHANGED <<mainVars, version, stage, inDoubt, poolVars, envVars>>

\* Postgres carries out another call of a worker that is gone: a claim, the
\* UPDATE that finalises a job, or MakeRetryingAvailable.  They touch jobs of
\* the ended run only, and ResetSync, which waits for their locks, deletes
\* these: it is all the same whether the next process has been started.
LateCall(w) ==
    /\ main = "exited"
    /\ \/ \E d \in Delta : Pool!RunJob(w, d)
       \/ /\ \/ pc[w] = "claim" /\ \E B \in SUBSET Claimable : ClaimBatch(w, B)
             \/ pc[w] = "after" /\ MakeRetryingAvailable
          /\ pc' = [pc EXCEPT ![w] = "fail"]
          /\ UNCHANGED <<batch, errCh, stopped, result, envVars>>
    /\ UNCHANGED <<mainVars, writerVars>>

Publish(d) ==
    /\ CommitDelta(d)
    /\ version' = IF Plan[d[2]].Kind = "ghost" THEN version
                  ELSE [version EXCEPT ![Plan[d[2]].EntityID] = @ + 1]
    /\ landed' = IF d[1] < run THEN landed \cup {d} ELSE landed

\* Postgres settles a writer's COMMIT whose caller is gone.
Settle(d) ==
    /\ d \in inDoubt
    /\ inDoubt' = inDoubt \ {d}
    /\ \/ Publish(d)
       \/ UNCHANGED <<storeVars, version, landed>>
    /\ UNCHANGED <<mainVars, stage, taken, poolVars, envVars>>

\* The program is started again.
StartAgain ==
    /\ main \in Ended
    /\ run < MaxRuns
    /\ run' = run + 1
    /\ main' = "open"
    /\ deadline' = FALSE
    /\ report' = NoReport
    /\ stage' = "running"
    /\ pc' = [w \in Worker |-> "select"]
    /\ batch' = [w \in Worker |-> {}]
    /\ errCh' = <<>>
    /\ stopped' = FALSE /\ writersDone' = FALSE /\ ctxDone' = FALSE
    /\ result' = "running"
    /\ UNCHANGED <<storeVars, version, doubtVars>>

\* The last run is over.
Stopped == main \in Ended /\ UNCHANGED vars

----------------------------------------------------------------------------
MainStep ==
    \/ OpenStores \/ ResetJobs \/ ResetDeltas \/ BuildScenario
    \/ CancelWorker \/ WaitForWorker \/ JoinWorker \/ CountJobs \/ Snapshot
    \/ deadline /\ CallFails
    \/ EndProcess

WriterStep ==
    \/ \E i \in 1 .. Len(Plan) : WriterCommits(i)
    \/ WritersSucceed
    \/ deadline /\ WritersFail

Next ==
    \/ MainStep \/ CallFails
    \/ WriterStep \/ WritersFail
    \/ WorkerRuns
    \/ DeadlinePasses \/ Kill \/ StartAgain \/ Stopped
    \/ \E d \in Delta : TimePasses(d) \/ Settle(d)
    \/ SettleDispatch
    \/ \E w \in Worker : LateCall(w)

Spec == Init /\ [][Next]_vars

\* main, the writer stage (StageReturns in WriterStage), the worker and the
\* server go on; nothing is assumed of errors, the deadline, kills, leases
\* and retry delays.  The two seconds of WaitForWorker pass.
FairSpec ==
    /\ Spec
    /\ WF_vars(MainStep)
    /\ WF_vars(WriterStep)
    /\ WF_vars(main \in Spawned /\ Pool!Collect /\ UNCHANGED <<mainVars, writerVars>>)
    /\ \A w \in Worker :
          WF_vars(main \in Spawned /\ Pool!WorkerStep(w)
                    /\ UNCHANGED <<mainVars, writerVars>>)
    /\ \A d \in Delta : WF_vars(Settle(d))
    /\ WF_vars(SettleDispatch)

----------------------------------------------------------------------------
(* Properties.                                                             *)

TypeOK ==
    /\ Pool!TypeOK
    /\ run \in 1 .. MaxRuns
    /\ main \in Setup \cup Spawned \cup Ended
    /\ deadline \in BOOLEAN
    /\ LET Count == 0 .. Cardinality(Delta)
       IN report \in [Synced : Count, Dead : Count, Unfinished : Count]
    /\ version \in [Row -> Nat]
    /\ stage \in {"running", "ok", "error"}
    /\ inDoubt \subseteq Delta /\ taken \subseteq Delta
    /\ landed \subseteq Delta

\* The report of a run is true ("Jobs synced: .., dead-lettered: ..", "Queue
\* drained"): every planned event has a job of this run that is synced or
\* dead, no job is left over, and what is counted besides are jobs of an
\* earlier run (LeftoverHasLanded).  It takes the error of the worker, the
\* join, the verdict of WorkComplete and ResetSync to get this right.
Settled == JobsIn(Terminal)

ReportIsTrue ==
    main = "reported" =>
        /\ Mine(Settled) = 1 .. Len(Plan)
        /\ report = [Synced |-> Cardinality(JobsIn({"synced"})),
                     Dead |-> Cardinality(JobsIn({"dead"})),
                     Unfinished |-> 0]

\* Nothing of an earlier run, finished, failed or killed, takes part in this
\* one but for what Postgres has committed of it since ResetSync began: a delta
\* whose writer's COMMIT came after the deltas were deleted, and the job that
\* becomes of it, or jobs of a Dispatch that came between the two DELETEs.
LeftoverHasLanded ==
    main \in Spawned \cup {"build", "reported"} =>
        \A d \in deltas \cup (Delta \ JobsIn({"absent"})) :
            d[1] < run => d \in landed

\* The outbox across runs: the rows, which buildScenario has put back, have
\* been changed exactly as often as this run has deltas for them.  A COMMIT
\* of an earlier run never changes a row after that.
RowsMatchDeltas ==
    main \in Spawned \cup {"reported"} =>
        \A r \in Row :
            version[r] = 1 + Cardinality({i \in Mine(deltas) :
                                 Plan[i].Kind # "ghost" /\ Plan[i].EntityID = r})

\* Once the jobs are counted for the report, none changes any more: nobody is
\* left to change them, until the program is started again.
CountedIsFinal ==
    [][(main \in {"snapshot", "done", "reported"} /\ run' = run)
          => jobState' = jobState]_vars

\* A started program comes to an end: it reports, or it exits with an error;
\* whatever becomes of the writers, the worker and the COMMITs in doubt.
DemoEnds == main = "open" ~> main \in Ended
=============================================================================
