----------------------------- MODULE WorkerPool -----------------------------
(***************************************************************************)
(* host.RunWorkers: one goroutine per worker runs SyncWorker.RunOnce in a  *)
(* loop until the work is complete, the context ends or an error occurs.   *)
(* runDemo passes shouldStop = writersDone and WorkComplete, afterRunOnce  *)
(* = MakeRetryingAvailable, and one worker; RunWorkers itself takes any    *)
(* number.                                                                 *)
(*                                                                         *)
(* The goroutines share the channel errCh (buffer: one slot per worker),   *)
(* the channel done, closed once, and the tables of JobStore.  The writers *)
(* are the environment: they commit deltas until writersDone is set.       *)
(***************************************************************************)
EXTENDS JobStore, Sequences

VARIABLES
    pc,           \* pc[w]: where the goroutine of w is
    batch,        \* batch[w]: claimed jobs its RunOnce has not finalised
    errCh,        \* errors sent so far
    stopped,      \* channel done is closed
    writersDone,  \* runDemo's atomic flag
    ctxDone,      \* the worker context ended
    result        \* what RunWorkers returned: "running", "nil", "error"

poolVars == <<pc, batch, errCh, stopped, result>>
envVars  == <<writersDone, ctxDone>>
vars     == <<storeVars, poolVars, envVars>>

PCs == {"select", "dispatch", "claim", "work", "after", "verdict",
        "countDeltas", "countJobs", "fail", "returned"}

Init ==
    /\ StoreInit
    /\ pc = [w \in Worker |-> "select"]
    /\ batch = [w \in Worker |-> {}]
    /\ errCh = <<>>
    /\ stopped = FALSE
    /\ writersDone = FALSE
    /\ ctxDone = FALSE
    /\ result = "running"

Goto(w, l) == pc' = [pc EXCEPT ![w] = l]

----------------------------------------------------------------------------
(* The two selects of the loop: the one at its head and the one that waits *)
(* for the 5ms timer.  Between them the goroutine touches nothing, so they *)
(* are one state: with neither channel ready, RunOnce begins.              *)

SelectRunOnce(w) ==
    /\ pc[w] = "select"
    /\ ~ctxDone /\ ~stopped
    /\ Goto(w, "dispatch")
    /\ UNCHANGED <<storeVars, batch, errCh, stopped, result, envVars>>

SelectDone(w) ==
    /\ pc[w] = "select"
    /\ stopped
    /\ Goto(w, "returned")
    /\ UNCHANGED <<storeVars, batch, errCh, stopped, result, envVars>>

SelectCtx(w) ==
    /\ pc[w] = "select"
    /\ ctxDone
    /\ Goto(w, "fail")
    /\ UNCHANGED <<storeVars, batch, errCh, stopped, result, envVars>>

----------------------------------------------------------------------------
(* SyncWorker.RunOnce: dispatch, claim a batch, process its jobs.          *)

RunDispatch(w) ==
    /\ pc[w] = "dispatch"
    /\ Dispatch
    /\ Goto(w, "claim")
    /\ UNCHANGED <<batch, errCh, stopped, result, envVars>>

RunClaim(w) ==
    /\ pc[w] = "claim"
    /\ \E B \in SUBSET Claimable :
          /\ ClaimBatch(w, B)
          /\ batch' = [batch EXCEPT ![w] = B]
    /\ Goto(w, "work")
    /\ UNCHANGED <<errCh, stopped, result, envVars>>

\* One of the jobs of the batch was projected, applied and finalised.  Up to
\* Concurrency of them run at once, so they finish in any order.
RunJob(w, d) ==
    /\ pc[w] = "work"
    /\ d \in batch[w]
    /\ MarkSynced(w, d) \/ MarkFailed(w, d) \/ MarkRejected(w, d)
    /\ batch' = [batch EXCEPT ![w] = @ \ {d}]
    /\ UNCHANGED <<pc, errCh, stopped, result, envVars>>

\* "job lease not owned": finalising a job whose lease was lost makes RunOnce
\* return an error; the rest of the batch is left as it is.
LeaseLost(w, d) ==
    /\ pc[w] = "work"
    /\ d \in batch[w]
    /\ ~HoldsLease(w, d)
    /\ batch' = [batch EXCEPT ![w] = {}]
    /\ Goto(w, "fail")
    /\ UNCHANGED <<storeVars, errCh, stopped, result, envVars>>

RunOnceReturns(w) ==
    /\ pc[w] = "work"
    /\ batch[w] = {}
    /\ Goto(w, "after")
    /\ UNCHANGED <<storeVars, batch, errCh, stopped, result, envVars>>

----------------------------------------------------------------------------
(* After RunOnce: afterRunOnce, then shouldStop.                           *)

AfterRunOnce(w) ==
    /\ pc[w] = "after"
    /\ MakeRetryingAvailable
    /\ Goto(w, "verdict")
    /\ UNCHANGED <<batch, errCh, stopped, result, envVars>>

\* shouldStop: no verdict while the writers run.
ShouldStop(w) ==
    /\ pc[w] = "verdict"
    /\ Goto(w, IF writersDone THEN "countDeltas" ELSE "select")
    /\ UNCHANGED <<storeVars, batch, errCh, stopped, result, envVars>>

Unfinished_Dead == JobsIn({"pending", "processing", "retrying", "dead"})

\* The jobs that CountJobs reports as not terminal.
Unfinished == JobsIn({"pending", "processing", "retrying"})

StopAll(w) == stopped' = TRUE /\ Goto(w, "returned")

WorkComplete_JobsFirst(w) ==
    /\ \/ /\ pc[w] = "countDeltas"
          /\ Goto(w, IF Unfinished = {} THEN "countJobs" ELSE "select")
          /\ UNCHANGED stopped
       \/ /\ pc[w] = "countJobs"
          /\ IF PendingDeltas = {} THEN StopAll(w)
                                   ELSE Goto(w, "select") /\ UNCHANGED stopped
    /\ UNCHANGED <<storeVars, batch, errCh, result, envVars>>

\* WorkComplete: two queries, one after the other and in no transaction:
\* first the pending deltas, then the jobs by state.  When both are empty the
\* goroutine closes done and returns.
WorkComplete(w) ==
    /\ \/ /\ pc[w] = "countDeltas"
          /\ Goto(w, IF PendingDeltas = {} THEN "countJobs" ELSE "select")
          /\ UNCHANGED stopped
       \/ /\ pc[w] = "countJobs"
          /\ IF Unfinished = {} THEN StopAll(w)
                                ELSE Goto(w, "select") /\ UNCHANGED stopped
    /\ UNCHANGED <<storeVars, batch, errCh, result, envVars>>

----------------------------------------------------------------------------
(* Errors.                                                                 *)

\* A database call of RunOnce, afterRunOnce or shouldStop fails.
CallFails(w) ==
    /\ pc[w] \in {"dispatch", "claim", "work", "after", "countDeltas",
                  "countJobs"}
    /\ batch' = [batch EXCEPT ![w] = {}]
    /\ Goto(w, "fail")
    /\ UNCHANGED <<storeVars, errCh, stopped, result, envVars>>

\* The same, because the context ended.
CtxFails(w) == ctxDone /\ CallFails(w)

SendError_Continue(w) ==
    /\ pc[w] = "fail"
    /\ Len(errCh) < Cardinality(Worker)
    /\ errCh' = Append(errCh, w)
    /\ stopped' = TRUE
    /\ Goto(w, "select")
    /\ UNCHANGED <<storeVars, batch, result, envVars>>

\* errCh <- err; stop(); return.  The send needs a free slot in the buffer.
SendError(w) ==
    /\ pc[w] = "fail"
    /\ Len(errCh) < Cardinality(Worker)
    /\ errCh' = Append(errCh, w)
    /\ StopAll(w)
    /\ UNCHANGED <<storeVars, batch, result, envVars>>

\* wg.Wait, close(errCh), and the first error if there is one.
Collect ==
    /\ result = "running"
    /\ \A w \in Worker : pc[w] = "returned"
    /\ result' = IF errCh = <<>> THEN "nil" ELSE "error"
    /\ UNCHANGED <<storeVars, pc, batch, errCh, stopped, envVars>>

----------------------------------------------------------------------------
(* The environment: writers, context, time.                                *)

WriterCommits(d) ==
    /\ ~writersDone
    /\ d \notin deltas
    /\ CommitDelta(d)
    /\ UNCHANGED <<poolVars, envVars>>

\* runWriters has returned; with an error, workerCancel follows.
WritersFinish ==
    /\ ~writersDone
    /\ writersDone' = TRUE
    /\ UNCHANGED <<storeVars, poolVars, ctxDone>>

CtxDone ==
    /\ ~ctxDone
    /\ result = "running"
    /\ ctxDone' = TRUE
    /\ UNCHANGED <<storeVars, poolVars, writersDone>>

TimePasses(d) ==
    /\ result = "running"
    /\ LeaseExpires(d) \/ BackoffElapses(d)
    /\ UNCHANGED <<poolVars, envVars>>

\* RunWorkers has returned and so have the writers.
Stopped == result # "running" /\ writersDone /\ UNCHANGED vars

----------------------------------------------------------------------------
WorkerStep(w) ==
    \/ SelectRunOnce(w) \/ SelectDone(w) \/ SelectCtx(w)
    \/ RunDispatch(w) \/ RunClaim(w)
    \/ \E d \in Delta : RunJob(w, d) \/ LeaseLost(w, d)
    \/ RunOnceReturns(w)
    \/ AfterRunOnce(w) \/ ShouldStop(w) \/ WorkComplete(w)
    \/ CtxFails(w) \/ SendError(w)

PoolStep == Collect \/ \E w \in Worker : WorkerStep(w) \/ CallFails(w)

Next ==
    \/ PoolStep
    \/ \E d \in Delta : WriterCommits(d) \/ TimePasses(d)
    \/ WritersFinish
    \/ CtxDone
    \/ Stopped

Spec == Init /\ [][Next]_vars

\* Every goroutine keeps running and every call returns.  Nothing is assumed
\* of errors, of the context, or of leases and retry delays running out; the
\* writers end by themselves (StageReturns in WriterStage).
FairSpec ==
    /\ Spec
    /\ WF_vars(Collect)
    /\ WF_vars(WritersFinish)
    /\ \A w \in Worker : WF_vars(WorkerStep(w))

----------------------------------------------------------------------------
(* Properties.                                                             *)

TypeOK ==
    /\ StoreTypeOK
    /\ pc \in [Worker -> PCs]
    /\ batch \in [Worker -> SUBSET Delta]
    /\ errCh \in Seq(Worker)
    /\ stopped \in BOOLEAN
    /\ writersDone \in BOOLEAN
    /\ ctxDone \in BOOLEAN
    /\ result \in {"running", "nil", "error"}

Drained == PendingDeltas = {} /\ Unfinished = {}

\* RunWorkers returns nil only when nothing is left to do: the writers have
\* ended, every delta is dispatched and every job is synced or dead.  The
\* report "Queue drained" rests on it, and WorkComplete must conclude it from
\* two counts taken at different moments while other workers go on.
NilMeansDrained == result = "nil" => writersDone /\ Drained

\* No goroutine ever blocks on errCh, so wg.Wait cannot hang on a full
\* buffer: one slot per worker is enough, however the errors, the end of the
\* context and the closing of done fall.
ErrorSendNeverBlocks ==
    \A w \in Worker : pc[w] = "fail" => Len(errCh) < Cardinality(Worker)

\* A job that is synced or dead stays so: a worker that lost its lease does
\* not overwrite what the next owner recorded, and MakeRetryingAvailable does
\* not revive it.  WorkComplete's verdict cannot be undone.
TerminalIsFinal ==
    [][\A d \in Delta : jobState[d] \in Terminal
                           => jobState'[d] = jobState[d]]_vars

\* Every committed delta ends as a synced or a dead job, without waiting for
\* retry delays, unless RunWorkers gives up with an error.
EveryDeltaSettles ==
    \A d \in Delta :
        d \in deltas ~> (jobState[d] \in Terminal \/ result = "error")

\* Once the writers are done, RunWorkers returns.
PoolReturns == writersDone ~> result # "running"
=============================================================================
