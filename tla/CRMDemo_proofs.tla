---------------------------- MODULE CRMDemo_proofs ----------------------------
(***************************************************************************)
(* Theorems about runDemo, for every plan, every set of rows, both flavors *)
(* and any number of runs of the program one after the other.              *)
(*                                                                         *)
(* The worker's steps are those of WorkerPool, so PoolStepShown takes from *)
(* WorkerPool_proofs what they do to types and jobs.  RunInv tells whose   *)
(* the deltas and the COMMITs in doubt are; StageInv ties main to the two  *)
(* stages; VerdictInv says what the worker's return is worth when deltas   *)
(* of earlier runs may still arrive; TakenInv says where a Dispatch can    *)
(* still be in doubt, so that nothing of it reaches a run past ResetSync;  *)
(* CountedInv, LeftInv and RowInv add what the report, ResetSync and       *)
(* buildScenario contribute.                                               *)
(***************************************************************************)
EXTENDS CRMDemo, TLAPS, FiniteSetTheorems

PoolThm == INSTANCE WorkerPool_proofs

LEMMA SameFiniteSets ==
    ASSUME NEW S
    PROVE  /\ PoolThm!IsFiniteSet(S) <=> IsFiniteSet(S)
           /\ PoolThm!Cardinality(S) = Pool!Cardinality(S)
           /\ Pool!Cardinality(S) = Cardinality(S)
BY DEF PoolThm!IsFiniteSet, IsFiniteSet, PoolThm!Cardinality,
       Pool!Cardinality, Cardinality

LEMMA SameWorkerStep ==
    ASSUME NEW w \in Worker, Pool!WorkerStep(w) \/ Pool!CallFails(w)
    PROVE  PoolThm!WorkerStep(w) \/ PoolThm!CallFails(w)
<1> USE DEF Pool!Goto, PoolThm!Goto, Pool!envVars, PoolThm!envVars,
            Pool!storeVars, PoolThm!storeVars
<1>1. CASE Pool!SelectRunOnce(w) \/ Pool!SelectDone(w) \/ Pool!SelectCtx(w)
    BY <1>1 DEF PoolThm!WorkerStep, Pool!SelectRunOnce, PoolThm!SelectRunOnce,
        Pool!SelectDone, PoolThm!SelectDone, Pool!SelectCtx, PoolThm!SelectCtx
<1>2. CASE Pool!RunDispatch(w)
    BY <1>2 DEF PoolThm!WorkerStep, Pool!RunDispatch, PoolThm!RunDispatch,
        Pool!Dispatch, PoolThm!Dispatch, Pool!CommitJobs, PoolThm!CommitJobs,
        Pool!PendingDeltas, PoolThm!PendingDeltas
<1>3. CASE Pool!RunClaim(w)
    BY <1>3, SameFiniteSets DEF PoolThm!WorkerStep, Pool!RunClaim,
        PoolThm!RunClaim, Pool!ClaimBatch, PoolThm!ClaimBatch,
        Pool!Claimable, PoolThm!Claimable
<1>4. ASSUME NEW d \in Delta, Pool!RunJob(w, d)
      PROVE  PoolThm!WorkerStep(w)
    <2>1. PoolThm!RunJob(w, d)
        BY <1>4 DEF Pool!RunJob, PoolThm!RunJob,
            Pool!MarkSynced, PoolThm!MarkSynced, Pool!MarkFailed, PoolThm!MarkFailed,
            Pool!MarkRejected, PoolThm!MarkRejected, Pool!Finalize,
            PoolThm!Finalize, Pool!HoldsLease, PoolThm!HoldsLease
    <2>2. QED
        BY <2>1 DEF PoolThm!WorkerStep
<1>5. ASSUME NEW d \in Delta, Pool!LeaseLost(w, d)
      PROVE  PoolThm!WorkerStep(w)
    BY <1>5 DEF PoolThm!WorkerStep, Pool!LeaseLost, PoolThm!LeaseLost,
            Pool!HoldsLease, PoolThm!HoldsLease
<1>6. CASE Pool!RunOnceReturns(w) \/ Pool!AfterRunOnce(w) \/ Pool!ShouldStop(w)
    BY <1>6 DEF PoolThm!WorkerStep, Pool!RunOnceReturns, PoolThm!RunOnceReturns,
        Pool!AfterRunOnce, PoolThm!AfterRunOnce,
        Pool!MakeRetryingAvailable, PoolThm!MakeRetryingAvailable,
        Pool!ShouldStop, PoolThm!ShouldStop
<1>7. CASE Pool!WorkComplete(w) \/ Pool!SendError(w)
    BY <1>7, SameFiniteSets DEF PoolThm!WorkerStep, Pool!WorkComplete, PoolThm!WorkComplete,
        Pool!StopAll, PoolThm!StopAll, Pool!SendError, PoolThm!SendError,
        Pool!PendingDeltas, PoolThm!PendingDeltas, Pool!Unfinished,
        PoolThm!Unfinished, Pool!JobsIn, PoolThm!JobsIn
<1>8. CASE Pool!CallFails(w) \/ Pool!CtxFails(w)
    BY <1>8 DEF PoolThm!WorkerStep, Pool!CallFails, PoolThm!CallFails,
        Pool!CtxFails, PoolThm!CtxFails
<1>9. QED
    BY <1>1, <1>2, <1>3, <1>4, <1>5, <1>6, <1>7, <1>8 DEF Pool!WorkerStep

\* A step of the pool, or of time, is one of WorkerPool's.
LEMMA SamePoolStep ==
    ASSUME Pool!PoolStep \/ \E d \in Delta : Pool!TimePasses(d)
    PROVE  PoolThm!Next
<1>1. CASE Pool!Collect
    BY <1>1 DEF Pool!Collect, PoolThm!Collect, PoolThm!Next, PoolThm!PoolStep,
                Pool!envVars, PoolThm!envVars, Pool!storeVars, PoolThm!storeVars
<1>2. ASSUME NEW w \in Worker, Pool!WorkerStep(w) \/ Pool!CallFails(w)
      PROVE  PoolThm!Next
    BY <1>2, SameWorkerStep DEF PoolThm!Next, PoolThm!PoolStep
<1>3. ASSUME NEW d \in Delta, Pool!TimePasses(d)
      PROVE  PoolThm!Next
    BY <1>3 DEF PoolThm!Next, Pool!TimePasses, PoolThm!TimePasses,
         Pool!LeaseExpires, PoolThm!LeaseExpires, Pool!BackoffElapses,
         PoolThm!BackoffElapses, Pool!poolVars, PoolThm!poolVars,
         Pool!envVars, PoolThm!envVars
<1>4. QED
    BY <1>1, <1>2, <1>3 DEF Pool!PoolStep

----------------------------------------------------------------------------
(* Types.                                                                  *)

\* A job that is not finished has an attempt left.
AttemptsLeft ==
    \A d \in Delta : jobState[d] \notin Terminal => attempts[d] < MaxAttempts

\* The deltas of a Dispatch in doubt have no jobs yet; it is the worker's that
\* was cut off in it, or a new process has come no further than ResetSync.
TakenInv ==
    /\ \A d \in taken : d \in deltas /\ jobState[d] = "absent"
    /\ taken # {} =>
          /\ main \in Ended \cup {"open", "resetJobs", "resetDeltas"}
          /\ \A w \in Worker : pc[w] \in {"dispatch", "select"}

TInv == TypeOK /\ AttemptsLeft /\ TakenInv

\* A committed delta is dispatched, or an unfinished job moves on.
JobMoves ==
    \A d \in Delta :
        jobState'[d] # jobState[d] =>
            \/ d \in deltas /\ jobState[d] = "absent"
            \/ jobState[d] \notin {"absent", "synced", "dead"}
                  /\ jobState'[d] # "absent"

\* A step of the worker's goroutine, of RunWorkers, or of time.
PoolMoves ==
    /\ main \in Spawned
    /\ Pool!PoolStep \/ \E d \in Delta : Pool!TimePasses(d)
    /\ UNCHANGED <<mainVars, writerVars>>

\* What WorkerPool_proofs has shown of such a step.
LEMMA PoolStepShown ==
    ASSUME TInv, Pool!PoolStep \/ \E d \in Delta : Pool!TimePasses(d)
    PROVE  Pool!TypeOK' /\ AttemptsLeft' /\ JobMoves
<1>1. PoolThm!JobAssumption
    BY JobAssumption, SameFiniteSets DEF PoolThm!JobAssumption
<1>2. PoolThm!TInv <=> Pool!TypeOK /\ AttemptsLeft
    BY DEF PoolThm!TInv, PoolThm!TypeOK, Pool!TypeOK, PoolThm!StoreTypeOK,
           Pool!StoreTypeOK, PoolThm!JobStates, Pool!JobStates, PoolThm!PCs,
           Pool!PCs, PoolThm!AttemptsLeft, AttemptsLeft, PoolThm!Terminal,
           Pool!Terminal, Terminal
<1>3. PoolThm!TInv' <=> Pool!TypeOK' /\ AttemptsLeft'
    BY DEF PoolThm!TInv, PoolThm!TypeOK, Pool!TypeOK, PoolThm!StoreTypeOK,
           Pool!StoreTypeOK, PoolThm!JobStates, Pool!JobStates, PoolThm!PCs,
           Pool!PCs, PoolThm!AttemptsLeft, AttemptsLeft, PoolThm!Terminal,
           Pool!Terminal, Terminal
<1>4. PoolThm!TInv /\ [PoolThm!Next]_PoolThm!vars
    BY <1>2, SamePoolStep DEF TInv, TypeOK
<1>5. PoolThm!TInv'
    BY <1>1, <1>4, PoolThm!TypeStep DEF PoolThm!JobAssumption
<1>6. PoolThm!JobMoves
    BY <1>1, <1>4, PoolThm!StepMovesJobs DEF PoolThm!JobAssumption
<1>7. JobMoves
    BY <1>6 DEF PoolThm!JobMoves, JobMoves, PoolThm!PendingDeltas,
                PoolThm!Unfinished, PoolThm!JobsIn
<1>8. QED
    BY <1>3, <1>5, <1>7

\* The pool leaves the outbox, the flag and the context alone.
LEMMA PoolLeaves ==
    ASSUME Pool!PoolStep \/ \E d \in Delta : Pool!TimePasses(d)
    PROVE  UNCHANGED <<deltas, writersDone, ctxDone>>
<1> USE DEF Pool!storeVars, Pool!poolVars, Pool!envVars
<1>1. ASSUME NEW w \in Worker, Pool!WorkerStep(w) \/ Pool!CallFails(w)
      PROVE  UNCHANGED <<deltas, writersDone, ctxDone>>
    <2>1. CASE \/ Pool!SelectRunOnce(w) \/ Pool!SelectDone(w)
               \/ Pool!SelectCtx(w) \/ Pool!RunOnceReturns(w)
               \/ Pool!ShouldStop(w) \/ Pool!WorkComplete(w)
        BY <2>1 DEF Pool!SelectRunOnce, Pool!SelectDone, Pool!SelectCtx,
               Pool!RunOnceReturns, Pool!ShouldStop, Pool!WorkComplete
    <2>2. CASE Pool!RunDispatch(w) \/ Pool!RunClaim(w) \/ Pool!AfterRunOnce(w)
        BY <2>2 DEF Pool!RunDispatch, Pool!Dispatch, Pool!CommitJobs,
               Pool!RunClaim, Pool!ClaimBatch, Pool!AfterRunOnce, Pool!MakeRetryingAvailable
    <2>3. ASSUME NEW d \in Delta, Pool!RunJob(w, d) \/ Pool!LeaseLost(w, d)
          PROVE  UNCHANGED <<deltas, writersDone, ctxDone>>
        BY <2>3 DEF Pool!RunJob, Pool!LeaseLost, Pool!MarkSynced,
               Pool!MarkFailed, Pool!MarkRejected, Pool!Finalize
    <2>4. CASE Pool!CtxFails(w) \/ Pool!CallFails(w) \/ Pool!SendError(w)
        BY <2>4 DEF Pool!CtxFails, Pool!CallFails, Pool!SendError
    <2>5. QED
        BY <1>1, <2>1, <2>2, <2>3, <2>4 DEF Pool!WorkerStep
<1>2. CASE Pool!Collect
    BY <1>2 DEF Pool!Collect
<1>3. ASSUME NEW d \in Delta, Pool!TimePasses(d)
      PROVE  UNCHANGED <<deltas, writersDone, ctxDone>>
    BY <1>3 DEF Pool!TimePasses, Pool!LeaseExpires, Pool!BackoffElapses
<1>4. QED
    BY <1>1, <1>2, <1>3 DEF Pool!PoolStep

\* A call that Postgres carries out after the end of the process.
LEMMA LateCallShown ==
    ASSUME TInv, NEW w \in Worker, LateCall(w)
    PROVE  /\ Pool!TypeOK' /\ AttemptsLeft' /\ JobMoves
           /\ UNCHANGED <<deltas, errCh, stopped, result, writersDone, ctxDone>>
           /\ pc[w] \in {"claim", "work", "after"}
           /\ pc' = pc \/ pc' = [pc EXCEPT ![w] = "fail"]
<1> USE DEF Pool!storeVars, envVars
<1>0. Pool!TypeOK /\ AttemptsLeft
    BY DEF TInv, TypeOK
<1>1. ASSUME NEW d \in Delta, Pool!RunJob(w, d)
      PROVE  /\ Pool!TypeOK' /\ AttemptsLeft' /\ JobMoves
             /\ UNCHANGED <<deltas, errCh, stopped, result, writersDone, ctxDone>>
             /\ pc[w] = "work" /\ pc' = pc
    <2>1. Pool!PoolStep
        BY <1>1 DEF Pool!PoolStep, Pool!WorkerStep
    <2>2. Pool!TypeOK' /\ AttemptsLeft' /\ JobMoves
        BY <2>1, PoolStepShown
    <2>3. QED
        BY <1>1, <2>1, <2>2, PoolLeaves DEF Pool!RunJob, Pool!envVars
<1>2. ASSUME NEW B \in SUBSET Claimable, ClaimBatch(w, B), pc[w] = "claim",
             pc' = [pc EXCEPT ![w] = "fail"],
             UNCHANGED <<batch, errCh, stopped, result, envVars>>
      PROVE  Pool!TypeOK' /\ AttemptsLeft' /\ JobMoves /\ deltas' = deltas
    BY <1>0, <1>2
       DEF ClaimBatch, Claimable, JobMoves, AttemptsLeft, Terminal,
           Pool!TypeOK, Pool!StoreTypeOK, Pool!JobStates, Pool!PCs
<1>3. ASSUME MakeRetryingAvailable, pc[w] = "after",
             pc' = [pc EXCEPT ![w] = "fail"],
             UNCHANGED <<batch, errCh, stopped, result, envVars>>
      PROVE  Pool!TypeOK' /\ AttemptsLeft' /\ JobMoves /\ deltas' = deltas
    BY <1>0, <1>3
       DEF MakeRetryingAvailable, JobMoves, AttemptsLeft, Pool!TypeOK,
           Pool!StoreTypeOK, Pool!PCs
<1>4. QED
    BY <1>1, <1>2, <1>3 DEF LateCall

----------------------------------------------------------------------------
(* The steps of the program, by what they may change.                      *)

\* A step that moves main, or ends its context, and changes nothing else.
MainMoves ==
    /\ UNCHANGED <<storeVars, writerVars, poolVars, run, report, writersDone>>
    /\ ctxDone' \in BOOLEAN /\ deadline' \in BOOLEAN
    /\ \/ main' = main
       \/ main = "open" /\ main' = "resetJobs"
       \/ main \in Setup /\ main' = "exited"
       \/ main = "cancel" /\ main' \in {"wait", "failed"}
       \/ main = "wait" /\ main' = "failed"
       \/ main = "join" /\ result = "error" /\ main' = "failed"
       \/ main = "join" /\ result \notin {"running", "error"} /\ main' = "count"
       \/ main \in {"count", "snapshot"} /\ main' = "failed"
       \/ main = "snapshot" /\ main' = "done"

LEMMA StepKinds ==
    ASSUME TInv, [Next]_vars
    PROVE  \/ MainMoves
           \/ ResetJobs \/ ResetDeltas \/ BuildScenario \/ CountJobs
           \/ \E i \in 1 .. Len(Plan) : WriterCommits(i)
           \/ WritersSucceed \/ WritersFail \/ Kill \/ StartAgain
           \/ PoolMoves
           \/ \E d \in Delta : Settle(d)
           \/ EndProcess \/ SettleDispatch
           \/ \E w \in Worker : LateCall(w)
<1> USE DEF mainVars, writerVars, doubtVars, envVars, Call, Setup, Ended,
            MainMoves
<1>0. deadline \in BOOLEAN /\ ctxDone \in BOOLEAN
    BY DEF TInv, TypeOK, Pool!TypeOK
<1>1. CASE OpenStores \/ Snapshot
    BY <1>0, <1>1 DEF OpenStores, Snapshot
<1>2. CASE CancelWorker \/ WaitForWorker \/ JoinWorker
    BY <1>0, <1>2 DEF CancelWorker, WaitForWorker, JoinWorker
<1>3. CASE CallFails \/ DeadlinePasses
    BY <1>0, <1>3 DEF CallFails, DeadlinePasses
<1>4. CASE Stopped \/ UNCHANGED vars
    BY <1>0, <1>4 DEF Stopped, vars
<1>5. CASE WorkerRuns
    BY <1>5 DEF WorkerRuns, PoolMoves
<1>6. ASSUME NEW d \in Delta, TimePasses(d) PROVE PoolMoves
    BY <1>6 DEF TimePasses, PoolMoves
<1>7. QED
    BY <1>1, <1>2, <1>3, <1>4, <1>5, <1>6 DEF Next, MainStep, WriterStep

\* The deltas that a writer stage leaves in doubt are its own, and not there.
LEMMA GivenUp ==
    ASSUME TInv, NEW D \in SUBSET Writers!DueEvents,
           NEW d \in {<<run, i>> : i \in D}
    PROVE  d \in Delta /\ d \notin deltas /\ d[1] = run
<1>1. PICK i \in D : d = <<run, i>>
    OBVIOUS
<1>2. i \in 1 .. Len(Plan) /\ i \notin Mine(deltas)
    BY DEF Writers!DueEvents, Writers!Event, Writers!Due
<1>3. run \in 1 .. MaxRuns
    BY DEF TInv, TypeOK
<1>4. QED
    BY <1>1, <1>2, <1>3, DemoAssumption DEF Mine

\* What the end of a process adds to the deltas of a Dispatch in doubt: the
\* pending ones of a worker that was in it, and there is but one worker.
LEMMA CutOff ==
    ASSUME TInv, WorkerCutOff
    PROVE  /\ \A d \in taken' :
                 d \in taken \/ (d \in deltas /\ jobState[d] = "absent")
           /\ taken' \subseteq Delta
           /\ taken' # {} => taken # {} \/ \A w \in Worker : pc[w] = "dispatch"
<1>1. PICK D \in SUBSET PendingDeltas :
         /\ D # {} => \E w \in Worker : pc[w] = "dispatch"
         /\ taken' = taken \cup D
    BY DEF WorkerCutOff
<1>2. D # {} => \A w \in Worker : pc[w] = "dispatch"
    BY <1>1, DemoAssumption
<1>3. deltas \subseteq Delta /\ taken \subseteq Delta
    BY DEF TInv, TypeOK, Pool!TypeOK, Pool!StoreTypeOK
<1>4. QED
    BY <1>1, <1>2, <1>3 DEF PendingDeltas

LEMMA JobsCounted ==
    ASSUME NEW S
    PROVE  /\ Cardinality(JobsIn(S)) \in 0 .. Cardinality(Delta)
           /\ Cardinality(Delta) \in Nat
<1>1. IsFiniteSet(Delta)
    <2>1. IsFiniteSet(1 .. MaxRuns) /\ IsFiniteSet(1 .. Len(Plan))
        BY DemoAssumption, FS_Interval
    <2>2. QED
        BY <2>1, DemoAssumption, FS_Product
<1>2. JobsIn(S) \subseteq Delta
    BY DEF JobsIn
<1>3. QED
    BY <1>1, <1>2, FS_Subset, FS_CardinalityType

LEMMA TypeInit == Init => TInv
<1> SUFFICES ASSUME Init PROVE TInv
    OBVIOUS
<1>1. Pool!TypeOK
    <2>1. <<>> \in Seq(Worker)
        OBVIOUS
    <2>2. Pool!StoreTypeOK
        BY JobAssumption
           DEF Init, Pool!Init, Pool!StoreInit, Pool!StoreTypeOK, Pool!JobStates
    <2>3. QED
        BY <2>1, <2>2 DEF Init, Pool!Init, Pool!TypeOK, Pool!PCs
<1>2. report \in [Synced : 0 .. Cardinality(Delta), Dead : 0 .. Cardinality(Delta),
                  Unfinished : 0 .. Cardinality(Delta)]
    BY JobsCounted DEF Init, NoReport
<1>3. AttemptsLeft
    BY JobAssumption DEF Init, Pool!Init, Pool!StoreInit, AttemptsLeft
<1>4. run \in 1 .. MaxRuns /\ version \in [Row -> Nat]
    BY DemoAssumption DEF Init
<1>5. QED
    BY <1>1, <1>2, <1>3, <1>4 DEF Init, TInv, TakenInv, TypeOK, Setup

LEMMA TypeStep == TInv /\ [Next]_vars => (TypeOK /\ AttemptsLeft)'
<1> SUFFICES ASSUME TInv, [Next]_vars PROVE (TypeOK /\ AttemptsLeft)'
    OBVIOUS
<1> USE DEF storeVars, mainVars, writerVars, doubtVars, poolVars, envVars,
            Call
<1> DEFINE Count == 0 .. Cardinality(Delta)
<1>0. /\ run \in 1 .. MaxRuns /\ main \in Setup \cup Spawned \cup Ended
      /\ report \in [Synced : Count, Dead : Count, Unfinished : Count]
      /\ inDoubt \subseteq Delta /\ taken \subseteq Delta
      /\ Pool!TypeOK /\ AttemptsLeft
    BY DEF TInv, TypeOK
<1>1. CASE MainMoves \/ BuildScenario
    <2>1. UNCHANGED <<storeVars, poolVars, writersDone>> /\ ctxDone' \in BOOLEAN
        BY <1>0, <1>1 DEF MainMoves, BuildScenario, Pool!TypeOK
    <2>2. Pool!TypeOK' /\ AttemptsLeft'
        BY <1>0, <2>1 DEF Pool!TypeOK, Pool!StoreTypeOK, AttemptsLeft
    <2>3. main' \in Setup \cup Spawned \cup Ended
        BY <1>0, <1>1 DEF MainMoves, BuildScenario, Setup, Spawned, Ended
    <2>4. QED
        BY <1>1, <2>2, <2>3 DEF MainMoves, BuildScenario, TInv, TypeOK
<1>2. CASE ResetJobs \/ ResetDeltas
    <2>1. Pool!TypeOK' /\ AttemptsLeft'
        <3>1. CASE ResetJobs
            <4>1. Pool!StoreTypeOK'
                BY <1>0, <3>1, JobAssumption
                   DEF ResetJobs, Pool!TypeOK, Pool!StoreTypeOK, Pool!JobStates
            <4>2. AttemptsLeft'
                BY <3>1, JobAssumption DEF ResetJobs, AttemptsLeft
            <4>3. QED
                BY <1>0, <3>1, <4>1, <4>2 DEF ResetJobs, Pool!TypeOK
        <3>2. CASE ResetDeltas
            BY <1>0, <3>2
               DEF ResetDeltas, Pool!TypeOK, Pool!StoreTypeOK, AttemptsLeft
        <3>3. QED
            BY <1>2, <3>1, <3>2
    <2>2. QED
        BY <1>2, <2>1 DEF ResetJobs, ResetDeltas, TInv, TypeOK, Setup
<1>3. CASE CountJobs
    <2>1. report' \in [Synced : Count, Dead : Count, Unfinished : Count]
        <3>1. Pool!Unfinished = JobsIn({"pending", "processing", "retrying"})
            BY DEF Pool!Unfinished, Pool!JobsIn, JobsIn
        <3>2. QED
            BY <1>3, <3>1, JobsCounted DEF CountJobs
    <2>2. Pool!TypeOK' /\ AttemptsLeft'
        BY <1>0, <1>3 DEF CountJobs, Pool!TypeOK, Pool!StoreTypeOK, AttemptsLeft
    <2>3. QED
        BY <1>3, <2>1, <2>2 DEF CountJobs, TInv, TypeOK, Spawned
<1>4. ASSUME NEW i \in 1 .. Len(Plan), WriterCommits(i) PROVE (TypeOK /\ AttemptsLeft)'
    <2>1. <<run, i>> \in Delta
        BY <1>0, DemoAssumption
    <2>2. Pool!TypeOK' /\ AttemptsLeft'
        BY <1>0, <1>4, <2>1
           DEF WriterCommits, CommitDelta, Pool!TypeOK, Pool!StoreTypeOK,
               AttemptsLeft
    <2>3. version' \in [Row -> Nat]
        BY <1>4, DemoAssumption
           DEF WriterCommits, Writers!Commit, Writers!Publish, TInv, TypeOK
    <2>4. QED
        BY <1>4, <2>2, <2>3
           DEF WriterCommits, Writers!Commit, TInv, TypeOK
<1>5. CASE WritersSucceed \/ WritersFail \/ Kill
    <2>1. Pool!TypeOK' /\ AttemptsLeft'
        BY <1>0, <1>5
           DEF WritersSucceed, WritersFail, Kill, Pool!TypeOK, Pool!StoreTypeOK,
               AttemptsLeft
    <2>2. inDoubt' \subseteq Delta /\ taken' \subseteq Delta
        BY <1>0, <1>5, GivenUp, CutOff DEF WritersSucceed, WritersFail, Kill
    <2>3. stage' \in {"running", "ok", "error"} /\ version' = version
        BY <1>5 DEF WritersSucceed, WritersFail, Kill, Writers!ReturnOk,
                    Writers!ReturnError, TInv, TypeOK
    <2>4. main' \in Setup \cup Spawned \cup Ended
        BY <1>5 DEF WritersSucceed, WritersFail, Kill, Spawned, Ended
    <2>5. QED
        BY <1>5, <2>1, <2>2, <2>3, <2>4
           DEF WritersSucceed, WritersFail, Kill, TInv, TypeOK
<1>6. CASE StartAgain
    <2>1. Pool!TypeOK' /\ AttemptsLeft'
        <3>1. <<>> \in Seq(Worker)
            OBVIOUS
        <3>2. QED
            BY <1>0, <1>6, <3>1
               DEF StartAgain, Pool!TypeOK, Pool!StoreTypeOK, Pool!PCs,
                   AttemptsLeft
    <2>2. report' \in [Synced : Count, Dead : Count, Unfinished : Count]
        BY <1>6, JobsCounted DEF StartAgain, NoReport
    <2>3. run' \in 1 .. MaxRuns
        BY <1>0, <1>6, DemoAssumption DEF StartAgain
    <2>4. QED
        BY <1>6, <2>1, <2>2, <2>3 DEF StartAgain, TInv, TypeOK, Setup
<1>7. CASE PoolMoves
    <2>1. Pool!TypeOK' /\ AttemptsLeft'
        BY <1>7, PoolStepShown DEF PoolMoves
    <2>2. QED
        BY <1>7, <2>1 DEF PoolMoves, TInv, TypeOK
<1>8. ASSUME NEW d \in Delta, Settle(d) PROVE (TypeOK /\ AttemptsLeft)'
    <2>1. Pool!TypeOK' /\ AttemptsLeft'
        BY <1>0, <1>8
           DEF Settle, Publish, CommitDelta, Pool!TypeOK, Pool!StoreTypeOK,
               AttemptsLeft
    <2>2. version' \in [Row -> Nat]
        <3>1. d[2] \in 1 .. Len(Plan)
            BY DemoAssumption
        <3>2. QED
            BY <1>8, <3>1, DemoAssumption DEF Settle, Publish, TInv, TypeOK
    <2>3. QED
        BY <1>8, <2>1, <2>2 DEF Settle, Publish, TInv, TypeOK
<1>9. CASE EndProcess
    <2>1. Pool!TypeOK' /\ AttemptsLeft'
        BY <1>0, <1>9
           DEF EndProcess, Pool!TypeOK, Pool!StoreTypeOK, AttemptsLeft
    <2>2. taken' \subseteq Delta
        BY <1>0, <1>9, CutOff DEF EndProcess
    <2>3. QED
        BY <1>9, <2>1, <2>2 DEF EndProcess, TInv, TypeOK, Ended
<1>10. CASE SettleDispatch
    <2>1. Pool!TypeOK' /\ AttemptsLeft'
        <3>1. CASE CommitJobs(taken)
            <4>1. Pool!StoreTypeOK'
                BY <1>0, <3>1
                   DEF CommitJobs, Pool!TypeOK, Pool!StoreTypeOK, Pool!JobStates
            <4>2. AttemptsLeft'
                BY <1>0, <3>1
                   DEF CommitJobs, TInv, TakenInv, AttemptsLeft, Terminal
            <4>3. QED
                BY <1>0, <1>10, <4>1, <4>2 DEF SettleDispatch, Pool!TypeOK
        <3>2. CASE UNCHANGED storeVars
            BY <1>0, <1>10, <3>2
               DEF SettleDispatch, Pool!TypeOK, Pool!StoreTypeOK, AttemptsLeft
        <3>3. QED
            BY <1>10, <3>1, <3>2 DEF SettleDispatch
    <2>2. QED
        BY <1>0, <1>10, <2>1 DEF SettleDispatch, TInv, TypeOK
<1>11. ASSUME NEW w \in Worker, LateCall(w) PROVE (TypeOK /\ AttemptsLeft)'
    BY <1>11, LateCallShown DEF LateCall, TInv, TypeOK
<1>12. QED
    BY <1>1, <1>2, <1>3, <1>4, <1>5, <1>6, <1>7, <1>8, <1>9, <1>10, <1>11,
       StepKinds

LEMMA TakenStep == TInv /\ [Next]_vars => TakenInv'
<1> SUFFICES ASSUME TInv, [Next]_vars PROVE TakenInv'
    OBVIOUS
<1> USE DEF storeVars, mainVars, writerVars, doubtVars, poolVars, envVars,
            Call, Setup,
            Ended
<1>0. TakenInv
    BY DEF TInv
<1>1. CASE MainMoves
    BY <1>0, <1>1 DEF MainMoves, TakenInv
<1>2. CASE \/ ResetJobs \/ ResetDeltas \/ BuildScenario \/ CountJobs
           \/ WritersSucceed \/ WritersFail \/ StartAgain
    <2>1. taken' = taken
        BY <1>2 DEF ResetJobs, ResetDeltas, BuildScenario, CountJobs,
                    WritersSucceed, WritersFail, StartAgain
    <2>2. CASE ResetJobs
        BY <1>0, <2>1, <2>2 DEF ResetJobs, TakenInv, TInv, TypeOK
    <2>3. CASE StartAgain
        BY <1>0, <2>1, <2>3 DEF StartAgain, TakenInv
    <2>4. CASE \/ ResetDeltas \/ BuildScenario \/ CountJobs
               \/ WritersSucceed \/ WritersFail
        <3>1. taken = {}
            BY <1>0, <2>4 DEF ResetDeltas, BuildScenario, CountJobs,
                              WritersSucceed, WritersFail, TakenInv
        <3>2. QED
            BY <2>1, <3>1 DEF TakenInv
    <2>5. QED
        BY <1>2, <2>2, <2>3, <2>4
<1>3. ASSUME NEW i \in 1 .. Len(Plan), WriterCommits(i) PROVE TakenInv'
    BY <1>0, <1>3 DEF WriterCommits, TakenInv
<1>4. CASE PoolMoves
    BY <1>0, <1>4 DEF PoolMoves, TakenInv, Spawned
<1>5. ASSUME NEW d \in Delta, Settle(d) PROVE TakenInv'
    BY <1>0, <1>5 DEF Settle, Publish, CommitDelta, TakenInv
<1>6. CASE Kill \/ EndProcess
    <2>1. /\ UNCHANGED <<deltas, jobState, pc>> /\ main' \in Ended
          /\ WorkerCutOff
        BY <1>6 DEF Kill, EndProcess
    <2>2. QED
        BY <1>0, <2>1, CutOff DEF TakenInv
<1>7. CASE SettleDispatch
    BY <1>7 DEF SettleDispatch, TakenInv
<1>8. ASSUME NEW w \in Worker, LateCall(w) PROVE TakenInv'
    <2>1. taken = {}
        BY <1>0, <1>8, LateCallShown DEF TakenInv
    <2>2. QED
        BY <1>8, <2>1 DEF LateCall, TakenInv
<1>9. QED
    BY <1>1, <1>2, <1>3, <1>4, <1>5, <1>6, <1>7, <1>8, StepKinds

\* Every variable of the program, of its writer stage and of its worker keeps
\* its type, through any number of runs.
THEOREM DemoTypeCorrect == Spec => []TypeOK
<1>1. Spec => []TInv
    <2>1. TInv /\ [Next]_vars => TInv'
        BY TypeStep, TakenStep DEF TInv
    <2>2. QED
        BY <2>1, TypeInit, PTL DEF Spec
<1>2. TInv => TypeOK
    BY DEF TInv
<1>3. QED
    BY <1>1, <1>2, PTL

----------------------------------------------------------------------------
(* Runs, and COMMITs in doubt.                                             *)

\* No delta is of a run to come.  A run has none in doubt before its writer
\* stage has returned, and none at all before that stage; a COMMIT in doubt
\* is not there yet.
RunInv ==
    /\ \A d \in deltas \cup inDoubt : d[1] <= run
    /\ main \in Setup \cup {"writers"} => \A d \in inDoubt : d[1] < run
    /\ main \in Setup => \A d \in deltas : d[1] < run
    /\ inDoubt \cap deltas = {}

LEMMA RunInit == Init => RunInv
BY DEF Init, Pool!Init, Pool!StoreInit, RunInv

LEMMA RunStep == TInv /\ RunInv /\ [Next]_vars => RunInv'
<1> SUFFICES ASSUME TInv, RunInv, [Next]_vars PROVE RunInv'
    OBVIOUS
<1> USE DEF storeVars, mainVars, writerVars, doubtVars, poolVars, envVars,
            Call, Setup
<1>0. /\ run \in 1 .. MaxRuns /\ run \in Nat
      /\ deltas \subseteq Delta /\ inDoubt \subseteq Delta
      /\ \A d \in Delta : d[1] \in Nat
    <2>1. run \in 1 .. MaxRuns /\ deltas \subseteq Delta /\ inDoubt \subseteq Delta
        BY DEF TInv, TypeOK, Pool!TypeOK, Pool!StoreTypeOK
    <2>2. QED
        BY <2>1, DemoAssumption
<1>1. CASE MainMoves \/ ResetJobs \/ BuildScenario \/ CountJobs
    BY <1>1 DEF MainMoves, ResetJobs, BuildScenario, CountJobs, RunInv
<1>2. CASE ResetDeltas
    BY <1>2 DEF ResetDeltas, RunInv
<1>3. ASSUME NEW i \in 1 .. Len(Plan), WriterCommits(i) PROVE RunInv'
    <2>1. /\ main = "writers" /\ deltas' = deltas \cup {<<run, i>>}
          /\ UNCHANGED <<run, main, inDoubt>>
        BY <1>3 DEF WriterCommits, CommitDelta
    <2>2. \A d \in inDoubt : d[1] < run
        BY <2>1 DEF RunInv
    <2>3. QED
        BY <1>0, <2>1, <2>2 DEF RunInv
<1>4. CASE WritersSucceed
    BY <1>4 DEF WritersSucceed, RunInv
<1>5. CASE WritersFail \/ Kill
    <2>1. /\ main' \notin Setup \cup {"writers"}
          /\ UNCHANGED <<run, deltas>>
        BY <1>5 DEF WritersFail, Kill
    <2>2. PICK D \in SUBSET Writers!DueEvents :
             inDoubt' = inDoubt \cup {<<run, i>> : i \in D}
        BY <1>5 DEF WritersFail, Kill
    <2>3. \A d \in inDoubt' : d \in inDoubt \/ (d \notin deltas /\ d[1] = run)
        BY <2>2, GivenUp
    <2>4. QED
        BY <1>0, <2>1, <2>3 DEF RunInv
<1>6. CASE StartAgain
    <2>1. run' = run + 1 /\ UNCHANGED <<deltas, inDoubt>>
        BY <1>6 DEF StartAgain
    <2>2. \A d \in deltas \cup inDoubt : d[1] < run'
        BY <1>0, <2>1 DEF RunInv
    <2>3. QED
        BY <1>0, <2>1, <2>2 DEF RunInv
<1>7. CASE PoolMoves
    <2>1. UNCHANGED <<deltas, run, main, inDoubt>>
        BY <1>7, PoolLeaves DEF PoolMoves
    <2>2. QED
        BY <2>1 DEF RunInv
<1>8. ASSUME NEW d \in Delta, Settle(d) PROVE RunInv'
    <2>1. /\ d \in inDoubt /\ inDoubt' = inDoubt \ {d}
          /\ deltas' \subseteq deltas \cup {d} /\ UNCHANGED <<run, main>>
        BY <1>8 DEF Settle, Publish, CommitDelta
    <2>2. QED
        BY <2>1 DEF RunInv
<1>9. CASE EndProcess \/ SettleDispatch
    BY <1>9 DEF EndProcess, SettleDispatch, CommitJobs, RunInv
<1>10. ASSUME NEW w \in Worker, LateCall(w) PROVE RunInv'
    BY <1>10, LateCallShown DEF LateCall, RunInv
<1>11. QED
    BY <1>1, <1>2, <1>3, <1>4, <1>5, <1>6, <1>7, <1>8, <1>9, <1>10, StepKinds

----------------------------------------------------------------------------
(* The stages.                                                             *)

\* During the setup neither stage has done anything; the flag is set when the
\* writer stage returns; main waits for the worker only if that stage has
\* committed the whole plan.
StageInv ==
    /\ main \in Setup =>
          /\ stage = "running" /\ ~writersDone
          /\ \A w \in Worker : pc[w] = "select"
          /\ errCh = <<>> /\ ~stopped /\ result = "running"
    /\ main = "writers" => stage = "running" /\ ~writersDone
    /\ main \in {"join", "count", "snapshot", "done", "reported"}
          => stage = "ok"
    /\ stage = "ok" => writersDone /\ Mine(deltas) = 1 .. Len(Plan)

LEMMA StageInit == Init => StageInv
BY DEF Init, Pool!Init, Setup, StageInv

LEMMA StageStep == TInv /\ StageInv /\ [Next]_vars => StageInv'
<1> SUFFICES ASSUME TInv, StageInv, [Next]_vars PROVE StageInv'
    OBVIOUS
<1> USE DEF storeVars, mainVars, writerVars, doubtVars, poolVars, envVars,
            Call, Setup
<1>1. CASE MainMoves \/ ResetJobs \/ BuildScenario \/ CountJobs
    <2>1. /\ UNCHANGED <<deltas, run, stage, writersDone, pc, errCh, stopped,
                         result>>
          /\ main' \in Setup => main \in Setup
          /\ main' = "writers" => main \in Setup \cup {"writers"}
          /\ main' \in {"join", "count", "snapshot", "done", "reported"}
                => main \in {"join", "count", "snapshot", "done", "reported"}
        BY <1>1 DEF MainMoves, ResetJobs, BuildScenario, CountJobs
    <2>2. QED
        BY <2>1 DEF StageInv, Mine
<1>2. CASE ResetDeltas
    BY <1>2 DEF ResetDeltas, StageInv
<1>3. ASSUME NEW i \in 1 .. Len(Plan), WriterCommits(i) PROVE StageInv'
    BY <1>3 DEF WriterCommits, Writers!Commit, StageInv
<1>4. CASE WritersSucceed
    <2>1. /\ Mine(deltas) = 1 .. Len(Plan) /\ Mine(deltas)' = Mine(deltas)
          /\ main' = "join" /\ stage' = "ok" /\ writersDone'
        BY <1>4 DEF WritersSucceed, Writers!ReturnOk, Writers!Event
    <2>2. QED
        BY <2>1 DEF StageInv
<1>5. CASE WritersFail
    BY <1>5 DEF WritersFail, Writers!ReturnError, StageInv
<1>6. CASE Kill
    BY <1>6 DEF Kill, StageInv, Mine
<1>7. CASE StartAgain
    BY <1>7 DEF StartAgain, StageInv
<1>8. CASE PoolMoves
    <2>1. UNCHANGED <<deltas, run, main, stage, writersDone>>
        BY <1>8, PoolLeaves DEF PoolMoves
    <2>2. main \notin Setup
        BY <1>8 DEF PoolMoves, Spawned
    <2>3. QED
        BY <2>1, <2>2 DEF StageInv, Mine
<1>9. ASSUME NEW d \in Delta, Settle(d) PROVE StageInv'
    <2>1. /\ deltas \subseteq deltas'
          /\ UNCHANGED <<run, main, stage, writersDone, pc, errCh, stopped,
                         result>>
        BY <1>9 DEF Settle, Publish, CommitDelta
    <2>2. Mine(deltas) = 1 .. Len(Plan) => Mine(deltas)' = 1 .. Len(Plan)
        BY <2>1 DEF Mine
    <2>3. QED
        BY <2>1, <2>2 DEF StageInv
<1>10. CASE EndProcess \/ SettleDispatch
    BY <1>10 DEF EndProcess, SettleDispatch, CommitJobs, StageInv, Mine
<1>11. ASSUME NEW w \in Worker, LateCall(w) PROVE StageInv'
    <2>1. main = "exited"
        BY <1>11 DEF LateCall
    <2>2. UNCHANGED <<deltas, run, main, stage, writersDone>>
        BY <1>11, LateCallShown DEF LateCall
    <2>3. QED
        BY <2>1, <2>2 DEF StageInv, Mine
<1>12. QED
    BY <1>1, <1>2, <1>3, <1>4, <1>5, <1>6, <1>7, <1>8, <1>9, <1>10, <1>11,
       StepKinds

----------------------------------------------------------------------------
(* The verdict of the one worker, and what the report rests on.            *)

OwnDispatched == \A i \in 1 .. Len(Plan) : jobState[<<run, i>>] # "absent"

\* The worker that found nothing pending after the writer stage had succeeded
\* has dispatched every planned event; one that returned without an error has
\* left no job unfinished; and main has that result when it counts the jobs.
VerdictInv ==
    /\ \A w \in Worker :
          /\ pc[w] \in {"countDeltas", "countJobs"} => writersDone
          /\ pc[w] = "countJobs" /\ stage = "ok" => OwnDispatched
          /\ stopped => pc[w] = "returned"
          /\ pc[w] = "returned" /\ errCh = <<>> =>
                /\ writersDone /\ Pool!Unfinished = {}
                /\ stage = "ok" => OwnDispatched
          /\ result # "running" => pc[w] = "returned"
    /\ result = "nil" => errCh = <<>>
    /\ main \in {"count", "snapshot", "done", "reported"} => result = "nil"

LEMMA VerdictInit == Init => VerdictInv
BY DEF Init, Pool!Init, VerdictInv

\* With one worker, nobody changes a job after the worker has returned.
LEMMA ReturnedIsFinal ==
    ASSUME TInv, PoolMoves, NEW w \in Worker, pc[w] = "returned"
    PROVE  UNCHANGED <<jobState, pc, errCh, stopped>>
<1> USE DEF Pool!storeVars, Pool!poolVars
<1>1. \A v \in Worker : v = w
    BY DemoAssumption
<1>2. CASE Pool!Collect
    BY <1>2 DEF Pool!Collect
<1>3. ASSUME NEW v \in Worker, Pool!WorkerStep(v) \/ Pool!CallFails(v)
      PROVE  FALSE
    <2>1. pc[v] = "returned"
        BY <1>1
    <2>2. QED
        BY <1>3, <2>1
           DEF Pool!WorkerStep, Pool!SelectRunOnce, Pool!SelectDone,
               Pool!SelectCtx, Pool!RunDispatch, Pool!RunClaim, Pool!RunJob,
               Pool!LeaseLost, Pool!RunOnceReturns, Pool!AfterRunOnce,
               Pool!ShouldStop, Pool!WorkComplete, Pool!CtxFails,
               Pool!CallFails, Pool!SendError
<1>4. ASSUME NEW d \in Delta, Pool!TimePasses(d)
      PROVE  UNCHANGED <<jobState, pc, errCh, stopped>>
    BY <1>4 DEF Pool!TimePasses, Pool!LeaseExpires, Pool!BackoffElapses
<1>5. QED
    BY <1>2, <1>3, <1>4 DEF PoolMoves, Pool!PoolStep

\* A dispatched job stays one.
LEMMA DispatchedStays ==
    ASSUME TInv, JobMoves, run' = run, OwnDispatched
    PROVE  OwnDispatched'
<1>1. \A i \in 1 .. Len(Plan) : <<run, i>> \in Delta
    BY DemoAssumption DEF TInv, TypeOK
<1>2. QED
    BY <1>1 DEF OwnDispatched, JobMoves

LEMMA VerdictPool ==
    ASSUME TInv, StageInv, VerdictInv, PoolMoves
    PROVE  VerdictInv'
<1> USE DEF mainVars, writerVars, doubtVars, Pool!storeVars, Pool!poolVars,
            Pool!envVars,
            Pool!Goto
<1>0. /\ pc \in [Worker -> Pool!PCs] /\ errCh \in Seq(Worker)
      /\ UNCHANGED <<run, main, stage, writersDone>>
    BY PoolLeaves DEF TInv, TypeOK, Pool!TypeOK, PoolMoves
<1>1. PICK w \in Worker : \A v \in Worker : v = w
    BY DemoAssumption
<1>2. OwnDispatched => OwnDispatched'
    BY <1>0, DispatchedStays, PoolStepShown DEF PoolMoves
<1>3. CASE pc[w] = "returned"
    <2>1. UNCHANGED <<jobState, pc, errCh, stopped>>
        BY <1>3, ReturnedIsFinal
    <2>2. result' = result \/ result' = IF errCh = <<>> THEN "nil" ELSE "error"
        <3>1. CASE Pool!Collect
            BY <3>1 DEF Pool!Collect
        <3>2. ASSUME NEW d \in Delta, Pool!TimePasses(d)
              PROVE  result' = result
            BY <3>2 DEF Pool!TimePasses
        <3>3. ASSUME NEW v \in Worker, Pool!WorkerStep(v) \/ Pool!CallFails(v)
              PROVE  result' = result
            BY <3>3
               DEF Pool!WorkerStep, Pool!SelectRunOnce, Pool!SelectDone,
                   Pool!SelectCtx, Pool!RunDispatch, Pool!RunClaim,
                   Pool!RunJob, Pool!LeaseLost, Pool!RunOnceReturns,
                   Pool!AfterRunOnce, Pool!ShouldStop, Pool!WorkComplete,
                   Pool!CtxFails, Pool!CallFails, Pool!SendError
        <3>4. QED
            BY <3>1, <3>2, <3>3 DEF PoolMoves, Pool!PoolStep
    <2>3. main \in {"count", "snapshot", "done", "reported"}
             => result = "nil" /\ errCh = <<>>
        BY DEF VerdictInv
    <2>4. QED
        BY <1>0, <1>1, <1>2, <1>3, <2>1, <2>2, <2>3
           DEF VerdictInv, Pool!Unfinished, Pool!JobsIn
<1>4. CASE pc[w] # "returned"
    <2>0. /\ ~stopped /\ result = "running"
          /\ main \notin {"count", "snapshot", "done", "reported"}
        BY <1>4 DEF VerdictInv
    <2>1. SUFFICES ASSUME Pool!WorkerStep(w) \/ Pool!CallFails(w)
                   PROVE  VerdictInv'
        <3>1. ~Pool!Collect
            BY <1>4 DEF Pool!Collect
        <3>2. ASSUME NEW d \in Delta, Pool!TimePasses(d)
              PROVE  VerdictInv'
            <4>1. UNCHANGED <<jobState, pc, errCh, stopped, result>>
                BY <3>2 DEF Pool!TimePasses, Pool!LeaseExpires,
                            Pool!BackoffElapses
            <4>2. QED
                BY <1>0, <4>1
                   DEF VerdictInv, OwnDispatched, Pool!Unfinished, Pool!JobsIn
        <3>3. QED
            BY <1>1, <2>1, <3>1, <3>2 DEF PoolMoves, Pool!PoolStep
    <2>2. CASE \/ Pool!SelectRunOnce(w) \/ Pool!SelectCtx(w)
               \/ Pool!RunOnceReturns(w) \/ Pool!ShouldStop(w)
        BY <1>0, <1>1, <2>0, <2>2
           DEF Pool!SelectRunOnce, Pool!SelectCtx, Pool!RunOnceReturns,
               Pool!ShouldStop, VerdictInv
    <2>3. CASE Pool!SelectDone(w)
        BY <2>0, <2>3 DEF Pool!SelectDone
    <2>4. CASE Pool!RunDispatch(w) \/ Pool!RunClaim(w) \/ Pool!AfterRunOnce(w)
        BY <1>0, <1>1, <2>0, <2>4
           DEF Pool!RunDispatch, Pool!RunClaim, Pool!AfterRunOnce, VerdictInv
    <2>5. ASSUME NEW d \in Delta, Pool!RunJob(w, d) \/ Pool!LeaseLost(w, d)
          PROVE  VerdictInv'
        BY <1>0, <1>1, <2>0, <2>5 DEF Pool!RunJob, Pool!LeaseLost, VerdictInv
    <2>6. CASE Pool!WorkComplete(w) /\ pc[w] = "countDeltas"
        <3>1. Pool!PendingDeltas = {} /\ stage = "ok" => OwnDispatched
            BY DEF StageInv, Mine, Pool!PendingDeltas, OwnDispatched
        <3>2. /\ UNCHANGED <<errCh, stopped, result>>
              /\ pc' = [pc EXCEPT ![w] = IF Pool!PendingDeltas = {}
                                         THEN "countJobs" ELSE "select"]
            BY <2>6 DEF Pool!WorkComplete
        <3>3. QED
            BY <1>0, <1>1, <1>2, <2>0, <2>6, <3>1, <3>2 DEF VerdictInv
    <2>7. CASE Pool!WorkComplete(w) /\ pc[w] = "countJobs"
        <3>1. /\ UNCHANGED <<jobState, errCh, result>>
              /\ \/ /\ Pool!Unfinished = {}
                    /\ stopped' = TRUE /\ pc' = [pc EXCEPT ![w] = "returned"]
                 \/ stopped' = stopped /\ pc' = [pc EXCEPT ![w] = "select"]
            BY <2>7 DEF Pool!WorkComplete, Pool!StopAll
        <3>2. Pool!Unfinished' = Pool!Unfinished
            BY <3>1 DEF Pool!Unfinished, Pool!JobsIn
        <3>3. QED
            BY <1>0, <1>1, <1>2, <2>0, <2>7, <3>1, <3>2 DEF VerdictInv
    <2>8. CASE Pool!CallFails(w) \/ Pool!CtxFails(w)
        BY <1>0, <1>1, <2>0, <2>8
           DEF Pool!CtxFails, Pool!CallFails, VerdictInv
    <2>9. CASE Pool!SendError(w)
        <3>1. errCh' # <<>>
            BY <1>0, <2>9 DEF Pool!SendError
        <3>2. QED
            BY <1>0, <1>1, <2>0, <2>9, <3>1
               DEF Pool!SendError, Pool!StopAll, VerdictInv
    <2>10. QED
        BY <2>1, <2>2, <2>3, <2>4, <2>5, <2>6, <2>7, <2>8, <2>9
           DEF Pool!WorkerStep, Pool!WorkComplete
<1>5. QED
    BY <1>3, <1>4

LEMMA VerdictStep == TInv /\ StageInv /\ VerdictInv /\ [Next]_vars => VerdictInv'
<1> SUFFICES ASSUME TInv, StageInv, VerdictInv, [Next]_vars PROVE VerdictInv'
    OBVIOUS
<1> USE DEF storeVars, mainVars, writerVars, doubtVars, poolVars, envVars,
            Call, Setup,
            Pool!Unfinished, Pool!JobsIn, OwnDispatched
<1>0. result \in {"running", "nil", "error"}
    BY DEF TInv, TypeOK, Pool!TypeOK
<1>1. CASE MainMoves
    <2>1. /\ UNCHANGED <<jobState, run, stage, writersDone, pc, errCh, stopped,
                         result>>
          /\ main' \in {"count", "snapshot", "done", "reported"} => result = "nil"
        BY <1>0, <1>1 DEF MainMoves, VerdictInv
    <2>2. QED
        BY <2>1 DEF VerdictInv
<1>2. CASE ResetDeltas \/ BuildScenario \/ CountJobs
    BY <1>2 DEF ResetDeltas, BuildScenario, CountJobs, VerdictInv
<1>3. CASE ResetJobs
    BY <1>3 DEF ResetJobs, StageInv, VerdictInv
<1>4. ASSUME NEW i \in 1 .. Len(Plan), WriterCommits(i) PROVE VerdictInv'
    BY <1>4 DEF WriterCommits, CommitDelta, Writers!Commit, VerdictInv
<1>5. CASE WritersSucceed \/ WritersFail
    <2>1. /\ ~writersDone /\ main' \in {"join", "cancel"}
          /\ UNCHANGED <<jobState, run, pc, errCh, stopped, result>>
        BY <1>5 DEF WritersSucceed, WritersFail, StageInv
    <2>2. QED
        BY <2>1 DEF VerdictInv
<1>6. CASE Kill
    BY <1>6 DEF Kill, VerdictInv
<1>7. CASE StartAgain
    BY <1>7 DEF StartAgain, VerdictInv
<1>8. CASE PoolMoves
    BY <1>8, VerdictPool
<1>9. ASSUME NEW d \in Delta, Settle(d) PROVE VerdictInv'
    BY <1>9 DEF Settle, Publish, CommitDelta, VerdictInv
<1>10. CASE EndProcess
    BY <1>10 DEF EndProcess, VerdictInv
<1>11. CASE SettleDispatch
    <2>1. /\ UNCHANGED <<run, main, stage, writersDone, pc, errCh, stopped,
                         result>>
          /\ \A w \in Worker : pc[w] \in {"dispatch", "select"}
        BY <1>11 DEF SettleDispatch, TInv, TakenInv
    <2>2. QED
        BY <2>1 DEF VerdictInv
<1>12. ASSUME NEW w \in Worker, LateCall(w) PROVE VerdictInv'
    <2>1. /\ main = "exited" /\ UNCHANGED <<run, main, stage>>
          /\ UNCHANGED <<errCh, stopped, result, writersDone>>
          /\ pc[w] \in {"claim", "work", "after"}
          /\ pc' = pc \/ pc' = [pc EXCEPT ![w] = "fail"]
        BY <1>12, LateCallShown DEF LateCall
    <2>2. /\ \A v \in Worker : v = w
          /\ pc \in [Worker -> Pool!PCs]
        BY DemoAssumption DEF TInv, TypeOK, Pool!TypeOK
    <2>3. pc'[w] \in {"claim", "work", "after", "fail"}
        BY <2>1, <2>2
    <2>4. QED
        BY <2>1, <2>2, <2>3 DEF VerdictInv
<1>13. QED
    BY <1>1, <1>2, <1>3, <1>4, <1>5, <1>6, <1>7, <1>8, <1>9, <1>10, <1>11,
       <1>12, StepKinds

LEMMA DemoInv == Spec => [](TInv /\ RunInv /\ StageInv /\ VerdictInv)
<1>1. TInv /\ [Next]_vars => TInv'
    BY TypeStep, TakenStep DEF TInv
<1>2. QED
    BY <1>1, TypeInit, RunInit, RunStep, StageInit, StageStep, VerdictInit,
       VerdictStep, PTL DEF Spec

\* Once main is past the join, no step of this run changes a job.
LEMMA JobsFinal ==
    ASSUME TInv, VerdictInv, [Next]_vars,
           main \in {"count", "snapshot", "done", "reported"}
    PROVE  jobState' = jobState
<1> USE DEF storeVars, Call, Setup
<1>1. CASE MainMoves \/ StartAgain
    BY <1>1 DEF MainMoves, StartAgain
<1>2. CASE ResetJobs \/ ResetDeltas \/ BuildScenario \/ CountJobs
    BY <1>2 DEF ResetJobs, ResetDeltas, BuildScenario, CountJobs
<1>3. ASSUME NEW i \in 1 .. Len(Plan), WriterCommits(i)
      PROVE  jobState' = jobState
    BY <1>3 DEF WriterCommits
<1>4. CASE WritersSucceed \/ WritersFail \/ Kill
    BY <1>4 DEF WritersSucceed, WritersFail, Kill
<1>5. CASE PoolMoves
    <2>1. PICK w \in Worker : TRUE
        BY DemoAssumption
    <2>2. pc[w] = "returned"
        BY DEF VerdictInv
    <2>3. QED
        BY <1>5, <2>2, ReturnedIsFinal
<1>6. ASSUME NEW d \in Delta, Settle(d) PROVE jobState' = jobState
    BY <1>6 DEF Settle, Publish, CommitDelta
<1>7. CASE EndProcess
    BY <1>7 DEF EndProcess
<1>8. CASE SettleDispatch
    <2>1. \A w \in Worker : pc[w] = "returned"
        BY DEF VerdictInv
    <2>2. \A w \in Worker : pc[w] \in {"dispatch", "select"}
        BY <1>8 DEF SettleDispatch, TInv, TakenInv
    <2>3. QED
        BY <2>1, <2>2, DemoAssumption
<1>9. ASSUME NEW w \in Worker, LateCall(w) PROVE jobState' = jobState
    BY <1>9 DEF LateCall
<1>10. QED
    BY <1>1, <1>2, <1>3, <1>4, <1>5, <1>6, <1>7, <1>8, <1>9, StepKinds

\* The report that main prints is that of a moment at which the worker is
\* gone: no job changes from the count on, until the program is started again.
THEOREM DemoCountedIsFinal == Spec => CountedIsFinal
<1>1. TInv /\ VerdictInv /\ [Next]_vars =>
         [(main \in {"snapshot", "done", "reported"} /\ run' = run)
             => jobState' = jobState]_vars
    BY JobsFinal
<1>2. QED
    BY <1>1, DemoInv, PTL DEF CountedIsFinal, Spec

CountedInv ==
    main \in {"snapshot", "done", "reported"} =>
        report = [Synced |-> Cardinality(JobsIn({"synced"})),
                  Dead |-> Cardinality(JobsIn({"dead"})),
                  Unfinished |-> 0]

LEMMA CountedStep ==
    TInv /\ VerdictInv /\ CountedInv /\ [Next]_vars => CountedInv'
<1> SUFFICES ASSUME TInv, VerdictInv, CountedInv, [Next]_vars,
                    main' \in {"snapshot", "done", "reported"}
             PROVE  report' = [Synced |-> Cardinality(JobsIn({"synced"})),
                               Dead |-> Cardinality(JobsIn({"dead"})),
                               Unfinished |-> 0]'
    BY DEF CountedInv
<1> USE DEF mainVars, Call, Setup
<1>1. CASE CountJobs
    <2>1. PICK w \in Worker : TRUE
        BY DemoAssumption
    <2>2. Pool!Unfinished = {}
        BY <1>1, <2>1 DEF CountJobs, VerdictInv
    <2>3. Cardinality(Pool!Unfinished) = 0
        BY <2>2, FS_EmptySet
    <2>4. jobState' = jobState
        BY <1>1, JobsFinal DEF CountJobs
    <2>5. JobsIn({"synced"})' = JobsIn({"synced"})
          /\ JobsIn({"dead"})' = JobsIn({"dead"})
        BY <2>4 DEF JobsIn
    <2>6. QED
        BY <1>1, <2>3, <2>5 DEF CountJobs
<1>2. CASE ~CountJobs
    <2>1. main \in {"snapshot", "done", "reported"} /\ report' = report
        <3>1. CASE MainMoves
            BY <3>1 DEF MainMoves
        <3>2. CASE \/ ResetJobs \/ ResetDeltas \/ BuildScenario
                   \/ WritersSucceed \/ WritersFail \/ Kill \/ StartAgain
                   \/ EndProcess \/ SettleDispatch
            BY <3>2 DEF ResetJobs, ResetDeltas, BuildScenario, WritersSucceed,
                        WritersFail, Kill, StartAgain, EndProcess,
                        SettleDispatch
        <3>3. ASSUME NEW i \in 1 .. Len(Plan), WriterCommits(i)
              PROVE  main' = main /\ report' = report
            BY <3>3 DEF WriterCommits
        <3>4. CASE PoolMoves
            BY <3>4 DEF PoolMoves
        <3>5. ASSUME NEW d \in Delta, Settle(d)
              PROVE  main' = main /\ report' = report
            BY <3>5 DEF Settle
        <3>6. ASSUME NEW w \in Worker, LateCall(w)
              PROVE  main' = main /\ report' = report
            BY <3>6 DEF LateCall
        <3>7. QED
            BY <1>2, <3>1, <3>2, <3>3, <3>4, <3>5, <3>6, StepKinds
    <2>2. jobState' = jobState
        BY <2>1, JobsFinal
    <2>3. JobsIn({"synced"})' = JobsIn({"synced"})
          /\ JobsIn({"dead"})' = JobsIn({"dead"})
        BY <2>2 DEF JobsIn
    <2>4. QED
        BY <2>1, <2>3 DEF CountedInv
<1>3. QED
    BY <1>1, <1>2

\* A printed report is true: every planned event has a job of this run that is
\* synced or dead, none is left over, and the numbers are those of the table.
THEOREM DemoReportIsTrue == Spec => []ReportIsTrue
<1>1. Init => CountedInv
    BY DEF Init, CountedInv
<1>2. TInv /\ StageInv /\ VerdictInv /\ CountedInv => ReportIsTrue
    <2> SUFFICES ASSUME TInv, StageInv, VerdictInv, CountedInv,
                        main = "reported"
                 PROVE  Mine(Settled) = 1 .. Len(Plan)
        BY DEF ReportIsTrue, CountedInv
    <2>1. PICK w \in Worker : pc[w] = "returned"
        BY DemoAssumption DEF VerdictInv
    <2>2. Pool!Unfinished = {} /\ OwnDispatched
        BY <2>1 DEF VerdictInv, StageInv
    <2>3. ASSUME NEW i \in 1 .. Len(Plan) PROVE <<run, i>> \in Settled
        <3>1. <<run, i>> \in Delta
            BY DemoAssumption DEF TInv, TypeOK
        <3>2. jobState[<<run, i>>] \in Pool!JobStates
            BY <3>1 DEF TInv, TypeOK, Pool!TypeOK, Pool!StoreTypeOK
        <3>3. QED
            BY <2>2, <3>1, <3>2
               DEF OwnDispatched, Pool!Unfinished, Pool!JobsIn, JobsIn,
                   Pool!JobStates, Pool!Terminal, Terminal, Settled
    <2>4. QED
        BY <2>3 DEF Mine
<1>3. QED
    BY <1>1, <1>2, CountedStep, DemoInv, PTL DEF Spec

----------------------------------------------------------------------------
(* What an earlier run has left.                                           *)

\* ResetSync leaves nothing of it; afterwards a delta or a job of an earlier
\* run is that of a COMMIT that has landed since.  Between the two DELETEs the
\* jobs are those of a Dispatch that has; the deltas are still to go.
LeftInv ==
    /\ LeftoverHasLanded
    /\ main = "resetDeltas"
          => \A d \in Delta : jobState[d] # "absent" => d \in landed

LEMMA LeftInit == Init => LeftInv
BY DEF Init, LeftInv, LeftoverHasLanded, Spawned

LEMMA LeftStep == TInv /\ RunInv /\ LeftInv /\ [Next]_vars => LeftInv'
<1> SUFFICES ASSUME TInv, RunInv, LeftInv, [Next]_vars PROVE LeftInv'
    OBVIOUS
<1> USE DEF storeVars, mainVars, writerVars, doubtVars, Call, Setup, Spawned,
            JobsIn
<1> DEFINE Later == Spawned \cup {"build", "reported"}
<1>1. CASE MainMoves \/ BuildScenario \/ CountJobs \/ WritersSucceed \/ WritersFail
    <2>1. /\ UNCHANGED <<deltas, jobState, run, landed>>
          /\ main' \in Later => main \in Later
          /\ main' # "resetDeltas" \/ main = "resetDeltas"
        BY <1>1 DEF MainMoves, BuildScenario, CountJobs, WritersSucceed,
                    WritersFail
    <2>2. QED
        BY <2>1 DEF LeftInv, LeftoverHasLanded
<1>2. CASE ResetJobs
    BY <1>2 DEF ResetJobs, LeftInv, LeftoverHasLanded
<1>3. CASE ResetDeltas
    BY <1>3 DEF ResetDeltas, LeftInv, LeftoverHasLanded
<1>4. ASSUME NEW i \in 1 .. Len(Plan), WriterCommits(i) PROVE LeftInv'
    <2>1. run \in 1 .. MaxRuns /\ MaxRuns \in Nat
        BY DemoAssumption DEF TInv, TypeOK
    <2>2. QED
        BY <1>4, <2>1 DEF WriterCommits, CommitDelta, LeftInv, LeftoverHasLanded
<1>5. CASE Kill \/ StartAgain
    BY <1>5 DEF Kill, StartAgain, LeftInv, LeftoverHasLanded
<1>6. CASE PoolMoves
    <2>1. /\ JobMoves /\ UNCHANGED <<deltas, run, main, landed>>
          /\ main # "resetDeltas"
        BY <1>6, PoolStepShown, PoolLeaves DEF PoolMoves
    <2>2. \A d \in Delta : jobState'[d] # "absent"
             => d \in deltas \/ jobState[d] # "absent"
        BY <2>1 DEF JobMoves
    <2>3. QED
        BY <2>1, <2>2 DEF LeftInv, LeftoverHasLanded
<1>7. ASSUME NEW d \in Delta, Settle(d) PROVE LeftInv'
    <2>1. /\ UNCHANGED <<jobState, run, main>>
          /\ landed \subseteq landed'
          /\ deltas' \subseteq deltas \cup {d}
          /\ d \in deltas' \ deltas /\ d[1] < run => d \in landed'
        BY <1>7 DEF Settle, Publish, CommitDelta
    <2>2. QED
        BY <2>1 DEF LeftInv, LeftoverHasLanded
<1>8. CASE EndProcess
    <2>1. /\ UNCHANGED <<deltas, jobState, run, landed>>
          /\ main' \in Later => main \in Later
          /\ main' # "resetDeltas"
        BY <1>8 DEF EndProcess
    <2>2. QED
        BY <2>1 DEF LeftInv, LeftoverHasLanded
<1>9. CASE SettleDispatch
    <2>1. /\ UNCHANGED <<deltas, run, main>> /\ landed \subseteq landed'
          /\ \A d \in Delta : jobState'[d] # "absent" =>
                \/ jobState[d] # "absent"
                \/ d \in taken /\ (d[1] < run => d \in landed')
        BY <1>9 DEF SettleDispatch, CommitJobs
    <2>2. main = "resetDeltas" => \A d \in taken : d[1] < run
        BY DEF TInv, TakenInv, RunInv
    <2>3. QED
        BY <2>1, <2>2 DEF LeftInv, LeftoverHasLanded
<1>10. ASSUME NEW w \in Worker, LateCall(w) PROVE LeftInv'
    BY <1>10 DEF LateCall, LeftInv, LeftoverHasLanded
<1>11. QED
    BY <1>1, <1>2, <1>3, <1>4, <1>5, <1>6, <1>7, <1>8, <1>9, <1>10, StepKinds

\* However a run has ended, a later one meets nothing of it but what Postgres
\* has committed since ResetSync began: the delta of a writer's late COMMIT and
\* its job, or the jobs of a Dispatch that came between the two DELETEs.
THEOREM DemoLeftoverHasLanded == Spec => []LeftoverHasLanded
<1>1. LeftInv => LeftoverHasLanded
    BY DEF LeftInv
<1>2. QED
    BY <1>1, LeftInit, LeftStep, DemoInv, PTL DEF Spec

----------------------------------------------------------------------------
(* Rows and deltas, across runs.                                           *)

\* The events of this run that have changed row r.
Changes(r) == {i \in Mine(deltas) : Plan[i].Kind # "ghost" /\ Plan[i].EntityID = r}

RowsAgree == \A r \in Row : version[r] = 1 + Cardinality(Changes(r))

\* Since buildScenario, which waits for the row locks, a COMMIT of an earlier
\* run that is still in doubt can only be a ghost's.
RowInv ==
    main \in Spawned \cup {"reported"} =>
        /\ RowsAgree
        /\ \A d \in inDoubt : d[1] < run => Plan[d[2]].Kind = "ghost"

\* The change of one more event of this run.
LEMMA RowsPublish ==
    ASSUME TInv, RowsAgree, NEW i \in 1 .. Len(Plan), i \notin Mine(deltas),
           Mine(deltas)' = Mine(deltas) \cup {i},
           version' = IF Plan[i].Kind = "ghost" THEN version
                      ELSE [version EXCEPT ![Plan[i].EntityID] = @ + 1]
    PROVE  RowsAgree'
<1>1. SUFFICES ASSUME NEW r \in Row
               PROVE  version'[r] = 1 + Cardinality(Changes(r)')
    BY DEF RowsAgree
<1>2. /\ version[r] = 1 + Cardinality(Changes(r))
      /\ version \in [Row -> Nat]
    BY DEF RowsAgree, TInv, TypeOK
<1>3. Changes(r)' = {j \in Mine(deltas) \cup {i} :
                        Plan[j].Kind # "ghost" /\ Plan[j].EntityID = r}
    BY DEF Changes
<1>4. IsFiniteSet(Changes(r)) /\ Cardinality(Changes(r)) \in Nat
    <2>1. IsFiniteSet(1 .. Len(Plan)) /\ Changes(r) \subseteq 1 .. Len(Plan)
        BY DemoAssumption, FS_Interval DEF Changes, Mine
    <2>2. QED
        BY <2>1, FS_Subset, FS_CardinalityType
<1>5. CASE Plan[i].Kind # "ghost" /\ Plan[i].EntityID = r
    <2>1. Changes(r)' = Changes(r) \cup {i} /\ i \notin Changes(r)
        BY <1>3, <1>5 DEF Changes
    <2>2. Cardinality(Changes(r)') = Cardinality(Changes(r)) + 1
        BY <1>4, <2>1, FS_AddElement
    <2>3. version'[r] = version[r] + 1
        BY <1>2, <1>5
    <2>4. QED
        BY <1>2, <1>4, <2>2, <2>3
<1>6. CASE Plan[i].Kind = "ghost" \/ Plan[i].EntityID # r
    <2>1. Changes(r)' = Changes(r)
        BY <1>3, <1>6 DEF Changes
    <2>2. Plan[i].Kind # "ghost" => Plan[i].EntityID \in Row
        BY DemoAssumption
    <2>3. version'[r] = version[r]
        BY <1>2, <1>6, <2>2
    <2>4. QED
        BY <1>2, <2>1, <2>3
<1>7. QED
    BY <1>5, <1>6

LEMMA RowInit == Init => RowInv
BY DEF Init, RowInv, Spawned

\* A step that changes neither the rows nor the deltas of this run.
LEMMA RowsKept ==
    ASSUME RowInv, UNCHANGED <<deltas, run, version>>,
           main' \in Spawned \cup {"reported"}
              => main \in Spawned \cup {"reported"},
           \A d \in inDoubt' \ inDoubt : d[1] = run, run \in Nat
    PROVE  RowInv'
<1>1. RowsAgree => RowsAgree'
    BY DEF RowsAgree, Changes, Mine
<1>2. QED
    BY <1>1 DEF RowInv

LEMMA RowStep == TInv /\ RunInv /\ RowInv /\ [Next]_vars => RowInv'
<1> SUFFICES ASSUME TInv, RunInv, RowInv, [Next]_vars PROVE RowInv'
    OBVIOUS
<1> USE DEF storeVars, mainVars, writerVars, doubtVars, Call, Setup
<1>0. run \in Nat /\ inDoubt \subseteq Delta
    BY DemoAssumption DEF TInv, TypeOK
<1>1. CASE MainMoves \/ CountJobs \/ WritersSucceed
    BY <1>0, <1>1, RowsKept
       DEF MainMoves, CountJobs, WritersSucceed, Writers!ReturnOk, Spawned
<1>2. CASE ResetJobs \/ ResetDeltas \/ StartAgain
    BY <1>2 DEF ResetJobs, ResetDeltas, StartAgain, RowInv, Spawned
<1>3. CASE BuildScenario
    <2>1. /\ main = "build" /\ ~RowsLocked
          /\ version' = [r \in Row |-> 1] /\ UNCHANGED <<deltas, inDoubt, run>>
        BY <1>3 DEF BuildScenario
    <2>2. \A d \in deltas : d[1] < run
        BY <2>1 DEF RunInv
    <2>3. Mine(deltas)' = {}
        BY <1>0, <2>1, <2>2 DEF Mine
    <2>4. ASSUME NEW r \in Row PROVE version'[r] = 1 + Cardinality(Changes(r)')
        <3>1. Changes(r)' = {}
            BY <2>3 DEF Changes
        <3>2. QED
            BY <2>1, <3>1, FS_EmptySet
    <2>5. \A d \in inDoubt' : Plan[d[2]].Kind = "ghost"
        BY <2>1 DEF RowsLocked
    <2>6. QED
        BY <2>4, <2>5 DEF RowInv, RowsAgree
<1>4. ASSUME NEW i \in 1 .. Len(Plan), WriterCommits(i) PROVE RowInv'
    <2>1. /\ main = "writers" /\ main' = main /\ run' = run
          /\ inDoubt' = inDoubt
          /\ i \notin Mine(deltas) /\ Mine(deltas)' = Mine(deltas) \cup {i}
          /\ version' = IF Plan[i].Kind = "ghost" THEN version
                        ELSE [version EXCEPT ![Plan[i].EntityID] = @ + 1]
        BY <1>4 DEF WriterCommits, Writers!Commit, Writers!Due, Writers!Publish
    <2>2. RowsAgree'
        BY <2>1, RowsPublish DEF RowInv, Spawned
    <2>3. QED
        BY <2>1, <2>2 DEF RowInv, Spawned
<1>5. CASE WritersFail \/ Kill
    <2>1. PICK D \in SUBSET Writers!DueEvents :
             inDoubt' = inDoubt \cup {<<run, i>> : i \in D}
        BY <1>5 DEF WritersFail, Kill
    <2>2. \A d \in inDoubt' \ inDoubt : d[1] = run
        BY <2>1, GivenUp
    <2>3. /\ UNCHANGED <<deltas, run, version>>
          /\ main' \in Spawned => main \in Spawned
          /\ main' # "reported"
        BY <1>5 DEF WritersFail, Kill, Writers!ReturnError, Spawned
    <2>4. QED
        BY <1>0, <2>2, <2>3, RowsKept
<1>6. CASE PoolMoves
    <2>1. UNCHANGED <<deltas, run, main, version, inDoubt>>
        BY <1>6, PoolLeaves DEF PoolMoves
    <2>2. QED
        BY <1>0, <2>1, RowsKept
<1>7. ASSUME NEW d \in Delta, Settle(d) PROVE RowInv'
    <2>1. d \in inDoubt /\ inDoubt' \subseteq inDoubt /\ UNCHANGED <<run, main>>
        BY <1>7 DEF Settle
    <2>2. CASE UNCHANGED <<deltas, version>>
        BY <1>0, <2>1, <2>2, RowsKept
    <2>3. CASE Publish(d)
        <3>0. deltas' = deltas \cup {d} /\ d \notin deltas
            BY <2>1, <2>3 DEF Publish, CommitDelta, RunInv
        <3>1. /\ d = <<d[1], d[2]>> /\ d[2] \in 1 .. Len(Plan)
              /\ d[1] \in Nat
            BY DemoAssumption
        <3>2. SUFFICES ASSUME main \in Spawned \cup {"reported"}
                       PROVE  RowsAgree'
            BY <2>1 DEF RowInv
        <3>3. CASE d[1] = run
            <4>1. /\ d[2] \notin Mine(deltas)
                  /\ Mine(deltas)' = Mine(deltas) \cup {d[2]}
                BY <2>1, <3>0, <3>1, <3>3 DEF Mine
            <4>2. version' = IF Plan[d[2]].Kind = "ghost" THEN version
                             ELSE [version EXCEPT ![Plan[d[2]].EntityID] = @ + 1]
                BY <2>3 DEF Publish
            <4>3. QED
                BY <3>1, <3>2, <4>1, <4>2, RowsPublish DEF RowInv
        <3>4. CASE d[1] # run
            <4>1. d[1] < run
                BY <1>0, <2>1, <3>1, <3>4 DEF RunInv
            <4>2. version' = version
                BY <2>1, <2>3, <3>2, <4>1 DEF Publish, RowInv
            <4>3. Mine(deltas)' = Mine(deltas)
                BY <2>1, <3>0, <3>4 DEF Mine
            <4>4. QED
                BY <3>2, <4>2, <4>3 DEF RowInv, RowsAgree, Changes
        <3>5. QED
            BY <3>3, <3>4
    <2>4. QED
        BY <1>7, <2>2, <2>3 DEF Settle
<1>8. CASE EndProcess \/ SettleDispatch
    BY <1>0, <1>8, RowsKept
       DEF EndProcess, SettleDispatch, CommitJobs, Spawned
<1>9. ASSUME NEW w \in Worker, LateCall(w) PROVE RowInv'
    <2>1. UNCHANGED <<deltas, run, main, version, inDoubt>>
        BY <1>9, LateCallShown DEF LateCall
    <2>2. QED
        BY <1>0, <2>1, RowsKept
<1>10. QED
    BY <1>1, <1>2, <1>3, <1>4, <1>5, <1>6, <1>7, <1>8, <1>9, StepKinds

\* The rows that buildScenario has put back are changed exactly as often as
\* this run has deltas for them; a COMMIT of an earlier run changes none.
THEOREM DemoRowsMatchDeltas == Spec => []RowsMatchDeltas
<1>1. RowInv => RowsMatchDeltas
    BY DEF RowInv, RowsAgree, Changes, RowsMatchDeltas
<1>2. QED
    BY <1>1, RowInit, RowStep, DemoInv, PTL DEF Spec
==============================================================================
