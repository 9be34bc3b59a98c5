-------------------------- MODULE WorkerPool_proofs --------------------------
(***************************************************************************)
(* Theorems about host.RunWorkers, for every finite number of workers and  *)
(* every set of deltas.                                                    *)
(***************************************************************************)
EXTENDS WorkerPool, TLAPS, FiniteSetTheorems

----------------------------------------------------------------------------
(* Types.                                                                  *)

\* A job that is not dead has an attempt left.
AttemptsLeft ==
    \A d \in Delta : jobState[d] \notin Terminal => attempts[d] < MaxAttempts

TInv == TypeOK /\ AttemptsLeft

LEMMA TypeInit == Init => TInv
<1> SUFFICES ASSUME Init PROVE TInv
    OBVIOUS
<1>1. StoreTypeOK
    BY JobAssumption DEF Init, StoreInit, StoreTypeOK, JobStates
<1>2. TypeOK
    <2>1. <<>> \in Seq(Worker)
        OBVIOUS
    <2>2. QED
        BY <1>1, <2>1 DEF Init, TypeOK, PCs
<1>3. AttemptsLeft
    BY JobAssumption DEF Init, StoreInit, AttemptsLeft
<1>4. QED
    BY <1>2, <1>3 DEF TInv

LEMMA TypeStep == TInv /\ [Next]_vars => TInv'
<1> SUFFICES ASSUME TInv, [Next]_vars PROVE TInv'
    OBVIOUS
<1> USE DEF TInv, poolVars, envVars, storeVars
<1>1. ASSUME NEW w \in Worker, WorkerStep(w) \/ CallFails(w) PROVE TInv'
    <2>1. CASE SelectRunOnce(w) \/ SelectDone(w) \/ SelectCtx(w)
        BY <2>1 DEF SelectRunOnce, SelectDone, SelectCtx, Goto, TypeOK,
                    StoreTypeOK, AttemptsLeft, PCs
    <2>2. CASE RunDispatch(w)
        BY <2>2 DEF RunDispatch, Dispatch, CommitJobs, PendingDeltas, Goto,
                    TypeOK, StoreTypeOK, AttemptsLeft, PCs, JobStates, Terminal
    <2>3. CASE RunClaim(w)
        <3>1. PICK B \in SUBSET Claimable :
                 /\ ClaimBatch(w, B)
                 /\ batch' = [batch EXCEPT ![w] = B]
            BY <2>3 DEF RunClaim
        <3>2. B \subseteq Delta
            BY DEF Claimable
        <3>3. \A d \in B : jobState[d] \notin Terminal
            BY DEF Claimable, Terminal
        <3>4. StoreTypeOK' /\ AttemptsLeft'
            BY <3>1, <3>2, <3>3
               DEF ClaimBatch, TypeOK, StoreTypeOK, AttemptsLeft, JobStates,
                   Terminal
        <3>5. QED
            BY <2>3, <3>1, <3>2, <3>4 DEF RunClaim, Goto, TypeOK, PCs
    <2>4. ASSUME NEW d \in Delta, RunJob(w, d) PROVE TInv'
        <3>1. attempts[d] + 1 \in 0 .. MaxAttempts /\ attempts[d] \in Nat
            <4>1. jobState[d] = "processing"
                BY <2>4 DEF RunJob, MarkSynced, MarkFailed, MarkRejected,
                            HoldsLease
            <4>2. attempts[d] < MaxAttempts /\ attempts[d] \in 0 .. MaxAttempts
                BY <4>1 DEF TypeOK, StoreTypeOK, AttemptsLeft, Terminal
            <4>3. QED
                BY <4>2, JobAssumption
        <3>2. \E st \in JobStates, n \in 0 .. MaxAttempts, due \in BOOLEAN :
                 /\ Finalize(d, st, n, due)
                 /\ st \notin Terminal => n < MaxAttempts
            <4>1. CASE MarkSynced(w, d)
                BY <3>1, <4>1 DEF MarkSynced, JobStates, Terminal, TypeOK,
                                  StoreTypeOK
            <4>2. CASE MarkFailed(w, d)
                <5> DEFINE st == IF attempts[d] + 1 >= MaxAttempts
                                 THEN "dead" ELSE "retrying"
                <5>1. st \in JobStates
                    BY DEF JobStates, Terminal
                <5>2. st \notin Terminal => attempts[d] + 1 < MaxAttempts
                    BY <3>1, JobAssumption DEF Terminal
                <5>3. Finalize(d, st, attempts[d] + 1, FALSE)
                    BY <4>2 DEF MarkFailed
                <5> HIDE DEF st
                <5>4. QED
                    BY <3>1, <5>1, <5>2, <5>3
            <4>3. CASE MarkRejected(w, d)
                BY <3>1, <4>3 DEF MarkRejected, JobStates, Terminal
            <4>4. QED
                BY <2>4, <4>1, <4>2, <4>3 DEF RunJob
        <3>3. PICK st \in JobStates, n \in 0 .. MaxAttempts, due \in BOOLEAN :
                 /\ Finalize(d, st, n, due)
                 /\ st \notin Terminal => n < MaxAttempts
            BY <3>2
        <3>4. StoreTypeOK'
            BY <3>3 DEF Finalize, TypeOK, StoreTypeOK
        <3>5. AttemptsLeft'
            BY <3>3 DEF Finalize, TypeOK, StoreTypeOK, AttemptsLeft
        <3>6. QED
            BY <2>4, <3>4, <3>5 DEF RunJob, TypeOK
    <2>5. ASSUME NEW d \in Delta, LeaseLost(w, d) PROVE TInv'
        BY <2>5 DEF LeaseLost, Goto, TypeOK, StoreTypeOK, AttemptsLeft, PCs
    <2>6. CASE RunOnceReturns(w) \/ ShouldStop(w)
        BY <2>6 DEF RunOnceReturns, ShouldStop, Goto, TypeOK, StoreTypeOK,
                    AttemptsLeft, PCs
    <2>7. CASE AfterRunOnce(w)
        BY <2>7 DEF AfterRunOnce, MakeRetryingAvailable, Goto, TypeOK,
                    StoreTypeOK, AttemptsLeft, PCs
    <2>8. CASE WorkComplete(w)
        BY <2>8 DEF WorkComplete, StopAll, Goto, TypeOK, StoreTypeOK,
                    AttemptsLeft, PCs
    <2>9. CASE CallFails(w) \/ CtxFails(w)
        BY <2>9 DEF CtxFails, CallFails, Goto, TypeOK, StoreTypeOK,
                    AttemptsLeft, PCs
    <2>10. CASE SendError(w)
        BY <2>10 DEF SendError, StopAll, Goto, TypeOK, StoreTypeOK,
                     AttemptsLeft, PCs
    <2>11. QED
        BY <1>1, <2>1, <2>2, <2>3, <2>4, <2>5, <2>6, <2>7, <2>8, <2>9, <2>10
           DEF WorkerStep
<1>2. CASE Collect
    BY <1>2 DEF Collect, TypeOK, StoreTypeOK, AttemptsLeft
<1>3. ASSUME NEW d \in Delta, WriterCommits(d) \/ TimePasses(d) PROVE TInv'
    BY <1>3 DEF WriterCommits, CommitDelta, TimePasses, LeaseExpires,
                BackoffElapses, TypeOK, StoreTypeOK, AttemptsLeft
<1>4. CASE WritersFinish \/ CtxDone
    BY <1>4 DEF WritersFinish, CtxDone, TypeOK, StoreTypeOK, AttemptsLeft
<1>5. CASE Stopped \/ UNCHANGED vars
    BY <1>5 DEF Stopped, vars, TypeOK, StoreTypeOK, AttemptsLeft
<1>6. QED
    BY <1>1, <1>2, <1>3, <1>4, <1>5 DEF Next, PoolStep

\* Every variable of the pool keeps its type; in particular the attempts of
\* a job never exceed MaxAttempts.
THEOREM PoolTypeCorrect == Spec => []TypeOK
<1>1. Spec => []TInv
    BY TypeInit, TypeStep, PTL DEF Spec
<1>2. QED
    BY <1>1, PTL DEF TInv

----------------------------------------------------------------------------
(* How one step may change the state of a job.                             *)

\* A committed delta is dispatched, or a job that is not finished moves on;
\* no job goes back to being undispatched.
JobMoves ==
    \A d \in Delta :
        jobState'[d] # jobState[d] =>
            \/ d \in PendingDeltas /\ jobState'[d] = "pending"
            \/ d \in Unfinished /\ jobState'[d] # "absent"

LEMMA StepMovesJobs == TInv /\ [Next]_vars => JobMoves
<1> SUFFICES ASSUME TInv, [Next]_vars PROVE JobMoves
    OBVIOUS
<1> jobState \in [Delta -> JobStates]
    BY DEF TInv, TypeOK, StoreTypeOK
<1>1. CASE UNCHANGED jobState
    BY <1>1 DEF JobMoves
<1>2. ASSUME NEW w \in Worker, RunDispatch(w) PROVE JobMoves
    BY <1>2 DEF RunDispatch, Dispatch, CommitJobs, JobMoves
<1>3. ASSUME NEW w \in Worker, RunClaim(w) PROVE JobMoves
    <2>1. PICK B \in SUBSET Claimable : ClaimBatch(w, B)
        BY <1>3 DEF RunClaim
    <2>2. B \subseteq Unfinished
        BY DEF Claimable, Unfinished, JobsIn
    <2>3. QED
        BY <2>1, <2>2 DEF ClaimBatch, JobMoves
<1>4. ASSUME NEW w \in Worker, NEW d \in Delta, RunJob(w, d) PROVE JobMoves
    <2>1. d \in Unfinished
        BY <1>4 DEF RunJob, MarkSynced, MarkFailed, MarkRejected, HoldsLease,
                    Unfinished, JobsIn
    <2>2. \E st \in {"synced", "dead", "retrying"} :
             jobState' = [jobState EXCEPT ![d] = st]
        BY <1>4 DEF RunJob, MarkSynced, MarkFailed, MarkRejected, Finalize
    <2>3. QED
        BY <2>1, <2>2 DEF JobMoves
<1>5. ASSUME NEW w \in Worker, WorkerStep(w) \/ CallFails(w)
      PROVE  \/ UNCHANGED jobState
             \/ RunDispatch(w) \/ RunClaim(w) \/ \E d \in Delta : RunJob(w, d)
    <2> USE DEF storeVars
    <2>1. CASE SelectRunOnce(w) \/ SelectDone(w) \/ SelectCtx(w)
        BY <2>1 DEF SelectRunOnce, SelectDone, SelectCtx
    <2>2. ASSUME NEW d \in Delta, LeaseLost(w, d) PROVE UNCHANGED jobState
        BY <2>2 DEF LeaseLost
    <2>3. CASE RunOnceReturns(w) \/ AfterRunOnce(w) \/ ShouldStop(w)
        BY <2>3 DEF RunOnceReturns, AfterRunOnce, MakeRetryingAvailable,
                    ShouldStop
    <2>4. CASE WorkComplete(w)
        BY <2>4 DEF WorkComplete
    <2>5. CASE CtxFails(w) \/ CallFails(w) \/ SendError(w)
        BY <2>5 DEF CtxFails, CallFails, SendError
    <2>6. QED
        BY <1>5, <2>1, <2>2, <2>3, <2>4, <2>5 DEF WorkerStep
<1>6. ASSUME NEW d \in Delta, WriterCommits(d) \/ TimePasses(d)
      PROVE  UNCHANGED jobState
    BY <1>6 DEF WriterCommits, CommitDelta, TimePasses, LeaseExpires,
                BackoffElapses
<1>7. CASE Collect \/ WritersFinish \/ CtxDone \/ Stopped \/ UNCHANGED vars
    BY <1>1, <1>7 DEF Collect, WritersFinish, CtxDone, Stopped, vars, storeVars
<1>8. QED
    BY <1>1, <1>2, <1>3, <1>4, <1>5, <1>6, <1>7 DEF Next, PoolStep

\* A synced or dead job keeps its state, whichever worker's lease ran out.
THEOREM PoolTerminalIsFinal == Spec => TerminalIsFinal
<1>1. TInv /\ [Next]_vars =>
         [\A d \in Delta : jobState[d] \in Terminal
                              => jobState'[d] = jobState[d]]_vars
    BY StepMovesJobs
       DEF JobMoves, PendingDeltas, Unfinished, JobsIn, Terminal
<1>2. QED
    BY <1>1, TypeInit, TypeStep, PTL DEF Spec, TerminalIsFinal

----------------------------------------------------------------------------
(* RunWorkers returns nil only when the queue is drained.                  *)

\* What each answer of WorkComplete is worth later on: once the writers are
\* done, no delta becomes pending again, and a drained queue stays drained.
DrainInv ==
    /\ \A w \in Worker :
          /\ pc[w] \in {"countDeltas", "countJobs"} => writersDone
          /\ pc[w] = "countJobs" => PendingDeltas = {}
          /\ pc[w] = "returned" => stopped
    /\ stopped => errCh # <<>> \/ (writersDone /\ Drained)
    /\ result = "nil" => writersDone /\ Drained

LEMMA DrainInit == Init => DrainInv
BY DEF Init, DrainInv

\* A step after the end of the writers keeps an empty list of pending deltas
\* and a drained queue.
LEMMA DrainedStays ==
    ASSUME TInv, [Next]_vars, writersDone
    PROVE  /\ writersDone'
           /\ PendingDeltas = {} => (PendingDeltas = {})'
           /\ Drained => Drained'
<1> USE DEF storeVars, poolVars, envVars
<1>1. writersDone' = writersDone /\ deltas' = deltas
    <2>1. ASSUME NEW w \in Worker, WorkerStep(w) \/ CallFails(w)
          PROVE  writersDone' = writersDone /\ deltas' = deltas
        <3>1. ASSUME NEW d \in Delta, RunJob(w, d) \/ LeaseLost(w, d)
              PROVE  writersDone' = writersDone /\ deltas' = deltas
            BY <3>1 DEF RunJob, LeaseLost, MarkSynced, MarkFailed,
                        MarkRejected, Finalize
        <3>2. CASE \/ SelectRunOnce(w) \/ SelectDone(w) \/ SelectCtx(w)
                   \/ RunOnceReturns(w) \/ ShouldStop(w) \/ WorkComplete(w)
            BY <3>2 DEF SelectRunOnce, SelectDone, SelectCtx, RunOnceReturns,
                        ShouldStop, WorkComplete
        <3>3. CASE RunDispatch(w) \/ RunClaim(w) \/ AfterRunOnce(w)
            BY <3>3 DEF RunDispatch, Dispatch, CommitJobs, RunClaim, ClaimBatch,
                        AfterRunOnce, MakeRetryingAvailable
        <3>4. CASE CtxFails(w) \/ CallFails(w) \/ SendError(w)
            BY <3>4 DEF CtxFails, CallFails, SendError
        <3>5. QED
            BY <2>1, <3>1, <3>2, <3>3, <3>4 DEF WorkerStep
    <2>2. ASSUME NEW d \in Delta, WriterCommits(d) \/ TimePasses(d)
          PROVE  writersDone' = writersDone /\ deltas' = deltas
        BY <2>2 DEF WriterCommits, TimePasses, LeaseExpires, BackoffElapses
    <2>3. CASE Collect \/ WritersFinish \/ CtxDone \/ Stopped \/ UNCHANGED vars
        BY <2>3 DEF Collect, WritersFinish, CtxDone, Stopped, vars
    <2>4. QED
        BY <2>1, <2>2, <2>3 DEF Next, PoolStep
<1>2. JobMoves /\ deltas \subseteq Delta
    BY StepMovesJobs DEF TInv, TypeOK, StoreTypeOK
<1>3. PendingDeltas' \subseteq PendingDeltas
    BY <1>1, <1>2 DEF JobMoves, PendingDeltas
<1>4. Drained => Drained'
    <2> SUFFICES ASSUME Drained PROVE Unfinished' = {}
        BY <1>3 DEF Drained
    <2>1. \A d \in Delta : jobState'[d] = jobState[d]
        BY <1>2 DEF JobMoves, Drained
    <2>2. QED
        BY <2>1 DEF Drained, Unfinished, JobsIn
<1>5. QED
    BY <1>1, <1>3, <1>4

LEMMA DrainStep == TInv /\ DrainInv /\ [Next]_vars => DrainInv'
<1> SUFFICES ASSUME TInv, DrainInv, [Next]_vars PROVE DrainInv'
    OBVIOUS
<1> USE DEF storeVars, poolVars, envVars, Goto
<1>t. pc \in [Worker -> PCs] /\ errCh \in Seq(Worker)
    BY DEF TInv, TypeOK
<1>d. /\ writersDone => writersDone'
      /\ writersDone /\ PendingDeltas = {} => (PendingDeltas = {})'
      /\ writersDone /\ Drained => (writersDone /\ Drained)'
    BY DrainedStays
<1>1. ASSUME NEW w \in Worker, WorkerStep(w) \/ CallFails(w) PROVE DrainInv'
    <2>1. CASE SelectRunOnce(w) \/ SelectDone(w) \/ SelectCtx(w)
        BY <2>1, <1>t, <1>d DEF SelectRunOnce, SelectDone, SelectCtx, DrainInv
    <2>2. CASE RunDispatch(w) \/ RunClaim(w) \/ RunOnceReturns(w)
        BY <2>2, <1>t, <1>d DEF RunDispatch, RunClaim, RunOnceReturns, DrainInv
    <2>3. ASSUME NEW d \in Delta, RunJob(w, d) \/ LeaseLost(w, d)
          PROVE  DrainInv'
        BY <2>3, <1>t, <1>d DEF RunJob, LeaseLost, DrainInv
    <2>4. CASE AfterRunOnce(w) \/ ShouldStop(w)
        BY <2>4, <1>t, <1>d DEF AfterRunOnce, ShouldStop, DrainInv
    <2>5. CASE WorkComplete(w)
        BY <2>5, <1>t, <1>d DEF WorkComplete, StopAll, DrainInv, Drained
    <2>6. CASE CallFails(w) \/ CtxFails(w)
        BY <2>6, <1>t, <1>d DEF CtxFails, CallFails, DrainInv
    <2>7. CASE SendError(w)
        <3>1. errCh' # <<>>
            BY <2>7, <1>t DEF SendError
        <3>2. QED
            BY <2>7, <3>1, <1>t, <1>d DEF SendError, StopAll, DrainInv
    <2>8. QED
        BY <1>1, <2>1, <2>2, <2>3, <2>4, <2>5, <2>6, <2>7 DEF WorkerStep
<1>2. CASE Collect
    <2>1. stopped
        BY <1>2, JobAssumption DEF Collect, DrainInv
    <2>2. QED
        BY <1>2, <2>1, <1>d DEF Collect, DrainInv
<1>3. ASSUME NEW d \in Delta, WriterCommits(d) \/ TimePasses(d)
      PROVE  DrainInv'
    BY <1>3, <1>d DEF WriterCommits, TimePasses, DrainInv
<1>4. CASE WritersFinish \/ CtxDone
    BY <1>4, <1>d DEF WritersFinish, CtxDone, DrainInv
<1>5. CASE Stopped \/ UNCHANGED vars
    BY <1>5 DEF Stopped, vars, DrainInv, Drained, PendingDeltas, Unfinished,
                JobsIn
<1>6. QED
    BY <1>1, <1>2, <1>3, <1>4, <1>5 DEF Next, PoolStep

\* RunWorkers returns nil only when the writers are done, every delta is
\* dispatched and every job is finished, for any number of workers.
THEOREM PoolNilMeansDrained == Spec => []NilMeansDrained
<1>1. DrainInv => NilMeansDrained
    BY DEF DrainInv, NilMeansDrained
<1>2. QED
    BY <1>1, TypeInit, TypeStep, DrainInit, DrainStep, PTL DEF Spec

----------------------------------------------------------------------------
(* One slot of errCh per worker is enough.                                 *)

Active == {w \in Worker : pc[w] # "returned"}

\* Each goroutine that has not returned may send at most one error more.
SlotInv == Len(errCh) + Cardinality(Active) <= Cardinality(Worker)

LEMMA ActiveFinite == IsFiniteSet(Active) /\ Cardinality(Active) \in Nat
BY JobAssumption, FS_Subset, FS_CardinalityType DEF Active

LEMMA SlotInit == Init => SlotInv
<1> SUFFICES ASSUME Init PROVE SlotInv
    OBVIOUS
<1>1. Active = Worker
    BY DEF Init, Active
<1>2. Cardinality(Worker) \in Nat
    BY JobAssumption, FS_CardinalityType
<1>3. QED
    BY <1>1, <1>2 DEF Init, SlotInv

\* No goroutine comes back, and the one that sends an error leaves.
LEMMA SendersLeave ==
    ASSUME TInv, [Next]_vars
    PROVE  \/ Active' \subseteq Active /\ errCh' = errCh
           \/ \E w \in Active :
                 Active' = Active \ {w} /\ Len(errCh') = Len(errCh) + 1
<1> USE DEF storeVars, poolVars, envVars, Goto
<1>t. pc \in [Worker -> PCs] /\ errCh \in Seq(Worker)
    BY DEF TInv, TypeOK
<1> DEFINE Kept == Active' \subseteq Active /\ errCh' = errCh
           Sent == \E w \in Active :
                      Active' = Active \ {w} /\ Len(errCh') = Len(errCh) + 1
<1>1. ASSUME NEW w \in Worker, WorkerStep(w) \/ CallFails(w)
      PROVE  Kept \/ Sent
    <2>1. CASE SelectRunOnce(w) \/ SelectDone(w) \/ SelectCtx(w)
        BY <2>1, <1>t DEF SelectRunOnce, SelectDone, SelectCtx, Active
    <2>2. CASE RunDispatch(w) \/ RunClaim(w) \/ RunOnceReturns(w)
        BY <2>2, <1>t DEF RunDispatch, RunClaim, RunOnceReturns, Active
    <2>3. ASSUME NEW d \in Delta, RunJob(w, d) \/ LeaseLost(w, d)
          PROVE  Kept
        BY <2>3, <1>t DEF RunJob, LeaseLost, Active
    <2>4. CASE AfterRunOnce(w) \/ ShouldStop(w)
        BY <2>4, <1>t DEF AfterRunOnce, ShouldStop, Active
    <2>5. CASE WorkComplete(w)
        BY <2>5, <1>t DEF WorkComplete, StopAll, Active
    <2>6. CASE CallFails(w) \/ CtxFails(w)
        BY <2>6, <1>t DEF CtxFails, CallFails, Active
    <2>7. CASE SendError(w)
        <3>1. Len(errCh') = Len(errCh) + 1
            BY <2>7, <1>t DEF SendError
        <3>2. w \in Active /\ Active' = Active \ {w}
            BY <2>7, <1>t DEF SendError, StopAll, Active
        <3>3. QED
            BY <3>1, <3>2
    <2>8. QED
        BY <1>1, <2>1, <2>2, <2>3, <2>4, <2>5, <2>6, <2>7 DEF WorkerStep
<1>2. ASSUME NEW d \in Delta, WriterCommits(d) \/ TimePasses(d) PROVE Kept
    BY <1>2 DEF WriterCommits, TimePasses, Active
<1>3. CASE Collect \/ WritersFinish \/ CtxDone \/ Stopped \/ UNCHANGED vars
    BY <1>3 DEF Collect, WritersFinish, CtxDone, Stopped, vars, Active
<1>4. QED
    BY <1>1, <1>2, <1>3 DEF Next, PoolStep

LEMMA SlotStep == TInv /\ SlotInv /\ [Next]_vars => SlotInv'
<1> SUFFICES ASSUME TInv, SlotInv, [Next]_vars PROVE SlotInv'
    OBVIOUS
<1>1. Cardinality(Worker) \in Nat /\ Len(errCh) \in Nat
    BY JobAssumption, FS_CardinalityType DEF TInv, TypeOK
<1>2. CASE Active' \subseteq Active /\ errCh' = errCh
    <2>1. Cardinality(Active') <= Cardinality(Active)
        BY <1>2, ActiveFinite, FS_Subset
    <2>2. Cardinality(Active') \in Nat
        BY <1>2, ActiveFinite, FS_Subset, FS_CardinalityType
    <2>3. QED
        BY <1>1, <1>2, <2>1, <2>2, ActiveFinite DEF SlotInv
<1>3. ASSUME NEW w \in Active,
             Active' = Active \ {w}, Len(errCh') = Len(errCh) + 1
      PROVE  SlotInv'
    <2>1. Cardinality(Active') = Cardinality(Active) - 1
        BY <1>3, ActiveFinite, FS_RemoveElement
    <2>2. QED
        BY <1>1, <1>3, <2>1, ActiveFinite DEF SlotInv
<1>4. QED
    BY <1>2, <1>3, SendersLeave

\* No goroutine of RunWorkers ever blocks on its error channel.
THEOREM PoolErrorSendNeverBlocks == Spec => []ErrorSendNeverBlocks
<1>1. TInv /\ SlotInv => ErrorSendNeverBlocks
    <2> SUFFICES ASSUME TInv, SlotInv, NEW w \in Worker, pc[w] = "fail"
                 PROVE  Len(errCh) < Cardinality(Worker)
        BY DEF ErrorSendNeverBlocks
    <2>1. w \in Active
        BY DEF Active
    <2>2. Cardinality(Active) # 0
        BY <2>1, ActiveFinite, FS_EmptySet
    <2>3. Cardinality(Worker) \in Nat /\ Len(errCh) \in Nat
        BY JobAssumption, FS_CardinalityType DEF TInv, TypeOK
    <2>4. QED
        BY <2>2, <2>3, ActiveFinite DEF SlotInv
<1>2. QED
    BY <1>1, TypeInit, TypeStep, SlotInit, SlotStep, PTL DEF Spec
=============================================================================
