------------------------- MODULE SyncWorker_proofs -------------------------
(***************************************************************************)
(* What the proofs about the targets need of the worker: the jobs in its   *)
(* hands, and what one step does to them.  The lemmas hold for any number  *)
(* of slots, deltas, attempts and any batch size.                          *)
(***************************************************************************)
EXTENDS SyncWorker, TLAPS

\* The slot has a job; the worker has the job, in a slot or in its batch.
Busy(s)   == slot[s].at # "idle"
InHand(d) == d \in batch \/ \E s \in Slot : Busy(s) /\ slot[s].job = d

\* The job needs nothing that has not begun: it was synced, or the worker
\* has it.
Settled(d) == jobState[d] = "synced" \/ InHand(d)

\* The operation of the job was carried out, and its success has not been
\* lost since.
Applied(d) ==
    \/ jobState[d] = "synced"
    \/ \E s \in Slot : slot[s].at \in {"count", "finalize"} /\ slot[s].job = d

LEMMA AppliedIsSettled ==
    \A d \in Delta : Applied(d) => Settled(d)
    BY DEF Applied, Settled, InHand, Busy

----------------------------------------------------------------------------
(* The invariant.  Nobody else finalises a job, so a job the worker has is *)
(* still being processed, even if its lease has run out: claims wait until *)
(* every slot is idle.                                                     *)

HandInv ==
    /\ StoreTypeOK
    /\ DOMAIN slot = Slot /\ broken \in BOOLEAN
    /\ \A s \in Slot : Busy(s) => slot[s].job \in Delta
    /\ batch \subseteq Delta
    /\ \A d \in Delta : InHand(d) => d \in deltas /\ jobState[d] = "processing"
    /\ \A s \in Slot : Busy(s) => slot[s].job \notin batch
    /\ \A s, t \in Slot : Busy(s) /\ Busy(t) /\ slot[s].job = slot[t].job => s = t
    /\ \A d \in Delta \ deltas : jobState[d] = "absent"
    /\ \A d \in Delta : jobState[d] \notin Terminal => attempts[d] < MaxAttempts

LEMMA HandInit == StoreInit /\ WorkInit => HandInv
<1> SUFFICES ASSUME StoreInit, WorkInit PROVE HandInv
    OBVIOUS
<1>1. StoreTypeOK
    BY JobAssumption DEF StoreInit, StoreTypeOK, JobStates
<1>2. \A s \in Slot : ~Busy(s)
    BY DEF WorkInit, Idle, Busy
<1>3. \A d \in Delta : ~InHand(d)
    BY <1>2 DEF WorkInit, InHand
<1>4. \A d \in Delta : attempts[d] < MaxAttempts
    BY JobAssumption DEF StoreInit
<1>5. QED
    BY <1>1, <1>2, <1>3, <1>4 DEF StoreInit, WorkInit, HandInv

\* The job of a slot, which no other slot has.
LEMMA SlotJob ==
    ASSUME HandInv, NEW s \in Slot, Busy(s)
    PROVE  \E j \in Delta :
              /\ j = slot[s].job /\ j \in deltas /\ jobState[j] = "processing"
              /\ \A t \in Slot \ {s} : Busy(t) => slot[t].job # j
    BY DEF HandInv, InHand

\* The state the step of a slot leaves: it goes on with its job, and nothing
\* of the store or of the other slots changes.
SlotMoves(s) ==
    /\ Busy(s) /\ Busy(s)' /\ slot'[s].job = slot[s].job
    /\ DOMAIN slot' = DOMAIN slot
    /\ \A t \in Slot \ {s} : slot'[t] = slot[t]
    /\ UNCHANGED <<storeVars, batch, broken>>

\* A slot that goes on with its job leaves the same jobs in hand.
LEMMA SlotMovesHand ==
    ASSUME HandInv, NEW s \in Slot, SlotMoves(s)
    PROVE  HandInv' /\ \A d \in Delta : InHand(d)' <=> InHand(d)
<1>1. \A t \in Slot : /\ Busy(t)' <=> Busy(t)
                      /\ Busy(t) => slot'[t].job = slot[t].job
    BY DEF SlotMoves, Busy
<1>2. \A d \in Delta : InHand(d)' <=> InHand(d)
    BY <1>1 DEF InHand, SlotMoves
<1>3. QED
    BY <1>1, <1>2 DEF HandInv, SlotMoves, storeVars, StoreTypeOK

\* A slot that goes on to "finalize" adds its job to the successes.
LEMMA SlotMovesSucceeded ==
    ASSUME HandInv, NEW s \in Slot, SlotMoves(s), slot[s].at # "finalize",
           NEW j \in Delta, j = slot[s].job
    PROVE  /\ j \notin Succeeded
           /\ Succeeded' = IF slot'[s].at = "finalize" THEN Succeeded \cup {j}
                                                       ELSE Succeeded
<1>1. /\ jobState[j] = "processing" /\ jobState' = jobState
      /\ \A t \in Slot \ {s} : Busy(t) => slot[t].job # j
      /\ slot'[s].job = j /\ \A t \in Slot \ {s} : slot'[t] = slot[t]
    BY SlotJob DEF SlotMoves, storeVars
<1>2. \A d \in Delta \ {j} : d \in Succeeded' <=> d \in Succeeded
    BY <1>1 DEF Succeeded
<1>3. j \notin Succeeded
    BY <1>1 DEF Succeeded, Busy
<1>4. j \in Succeeded' <=> slot'[s].at = "finalize"
    BY <1>1 DEF Succeeded, Busy
<1>5. QED
    BY <1>2, <1>3, <1>4 DEF Succeeded

\* A success has its delta.
LEMMA SucceededCommitted ==
    ASSUME HandInv PROVE Succeeded \subseteq deltas
    BY DEF HandInv, Succeeded, InHand, Busy

\* A writer's commit leaves the jobs in hand alone; its delta has no job yet.
LEMMA CommitHand ==
    ASSUME HandInv, NEW d \in Delta \ deltas, CommitDelta(d), UNCHANGED workVars
    PROVE  /\ HandInv'
           /\ \A e \in Delta : InHand(e)' <=> InHand(e)
           /\ jobState'[d] = "absent" /\ ~InHand(d)'
<1>1. \A t \in Slot : Busy(t)' <=> Busy(t)
    BY DEF workVars, Busy
<1>2. \A e \in Delta : InHand(e)' <=> InHand(e)
    BY <1>1 DEF InHand, workVars
<1>3. HandInv'
    BY <1>1, <1>2 DEF HandInv, CommitDelta, workVars, StoreTypeOK
<1>4. QED
    BY <1>2, <1>3 DEF HandInv, CommitDelta

LEMMA NothingHand ==
    ASSUME HandInv, UNCHANGED <<storeVars, workVars>>
    PROVE  HandInv' /\ \A d \in Delta : InHand(d)' <=> InHand(d)
<1>1. \A t \in Slot : Busy(t)' <=> Busy(t)
    BY DEF workVars, Busy
<1>2. \A d \in Delta : InHand(d)' <=> InHand(d)
    BY <1>1 DEF InHand, workVars
<1>3. QED
    BY <1>1, <1>2 DEF HandInv, storeVars, workVars, StoreTypeOK

----------------------------------------------------------------------------
(* The worker's own steps.                                                 *)

\* What a target's proof needs to know of a step of the worker.  Its last
\* two conjuncts: a slot that is past "project" keeps still or loses its
\* job; and no job becomes settled except while every slot is idle.
WorkerEffect ==
    /\ deltas' = deltas
    /\ \A d \in Delta : jobState[d] = "synced" => jobState'[d] = "synced"
    /\ \A d \in Delta : jobState'[d] = "synced" =>
          \/ jobState[d] = "synced"
          \/ \E s \in Slot : slot[s].at = "finalize" /\ slot[s].job = d
    /\ ~broken' => ~broken /\ Succeeded' = Succeeded
    /\ \A s \in Slot : \/ slot'[s] = slot[s]
                       \/ slot'[s] = Idle
                       \/ /\ slot'[s].at = "project" /\ slot'[s].job \in Delta
                          /\ slot[s].at = "idle"
    /\ \/ \A s \in Slot : ~Busy(s) /\ ~Busy(s)'
       \/ \A d \in Delta : Settled(d)' => Settled(d)

LEMMA DispatchStep ==
    ASSUME HandInv, BatchDone, Dispatch, UNCHANGED workVars
    PROVE  HandInv' /\ WorkerEffect
<1>1. PICK D \in SUBSET PendingDeltas :
         /\ jobState' = [d \in Delta |-> IF d \in D THEN "pending"
                                                    ELSE jobState[d]]
         /\ available' = [d \in Delta |-> available[d] \/ d \in D]
    BY DEF Dispatch, CommitJobs
<1>2. UNCHANGED <<deltas, attempts, owner>>
    BY DEF Dispatch, CommitJobs
<1>3. D \subseteq deltas /\ \A d \in D : jobState[d] = "absent"
    BY <1>1 DEF PendingDeltas
<1>4. StoreTypeOK'
    <2>1. jobState' \in [Delta -> JobStates]
        BY <1>1 DEF HandInv, StoreTypeOK, JobStates
    <2>2. available' \in [Delta -> BOOLEAN]
        BY <1>1
    <2>3. QED
        BY <1>2, <2>1, <2>2 DEF HandInv, StoreTypeOK
<1>5. (\A s \in Slot : ~Busy(s) /\ ~Busy(s)') /\ batch' = {}
    BY DEF BatchDone, Busy, workVars
<1>6. \A d \in Delta : ~InHand(d)'
    BY <1>5 DEF InHand
<1>7. \A d \in Delta : /\ jobState[d] = "synced" <=> jobState'[d] = "synced"
                       /\ jobState'[d] \notin Terminal => jobState[d] \notin Terminal
    BY <1>1, <1>3 DEF Terminal
<1>8. Succeeded' = Succeeded
    BY <1>7 DEF Succeeded, workVars
<1>9. \A d \in Delta \ deltas : jobState'[d] = "absent"
    BY <1>1, <1>3 DEF HandInv
<1>10. HandInv'
    BY <1>2, <1>4, <1>5, <1>6, <1>7, <1>9 DEF HandInv, workVars
<1>11. QED
    BY <1>2, <1>5, <1>7, <1>8, <1>10 DEF WorkerEffect, workVars

LEMMA ClaimStep ==
    ASSUME HandInv, BatchDone, NEW B \in SUBSET Claimable,
           ClaimBatch(ThisWorker, B), batch' = B, UNCHANGED <<slot, broken>>
    PROVE  HandInv' /\ WorkerEffect
<1>1. /\ jobState' = [d \in Delta |-> IF d \in B THEN "processing"
                                                 ELSE jobState[d]]
      /\ owner' = [d \in Delta |-> IF d \in B THEN ThisWorker ELSE owner[d]]
      /\ UNCHANGED <<deltas, attempts, available>>
    BY DEF ClaimBatch
<1>2. B \subseteq Delta /\ \A d \in B : jobState[d] \notin Terminal \cup {"absent"}
    BY DEF Claimable, Terminal
<1>3. B \subseteq deltas
    BY <1>2 DEF HandInv
<1>4. StoreTypeOK'
    <2>1. jobState' \in [Delta -> JobStates]
        BY <1>1 DEF HandInv, StoreTypeOK, JobStates
    <2>2. owner' \in [Delta -> Worker \cup {NoOwner}]
        BY <1>1, OneWorker DEF HandInv, StoreTypeOK
    <2>3. QED
        BY <1>1, <2>1, <2>2 DEF HandInv, StoreTypeOK
<1>5. \A s \in Slot : ~Busy(s) /\ ~Busy(s)'
    BY DEF BatchDone, Busy
<1>6. \A d \in Delta : InHand(d)' <=> d \in B
    BY <1>5 DEF InHand
<1>7. \A d \in Delta : /\ jobState[d] = "synced" <=> jobState'[d] = "synced"
                       /\ jobState'[d] \notin Terminal => jobState[d] \notin Terminal
    BY <1>1, <1>2 DEF Terminal
<1>8. Succeeded' = Succeeded
    BY <1>7 DEF Succeeded
<1>9. \A d \in Delta \ deltas : jobState'[d] = "absent"
    BY <1>1, <1>3 DEF HandInv
<1>10. HandInv'
    <2>1. \A d \in B : jobState'[d] = "processing"
        BY <1>1, <1>2
    <2>2. QED
        BY <1>1, <1>2, <1>3, <1>4, <1>5, <1>6, <1>7, <1>9, <2>1 DEF HandInv
<1>11. QED
    BY <1>1, <1>5, <1>7, <1>8, <1>10 DEF WorkerEffect

LEMMA TimeStep ==
    ASSUME HandInv, NEW d \in Delta, TimePasses(d)
    PROVE  HandInv' /\ WorkerEffect
<1>1. UNCHANGED <<deltas, jobState, attempts, workVars>>
    BY DEF TimePasses, LeaseExpires, BackoffElapses
<1>2. StoreTypeOK'
    BY DEF TimePasses, LeaseExpires, BackoffElapses, HandInv, StoreTypeOK
<1>3. \A t \in Slot : Busy(t)' <=> Busy(t)
    BY <1>1 DEF workVars, Busy
<1>4. \A e \in Delta : InHand(e)' <=> InHand(e)
    BY <1>1, <1>3 DEF InHand, workVars
<1>5. HandInv'
    BY <1>1, <1>2, <1>3, <1>4 DEF HandInv, workVars
<1>6. Succeeded' = Succeeded
    BY <1>1 DEF Succeeded, workVars
<1>7. QED
    BY <1>1, <1>4, <1>5, <1>6 DEF WorkerEffect, Settled, workVars

LEMMA TakeStep ==
    ASSUME HandInv, NEW s \in Slot, NEW d \in batch, Take(s, d)
    PROVE  HandInv' /\ WorkerEffect
<1>1. /\ d \in Delta /\ ~Busy(s)
      /\ slot'[s] = [at |-> "project", job |-> d]
      /\ DOMAIN slot' = Slot
      /\ \A t \in Slot \ {s} : slot'[t] = slot[t]
      /\ batch' = batch \ {d}
      /\ UNCHANGED <<storeVars, broken>>
    BY DEF Take, HandInv, Busy
<1>2. Busy(s)' /\ slot'[s].job = d /\ slot'[s].at = "project"
    BY <1>1 DEF Busy
<1>3. \A t \in Slot \ {s} : Busy(t)' <=> Busy(t)
    BY <1>1 DEF Busy
<1>4. \A e \in Delta : InHand(e)' <=> InHand(e)
    BY <1>1, <1>2, <1>3 DEF InHand
<1>5. \A t \in Slot \ {s} : Busy(t)' => slot'[t].job # d
    BY <1>1, <1>3 DEF HandInv
<1>6. HandInv'
    BY <1>1, <1>2, <1>3, <1>4, <1>5 DEF HandInv, storeVars, StoreTypeOK
<1>7. Succeeded' = Succeeded
    <2>1. \A t \in Slot : /\ slot'[t].at = "finalize" <=> slot[t].at = "finalize"
                          /\ slot[t].at = "finalize" => slot'[t] = slot[t]
        BY <1>1, <1>2 DEF Busy
    <2>2. QED
        BY <1>1, <2>1 DEF Succeeded, storeVars
<1>8. slot[s].at = "idle"
    BY DEF Take
<1>9. QED
    BY <1>1, <1>2, <1>4, <1>6, <1>7, <1>8 DEF WorkerEffect, Settled, storeVars

\* A slot whose job leaves its hands, the job's record changed or not.
LEMMA OutcomeStep ==
    ASSUME HandInv, NEW s \in Slot, RecordOutcome(s) \/ OutcomeLost(s)
    PROVE  HandInv' /\ WorkerEffect
<1>1. /\ slot[s].at \in {"finalize", "fail", "reject"}
      /\ slot'[s] = Idle
      /\ DOMAIN slot' = Slot
      /\ \A t \in Slot \ {s} : slot'[t] = slot[t]
    BY DEF RecordOutcome, OutcomeLost, HandInv
<1>2. Busy(s) /\ ~Busy(s)' /\ slot'[s].at = "idle"
    BY <1>1 DEF Busy, Idle
<1>3. \A t \in Slot \ {s} : Busy(t)' <=> Busy(t)
    BY <1>1 DEF Busy
<1>4. PICK d \in deltas : /\ d = slot[s].job /\ d \in Delta
                          /\ jobState[d] = "processing"
    BY <1>2 DEF HandInv, InHand
<1>5. \A t \in Slot \ {s} : Busy(t) => slot[t].job # d
    BY <1>2, <1>4 DEF HandInv
<1>6. CASE RecordOutcome(s)
    <2>1. attempts[d] + 1 \in 0 .. MaxAttempts /\ attempts[d] \in 0 .. MaxAttempts
        BY <1>4, JobAssumption DEF HandInv, StoreTypeOK, Terminal
    <2>2. PICK st \in JobStates, n \in 0 .. MaxAttempts, due \in BOOLEAN :
             /\ Finalize(d, st, n, due)
             /\ st = "synced" <=> slot[s].at = "finalize"
             /\ st \notin Terminal => n < MaxAttempts
        <3> DEFINE Failed == /\ slot[s].at \in {"fail", "reject"}
                             /\ MarkFailed(ThisWorker, d)
        <3>1. CASE slot[s].at = "finalize"
            BY <1>4, <1>6, <2>1, <3>1
               DEF RecordOutcome, MarkSynced, JobStates, Terminal
        <3>2. CASE slot[s].at = "reject" /\ MarkRejected(ThisWorker, d)
            BY <1>4, <2>1, <3>2 DEF MarkRejected, JobStates, Terminal
        <3>3. CASE Failed /\ attempts[d] + 1 >= MaxAttempts
            BY <1>4, <2>1, <3>3 DEF MarkFailed, JobStates, Terminal
        <3>4. CASE Failed /\ ~(attempts[d] + 1 >= MaxAttempts)
            <4>1. attempts[d] + 1 < MaxAttempts
                BY <2>1, <3>4, JobAssumption
            <4>2. Finalize(d, "retrying", attempts[d] + 1, FALSE)
                BY <3>4 DEF MarkFailed
            <4>3. "retrying" \in JobStates
                BY DEF JobStates
            <4>4. QED
                BY <2>1, <3>4, <4>1, <4>2, <4>3
        <3>5. QED
            BY <1>4, <1>6, <3>1, <3>2, <3>3, <3>4 DEF RecordOutcome
    <2>3. /\ jobState' = [jobState EXCEPT ![d] = st]
          /\ attempts' = [attempts EXCEPT ![d] = n]
          /\ UNCHANGED <<deltas, batch, broken>>
        BY <1>6, <2>2 DEF Finalize, RecordOutcome
    <2>4. StoreTypeOK'
        BY <1>4, <2>2 DEF Finalize, HandInv, StoreTypeOK
    <2>5. /\ jobState'[d] = st /\ attempts'[d] = n
          /\ \A e \in Delta \ {d} : /\ jobState'[e] = jobState[e]
                                    /\ attempts'[e] = attempts[e]
        BY <1>4, <2>3 DEF HandInv, StoreTypeOK
    <2>6. d \notin batch
        BY <1>2, <1>4 DEF HandInv
    <2>7. ~InHand(d)' /\ \A e \in Delta \ {d} : InHand(e)' => InHand(e)
        <3>1. \A t \in Slot : Busy(t)' => Busy(t) /\ t # s /\ slot'[t] = slot[t]
            BY <1>1, <1>2, <1>3
        <3>2. ~InHand(d)'
            BY <1>5, <2>3, <2>6, <3>1 DEF InHand
        <3>3. \A e \in Delta : InHand(e)' => InHand(e)
            BY <2>3, <3>1 DEF InHand
        <3>4. QED
            BY <3>2, <3>3
    <2>8. HandInv'
        <3>1. \A t \in Slot : Busy(t)' => Busy(t) /\ slot'[t] = slot[t]
            BY <1>1, <1>2, <1>3
        <3>2. \A e \in Delta : InHand(e)' => e \in deltas' /\ jobState'[e] = "processing"
            BY <2>3, <2>5, <2>7 DEF HandInv
        <3>3. \A e \in Delta \ deltas' : jobState'[e] = "absent"
            BY <1>4, <2>3, <2>5 DEF HandInv
        <3>4. \A e \in Delta : jobState'[e] \notin Terminal => attempts'[e] < MaxAttempts
            BY <2>2, <2>5 DEF HandInv
        <3>5. QED
            BY <1>1, <2>3, <2>4, <3>1, <3>2, <3>3, <3>4 DEF HandInv
    <2>9. Succeeded' = Succeeded
        <3>1. \A t \in Slot : slot'[t].at = "finalize" <=>
                                 slot[t].at = "finalize" /\ t # s
            BY <1>1, <1>2
        <3>2. \A e \in Delta \ {d} : e \in Succeeded' <=> e \in Succeeded
            BY <1>1, <1>4, <2>5, <3>1 DEF Succeeded
        <3>3. d \in Succeeded' <=> d \in Succeeded
            <4>1. d \in Succeeded' <=> st = "synced"
                BY <1>1, <1>4, <1>5, <2>5, <3>1 DEF Succeeded, Busy
            <4>2. d \in Succeeded <=> slot[s].at = "finalize"
                BY <1>4, <1>5 DEF Succeeded, Busy
            <4>3. QED
                BY <2>2, <4>1, <4>2
        <3>4. QED
            BY <1>4, <3>2, <3>3 DEF Succeeded
    <2>10. \A e \in Delta : jobState[e] = "synced" => jobState'[e] = "synced"
        BY <1>4, <2>5
    <2>11. \A e \in Delta : jobState'[e] = "synced" =>
              \/ jobState[e] = "synced"
              \/ \E t \in Slot : slot[t].at = "finalize" /\ slot[t].job = e
        BY <1>4, <2>2, <2>5
    <2>12. \A e \in Delta : Settled(e)' => Settled(e)
        <3>1. InHand(d)
            BY <1>2, <1>4 DEF InHand
        <3>2. QED
            BY <2>5, <2>7, <3>1 DEF Settled
    <2>13. \A t \in Slot : slot'[t] = slot[t] \/ slot'[t] = Idle
        BY <1>1
    <2>14. QED
        BY <2>3, <2>8, <2>9, <2>10, <2>11, <2>12, <2>13 DEF WorkerEffect
<1>7. CASE OutcomeLost(s)
    <2>1. batch' = {} /\ broken' = TRUE /\ UNCHANGED storeVars
        BY <1>7 DEF OutcomeLost
    <2>2. \A e \in Delta : InHand(e)' => InHand(e)
        BY <1>1, <1>2, <1>3, <2>1 DEF InHand
    <2>3. StoreTypeOK'
        BY <2>1 DEF HandInv, storeVars, StoreTypeOK
    <2>4. \A t \in Slot : Busy(t)' => Busy(t) /\ slot'[t] = slot[t]
        BY <1>1, <1>2, <1>3
    <2>5. HandInv'
        BY <1>1, <2>1, <2>2, <2>3, <2>4 DEF HandInv, storeVars
    <2>6. \A e \in Delta : Settled(e)' => Settled(e)
        BY <2>1, <2>2 DEF Settled, storeVars
    <2>7. \A t \in Slot : slot'[t] = slot[t] \/ slot'[t] = Idle
        BY <1>1
    <2>8. QED
        BY <2>1, <2>5, <2>6, <2>7 DEF WorkerEffect, storeVars
<1>8. QED
    BY <1>6, <1>7

\* Every step of the worker keeps the invariant, and does no more than
\* WorkerEffect says.
LEMMA WorkerStepHand ==
    ASSUME HandInv, WorkerStep
    PROVE  HandInv' /\ WorkerEffect
<1>1. CASE RunOnce
    <2>1. BatchDone /\ UNCHANGED <<slot, broken>>
        BY <1>1 DEF RunOnce
    <2>2. CASE Dispatch /\ UNCHANGED batch
        BY <2>1, <2>2, DispatchStep DEF workVars
    <2>3. ASSUME NEW B \in SUBSET Claimable,
                 ClaimBatch(ThisWorker, B), batch' = B
          PROVE  HandInv' /\ WorkerEffect
        BY <2>1, <2>3, ClaimStep
    <2>4. QED
        BY <1>1, <2>2, <2>3 DEF RunOnce
<1>2. ASSUME NEW d \in Delta, TimePasses(d) PROVE HandInv' /\ WorkerEffect
    BY <1>2, TimeStep
<1>3. ASSUME NEW s \in Slot, NEW d \in batch, Take(s, d)
      PROVE  HandInv' /\ WorkerEffect
    BY <1>3, TakeStep
<1>4. ASSUME NEW s \in Slot, RecordOutcome(s) \/ OutcomeLost(s)
      PROVE  HandInv' /\ WorkerEffect
    BY <1>4, OutcomeStep
<1>5. QED
    BY <1>1, <1>2, <1>3, <1>4 DEF WorkerStep

\* No step of the worker itself applies an operation.
LEMMA EffectApplied ==
    ASSUME WorkerEffect
    PROVE  \A d \in Delta : Applied(d)' => Applied(d)
    BY DEF WorkerEffect, Applied, Idle

\* The worker does not take a slot away from a job before it has an outcome.
LEMMA WorkerKeepsBusy ==
    ASSUME HandInv, WorkerStep, NEW s \in Slot
    PROVE  slot'[s] = slot[s] \/ slot[s].at \in {"idle", "finalize", "fail", "reject"}
<1>1. CASE RunOnce \/ \E d \in Delta : TimePasses(d)
    BY <1>1 DEF RunOnce, TimePasses, workVars
<1>2. ASSUME NEW t \in Slot,
             (\E d \in batch : Take(t, d)) \/ RecordOutcome(t) \/ OutcomeLost(t)
      PROVE  slot'[s] = slot[s] \/ slot[s].at \in {"idle", "finalize", "fail", "reject"}
    <2>1. slot[t].at \in {"idle", "finalize", "fail", "reject"}
        BY <1>2 DEF Take, RecordOutcome, OutcomeLost
    <2>2. s # t => slot'[s] = slot[s]
        BY <1>2 DEF Take, RecordOutcome, OutcomeLost, HandInv
    <2>3. QED
        BY <2>1, <2>2
<1>3. QED
    BY <1>1, <1>2 DEF WorkerStep

----------------------------------------------------------------------------
(* Failed attempts.                                                        *)

Failing(s) == slot[s].at \in {"fail", "reject"}

\* An attempt that fails is within the limit, since its job is not settled.
LEMMA FailedAttemptsBound ==
    ASSUME HandInv, NEW d \in Delta
    PROVE  FailedAttempts(d) \in 0 .. MaxAttempts
<1>1. attempts[d] \in 0 .. MaxAttempts
    BY DEF HandInv, StoreTypeOK
<1>2. CASE \E s \in Slot : Failing(s) /\ slot[s].job = d
    <2>1. InHand(d)
        BY <1>2 DEF Failing, InHand, Busy
    <2>2. attempts[d] < MaxAttempts
        BY <2>1 DEF HandInv, Terminal
    <2>3. QED
        BY <1>1, <2>2, JobAssumption DEF FailedAttempts
<1>3. CASE ~ \E s \in Slot : Failing(s) /\ slot[s].job = d
    BY <1>1, <1>3, JobAssumption DEF FailedAttempts, Failing
<1>4. QED
    BY <1>2, <1>3

\* A slot that goes on adds an attempt where it fails, and nowhere else.
LEMMA SlotMovesFailed ==
    ASSUME HandInv, NEW s \in Slot, SlotMoves(s), ~Failing(s),
           NEW j \in Delta, j = slot[s].job
    PROVE  /\ FailedAttempts(j)' = FailedAttempts(j) + (IF Failing(s)' THEN 1 ELSE 0)
           /\ FailedAttempts(j) < MaxAttempts
           /\ \A d \in Delta \ {j} : FailedAttempts(d)' = FailedAttempts(d)
<1>1. /\ attempts' = attempts /\ attempts[j] \in 0 .. MaxAttempts
      /\ \A t \in Slot \ {s} : slot'[t] = slot[t]
      /\ slot'[s].job = j /\ jobState[j] = "processing"
      /\ \A t \in Slot \ {s} : Busy(t) => slot[t].job # j
    BY SlotJob DEF SlotMoves, storeVars, HandInv, StoreTypeOK
<1>2. FailedAttempts(j) = attempts[j] /\ attempts[j] < MaxAttempts
    BY <1>1 DEF FailedAttempts, Failing, Busy, HandInv, Terminal
<1>3. FailedAttempts(j)' = attempts[j] + (IF Failing(s)' THEN 1 ELSE 0)
    BY <1>1 DEF FailedAttempts, Failing, Busy
<1>4. \A d \in Delta \ {j} : FailedAttempts(d)' = FailedAttempts(d)
    BY <1>1 DEF FailedAttempts
<1>5. QED
    BY <1>2, <1>3, <1>4

\* The worker records each failed attempt once, unless it loses the outcome.
LEMMA WorkerStepFailed ==
    ASSUME HandInv, WorkerStep, ~broken', NEW d \in Delta
    PROVE  FailedAttempts(d)' = FailedAttempts(d)
<1>1. CASE RunOnce
    BY <1>1 DEF RunOnce, Dispatch, CommitJobs, ClaimBatch, FailedAttempts
<1>2. ASSUME NEW e \in Delta, TimePasses(e)
      PROVE  FailedAttempts(d)' = FailedAttempts(d)
    BY <1>2 DEF TimePasses, LeaseExpires, BackoffElapses, workVars, FailedAttempts
<1>3. ASSUME NEW s \in Slot, NEW e \in batch, Take(s, e)
      PROVE  FailedAttempts(d)' = FailedAttempts(d)
    <2>1. /\ attempts' = attempts /\ ~Failing(s) /\ ~Failing(s)'
          /\ \A t \in Slot \ {s} : slot'[t] = slot[t]
        BY <1>3 DEF Take, storeVars, HandInv, Failing
    <2>2. QED
        BY <2>1 DEF FailedAttempts, Failing
<1>4. ASSUME NEW s \in Slot, RecordOutcome(s)
      PROVE  FailedAttempts(d)' = FailedAttempts(d)
    <2>1. PICK j \in Delta :
             /\ j = slot[s].job
             /\ \A t \in Slot \ {s} : Busy(t) => slot[t].job # j
        BY <1>4, SlotJob DEF RecordOutcome, Busy
    <2>2. /\ slot'[s] = Idle /\ \A t \in Slot \ {s} : slot'[t] = slot[t]
        BY <1>4 DEF RecordOutcome, HandInv
    <2>3. attempts' = [attempts EXCEPT ![j] = IF Failing(s) THEN attempts[j] + 1
                                                            ELSE attempts[j]]
        BY <1>4, <2>1 DEF RecordOutcome, MarkSynced, MarkFailed, MarkRejected,
                          Finalize, Failing
    <2>4. ~Failing(s)' /\ DOMAIN attempts = Delta
        BY <2>2 DEF Failing, Idle, HandInv, StoreTypeOK
    <2>5. CASE d = j
        <3>1. attempts[j] \in 0 .. MaxAttempts
            BY DEF HandInv, StoreTypeOK
        <3>2. FailedAttempts(d)' = attempts'[j] + 0
            BY <2>1, <2>2, <2>4, <2>5 DEF FailedAttempts, Failing, Busy
        <3>3. FailedAttempts(d) = attempts[j] + (IF Failing(s) THEN 1 ELSE 0)
            BY <2>1, <2>5 DEF FailedAttempts, Failing, Busy
        <3>4. QED
            BY <2>3, <2>4, <3>1, <3>2, <3>3, JobAssumption
    <2>6. CASE d # j
        BY <2>1, <2>2, <2>3, <2>4, <2>6 DEF FailedAttempts, Failing
    <2>7. QED
        BY <2>5, <2>6
<1>5. ASSUME NEW s \in Slot, OutcomeLost(s) PROVE FALSE
    BY <1>5 DEF OutcomeLost
<1>6. QED
    BY <1>1, <1>2, <1>3, <1>4, <1>5 DEF WorkerStep
=============================================================================
