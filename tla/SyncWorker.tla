---------------------------- MODULE SyncWorker ----------------------------
(***************************************************************************)
(* One deltaflow SyncWorker at the grain its targets need.  RunOnce claims *)
(* a batch, its Concurrency slots work on the jobs of the batch side by    *)
(* side, and the next batch is claimed when every slot is idle again.      *)
(* runDemo starts one worker; buildSyncWorker sets its concurrency.        *)
(*                                                                         *)
(* What a slot does with a job is up to the module that extends this one:  *)
(* a slot starts a job at "project" and is done with it at "finalize"      *)
(* (success), "fail" (a retryable error) or "reject" (another error).      *)
(***************************************************************************)
EXTENDS JobStore

CONSTANTS
    ThisWorker,   \* "deltaflow-worker-1", the only one runDemo starts
    Slot          \* as many as SyncWorker.Concurrency

ASSUME OneWorker == Worker = {ThisWorker}

\* A plan is a list of events, and Concurrency an int.
ASSUME SyncAssumption == IsFiniteSet(Delta) /\ IsFiniteSet(Slot)

VARIABLES
    batch,   \* claimed jobs no slot has taken yet
    slot,    \* slot[s]: where s is, the job it works on, what it has read
    broken   \* RunOnce will return an error: a finalising call failed

workVars == <<batch, slot, broken>>

Idle == [at |-> "idle"]

WorkInit ==
    /\ batch = {}
    /\ slot = [s \in Slot |-> Idle]
    /\ broken = FALSE

WorkTypeOK(labels) ==
    /\ batch \subseteq Delta
    /\ \A s \in Slot :
          /\ slot[s].at \in labels \cup {"idle", "project", "finalize", "fail"}
          /\ slot[s].at # "idle" => slot[s].job \in Delta
    /\ broken \in BOOLEAN

BatchDone_FreeSlot == batch = {} /\ \E s \in Slot : slot[s].at = "idle"

\* RunOnce returns when every job of its batch has been dealt with; only
\* then can the next RunOnce claim.
BatchDone == batch = {} /\ \A s \in Slot : slot[s].at = "idle"

\* RunOnce: dispatch what is pending, then claim a batch.
RunOnce ==
    /\ ~broken
    /\ BatchDone
    /\ \/ PendingDeltas # {} /\ Dispatch /\ UNCHANGED batch
       \/ \E B \in SUBSET Claimable :
             /\ B # {}
             /\ ClaimBatch(ThisWorker, B)
             /\ batch' = B
    /\ UNCHANGED <<slot, broken>>

\* Retry delays and leases run out; MakeRetryingAvailable hastens the former.
TimePasses(d) ==
    /\ LeaseExpires(d) \/ BackoffElapses(d)
    /\ UNCHANGED workVars

\* A slot takes a job of the batch.
Take(s, d) ==
    /\ slot[s].at = "idle"
    /\ d \in batch
    /\ batch' = batch \ {d}
    /\ slot' = [slot EXCEPT ![s] = [at |-> "project", job |-> d]]
    /\ UNCHANGED <<storeVars, broken>>

\* The worker records how the job went.  What the library makes of an error
\* that is not retryable is left open: the end of the job, or one more failed
\* attempt ("dead-letter after max attempts" in output.go).
RecordOutcome(s) ==
    /\ LET d == slot[s].job IN
       \/ slot[s].at = "finalize" /\ MarkSynced(ThisWorker, d)
       \/ slot[s].at \in {"fail", "reject"} /\ MarkFailed(ThisWorker, d)
       \/ slot[s].at = "reject" /\ MarkRejected(ThisWorker, d)
    /\ slot' = [slot EXCEPT ![s] = Idle]
    /\ UNCHANGED <<batch, broken>>

\* Recording the outcome fails, or the lease is gone: RunOnce takes no more
\* of the batch and will return an error.  What Apply has done stays done.
OutcomeLost(s) ==
    /\ slot[s].at \in {"finalize", "fail", "reject"}
    /\ slot' = [slot EXCEPT ![s] = Idle]
    /\ batch' = {}
    /\ broken' = TRUE
    /\ UNCHANGED storeVars

WorkerStep ==
    \/ RunOnce
    \/ \E d \in Delta : TimePasses(d)
    \/ \E s \in Slot :
          \/ \E d \in batch : Take(s, d)
          \/ RecordOutcome(s) \/ OutcomeLost(s)

----------------------------------------------------------------------------
(* What the modules of the targets use.                                    *)

\* Slot s goes on with its job at the given place, and drops what it read.
Goto(s, label) ==
    slot' = [slot EXCEPT ![s] = [at |-> label, job |-> slot[s].job]]

\* Some job of D is committed and not yet synced.
Owed(D) == \E d \in D \cap deltas : jobState[d] # "synced"

\* Jobs whose operation was applied, as far as the worker knows.
Succeeded ==
    {d \in Delta : \/ jobState[d] = "synced"
                   \/ \E s \in Slot : slot[s].at = "finalize" /\ slot[s].job = d}

\* Attempts at job d that failed, recorded or about to be.
FailedAttempts(d) ==
    attempts[d] + IF \E s \in Slot : /\ slot[s].at \in {"fail", "reject"}
                                    /\ slot[s].job = d
                  THEN 1 ELSE 0
=============================================================================
