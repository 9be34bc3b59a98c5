------------------------------ MODULE JobStore ------------------------------
(***************************************************************************)
(* The deltaflow tables in Postgres and the operations on them: outbox     *)
(* deltas and sync jobs.  The operations belong to the DeltaFlow library   *)
(* (DeltaStore, DispatchStore, JobStore), which is not in this repository; *)
(* they are modelled from what the repository states of it: the columns    *)
(* and states its queries read (host.go, Makefile), the configuration it   *)
(* passes (MaxAttempts, LockFor, BatchSize) and the behaviour its READMEs  *)
(* describe (leases, retries, dead letters).  Each operation is one        *)
(* statement or one transaction, hence one step.                           *)
(*                                                                         *)
(* Every delta is dispatched into one job, so a job has its delta's name.  *)
(***************************************************************************)
EXTENDS Naturals, FiniteSets

CONSTANTS
    Delta,        \* the deltas the writers may commit
    Worker,       \* the workers, by WorkerID
    NoOwner,      \* no unexpired lease
    MaxAttempts,  \* JobStoreConfig.MaxAttempts
    BatchSize     \* SyncWorker.BatchSize

ASSUME JobAssumption ==
    /\ IsFiniteSet(Worker) /\ Worker # {}
    /\ NoOwner \notin Worker
    /\ MaxAttempts \in Nat \ {0}
    /\ BatchSize \in Nat \ {0}

VARIABLES
    deltas,     \* committed deltas
    jobState,   \* jobState[d]: "absent" while the delta is not dispatched
    attempts,   \* attempts[d]: attempt_count
    owner,      \* owner[d]: locked_by, NoOwner when locked_until is past
    available   \* available[d]: available_at has come

storeVars == <<deltas, jobState, attempts, owner, available>>

Terminal == {"synced", "dead"}
JobStates == {"absent", "pending", "processing", "retrying"} \cup Terminal

StoreTypeOK ==
    /\ deltas \subseteq Delta
    /\ jobState \in [Delta -> JobStates]
    /\ attempts \in [Delta -> 0 .. MaxAttempts]
    /\ owner \in [Delta -> Worker \cup {NoOwner}]
    /\ available \in [Delta -> BOOLEAN]

\* host.ResetSync has deleted the sync's deltas and jobs.
StoreInit ==
    /\ deltas = {}
    /\ jobState = [d \in Delta |-> "absent"]
    /\ attempts = [d \in Delta |-> 0]
    /\ owner = [d \in Delta |-> NoOwner]
    /\ available = [d \in Delta |-> FALSE]

PendingDeltas == {d \in deltas : jobState[d] = "absent"}
JobsIn(S)     == {d \in Delta : jobState[d] \in S}

\* A committed transaction of the writers adds its delta.
CommitDelta(d) ==
    /\ deltas' = deltas \cup {d}
    /\ UNCHANGED <<jobState, attempts, owner, available>>

\* The COMMIT of the dispatcher's transaction: the deltas of D have jobs.
CommitJobs(D) ==
    /\ jobState' = [d \in Delta |-> IF d \in D THEN "pending" ELSE jobState[d]]
    /\ available' = [d \in Delta |-> available[d] \/ d \in D]
    /\ UNCHANGED <<deltas, attempts, owner>>

\* The dispatcher turns pending deltas into pending jobs, in one transaction.
Dispatch ==
    \E D \in SUBSET PendingDeltas :
        /\ PendingDeltas # {} => D # {}
        /\ CommitJobs(D)

\* Jobs a worker may claim: due ones, and those whose lease ran out.
Claimable ==
    {d \in Delta : \/ jobState[d] \in {"pending", "retrying"} /\ available[d]
                   \/ jobState[d] = "processing" /\ owner[d] = NoOwner}

ClaimBatch(w, B) ==
    /\ B \subseteq Claimable
    /\ Cardinality(B) <= BatchSize
    /\ Claimable # {} => B # {}
    /\ jobState' = [d \in Delta |-> IF d \in B THEN "processing"
                                               ELSE jobState[d]]
    /\ owner' = [d \in Delta |-> IF d \in B THEN w ELSE owner[d]]
    /\ UNCHANGED <<deltas, attempts, available>>

HoldsLease_Any(w, d) == jobState[d] # "absent"

\* The condition in the WHERE clause of every finalising UPDATE.
HoldsLease(w, d) == jobState[d] = "processing" /\ owner[d] = w

Finalize(d, state, n, due) ==
    /\ jobState' = [jobState EXCEPT ![d] = state]
    /\ attempts' = [attempts EXCEPT ![d] = n]
    /\ owner' = [owner EXCEPT ![d] = NoOwner]
    /\ available' = [available EXCEPT ![d] = due]
    /\ UNCHANGED deltas

\* The projection was applied, or the ghost deleted.
MarkSynced(w, d) ==
    /\ HoldsLease(w, d)
    /\ Finalize(d, "synced", attempts[d], FALSE)

MarkFailed_OffByOne(w, d) ==
    /\ HoldsLease(w, d)
    /\ Finalize(d, IF attempts[d] + 1 > MaxAttempts THEN "dead" ELSE "retrying",
                attempts[d] + 1, FALSE)

\* The attempt failed: retry later, or dead-letter the job when this was the
\* last attempt.
MarkFailed(w, d) ==
    /\ HoldsLease(w, d)
    /\ Finalize(d, IF attempts[d] + 1 >= MaxAttempts THEN "dead" ELSE "retrying",
                attempts[d] + 1, FALSE)

\* The applier called the error not retryable (elasticsearch_target.go sets
\* Retryable: false): the library may dead-letter the job at once.
MarkRejected(w, d) ==
    /\ HoldsLease(w, d)
    /\ Finalize(d, "dead", attempts[d] + 1, FALSE)

\* locked_until passes while the job is still being processed.
LeaseExpires(d) ==
    /\ jobState[d] = "processing"
    /\ owner[d] # NoOwner
    /\ owner' = [owner EXCEPT ![d] = NoOwner]
    /\ UNCHANGED <<deltas, jobState, attempts, available>>

\* The retry delay of the library passes by itself.
BackoffElapses(d) ==
    /\ jobState[d] = "retrying"
    /\ ~available[d]
    /\ available' = [available EXCEPT ![d] = TRUE]
    /\ UNCHANGED <<deltas, jobState, attempts, owner>>

MakeRetryingAvailable_Nothing == UNCHANGED storeVars

\* host.MakeRetryingAvailable: every waiting retry becomes due now.
MakeRetryingAvailable ==
    /\ available' = [d \in Delta |-> available[d] \/ jobState[d] = "retrying"]
    /\ UNCHANGED <<deltas, jobState, attempts, owner>>
=============================================================================
