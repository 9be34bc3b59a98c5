----------------------------- MODULE ESTarget -----------------------------
(***************************************************************************)
(* The Elasticsearch flavor's read side: the worker projects the changed   *)
(* user, customer or order and elasticsearchCRMTarget.Apply puts it into   *)
(* the index, or deletes the document of a ghost; without an endpoint,     *)
(* crmTargetSimulator only counts and queues.  The search document is the  *)
(* projection, and the projector reads the latest row: a document is known *)
(* here by the version of the row it was made from.                        *)
(*                                                                         *)
(* A request that the HTTP client has given up (10s, or the end of the     *)
(* context) may still be carried out by the server, at any later time.     *)
(***************************************************************************)
EXTENDS SyncWorker, FiniteSetsExt

CONSTANTS
    Entity,        \* "{projection type}/{id}": users, customers, orders
    Ghost,         \* the document seedGhost puts; no table has its row
    entityOf,      \* entityOf[d]: the entity whose change delta d announces
    RetryEntity,   \* the target's failOnce map
    DeadEntity,    \* the target's deadLetters map
    Absent,        \* no such row, no such document
    Stale,         \* the content of the seeded ghost document
    Connections,   \* the values of connected to start with
    PageSize       \* hits of one search; 10000 in the code

ASSUME ESAssumption ==
    /\ IsFiniteSet(Entity) /\ Ghost \in Entity
    /\ entityOf \in [Delta -> Entity]
    /\ RetryEntity \subseteq Entity \ {Ghost}
    /\ DeadEntity \subseteq Entity \ {Ghost}
    /\ Absent \notin Nat /\ Stale \notin Nat /\ Absent # Stale
    /\ Connections \subseteq BOOLEAN
    /\ PageSize \in Nat \ {0}

VARIABLES
    row,        \* row[e]: version of the committed row of e
    connected,  \* DELTAFLOW_ES_ENDPOINT is set; else the simulator
    doc,        \* doc[e]: the document of e in the index
    late,       \* requests given up by the client and not carried out yet
    givenUp,    \* entities for which a request was ever given up
    failOnce,   \* failOnce entries not used up yet
    counted,    \* counted[d]: how often the target counted d's operation,
                \* as an upsert or a delete, and queued its fanout event
    failures,   \* the target's counter of failures
    ghosts,     \* the counter of countingProjector
    report      \* {}, or the documents of the snapshot

indexVars  == <<connected, doc, late, givenUp>>
targetVars == <<failOnce, counted, failures>>
countVars  == <<ghosts, report>>
vars == <<storeVars, workVars, row, indexVars, targetVars, countVars>>

EntityAt(s) == entityOf[slot[s].job]

\* reset and seedGhost have run: the index is empty but for the ghost.  A
\* request of theirs that fails ends the program before the stages start
\* (Fail in Workload, CallFails in CRMDemo).
Init ==
    /\ StoreInit
    /\ WorkInit
    /\ row = [e \in Entity |-> IF e = Ghost THEN Absent ELSE 1]
    /\ connected \in Connections
    /\ doc = [e \in Entity |-> IF e = Ghost /\ connected THEN Stale
                                                       ELSE Absent]
    /\ late = {}
    /\ givenUp = {}
    /\ failOnce = RetryEntity
    /\ counted = [d \in Delta |-> 0]
    /\ failures = 0
    /\ ghosts = 0
    /\ report = {}

\* A writer's transaction commits: the row and the delta together.  The
\* ghost event changes no row.
WriterCommits(d) ==
    /\ d \notin deltas
    /\ CommitDelta(d)
    /\ row' = IF entityOf[d] = Ghost THEN row
                                     ELSE [row EXCEPT ![entityOf[d]] = @ + 1]
    /\ UNCHANGED <<workVars, indexVars, targetVars, countVars>>

----------------------------------------------------------------------------
(* One slot at work on one job.                                            *)

Project_GhostIgnored(s) ==
    /\ slot[s].at = "project"
    /\ slot' = [slot EXCEPT ![s] =
                  IF row[EntityAt(s)] = Absent
                  THEN [at |-> "finalize", job |-> slot[s].job]
                  ELSE [at |-> "guards", job |-> slot[s].job,
                        content |-> row[EntityAt(s)]]]
    /\ ghosts' = IF row[EntityAt(s)] = Absent THEN ghosts + 1 ELSE ghosts
    /\ UNCHANGED <<storeVars, batch, broken, row, indexVars, targetVars, report>>

\* countingProjector: the projector reads the row; when there is none, it is
\* counted, and the worker makes a delete of it.
Project(s) ==
    /\ slot[s].at = "project"
    /\ slot' = [slot EXCEPT ![s] = [at |-> "guards", job |-> slot[s].job,
                                    content |-> row[EntityAt(s)]]]
    /\ ghosts' = IF row[EntityAt(s)] = Absent THEN ghosts + 1 ELSE ghosts
    /\ UNCHANGED <<storeVars, batch, broken, row, indexVars, targetVars, report>>

Refuse_NoReturn(s) ==
    /\ slot[s].at = "guards"
    /\ connected
    /\ slot[s].content # Absent
    /\ EntityAt(s) \in DeadEntity \cup failOnce
    /\ failures' = failures + 1
    /\ failOnce' = failOnce \ {EntityAt(s)}
    /\ slot' = [slot EXCEPT ![s].at = "sent"]
    /\ UNCHANGED <<storeVars, batch, broken, row, indexVars, counted, countVars>>

\* Apply's guards, under the mutex, for upserts only: an entity in
\* deadLetters is always rejected, one in failOnce refused the first time.
Refuse(s) ==
    /\ slot[s].at = "guards"
    /\ connected
    /\ slot[s].content # Absent
    /\ EntityAt(s) \in DeadEntity \cup failOnce
    /\ failures' = failures + 1
    /\ IF EntityAt(s) \in DeadEntity
       THEN Goto(s, "reject") /\ UNCHANGED failOnce
       ELSE Goto(s, "fail") /\ failOnce' = failOnce \ {EntityAt(s)}
    /\ UNCHANGED <<storeVars, batch, broken, row, indexVars, counted, countVars>>

\* The guards let the operation pass; the applier sends its request.
Send(s) ==
    /\ slot[s].at = "guards"
    /\ connected
    /\ slot[s].content = Absent \/ EntityAt(s) \notin DeadEntity \cup failOnce
    /\ slot' = [slot EXCEPT ![s].at = "sent"]
    /\ UNCHANGED <<storeVars, batch, broken, row, indexVars, targetVars,
                   countVars>>

\* Elasticsearch carries out the request and answers.
ServerApplies(s) ==
    /\ slot[s].at = "sent"
    /\ doc' = [doc EXCEPT ![EntityAt(s)] = slot[s].content]
    /\ Goto(s, "count")
    /\ UNCHANGED <<storeVars, batch, broken, row, connected, late, givenUp,
                   targetVars, countVars>>

\* The applier returns an error: the server refused the request, for now or
\* for good, or its answer was lost on the way.
ApplierFails(s) ==
    /\ slot[s].at = "sent"
    /\ \/ UNCHANGED doc
       \/ doc' = [doc EXCEPT ![EntityAt(s)] = slot[s].content]
    /\ Goto(s, "fail") \/ Goto(s, "reject")
    /\ failures' = failures + 1
    /\ UNCHANGED <<storeVars, batch, broken, row, connected, late, givenUp,
                   failOnce, counted, countVars>>

\* The client gives the request up while it is under way.
ClientGivesUp(s) ==
    /\ slot[s].at = "sent"
    /\ late' = late \cup {[entity |-> EntityAt(s), content |-> slot[s].content]}
    /\ givenUp' = givenUp \cup {EntityAt(s)}
    /\ Goto(s, "fail")
    /\ failures' = failures + 1
    /\ UNCHANGED <<storeVars, batch, broken, row, connected, doc, failOnce,
                   counted, countVars>>

\* The server carries out a request that was given up.
LateRequest(r) ==
    /\ doc' = [doc EXCEPT ![r.entity] = r.content]
    /\ late' = late \ {r}
    /\ UNCHANGED <<storeVars, workVars, row, connected, givenUp, targetVars,
                   countVars>>

\* The end of Apply takes the mutex again, appends the fanout events of the
\* operation and counts it.
CountOp(s) ==
    /\ slot[s].at = "count"
    /\ counted' = [counted EXCEPT ![slot[s].job] = @ + 1]
    /\ Goto(s, "finalize")
    /\ UNCHANGED <<storeVars, batch, broken, row, indexVars, failOnce, failures,
                   countVars>>

SimulatorApplies_CountFirst(s) ==
    /\ slot[s].at = "guards"
    /\ ~connected
    /\ counted' = [counted EXCEPT ![slot[s].job] = @ + 1]
    /\ IF slot[s].content # Absent /\ EntityAt(s) \in DeadEntity \cup failOnce
       THEN /\ failures' = failures + 1
            /\ failOnce' = IF EntityAt(s) \in DeadEntity THEN failOnce
                           ELSE failOnce \ {EntityAt(s)}
            /\ Goto(s, "fail")
       ELSE /\ Goto(s, "finalize")
            /\ UNCHANGED <<failures, failOnce>>
    /\ UNCHANGED <<storeVars, batch, broken, row, indexVars, countVars>>

\* The simulator guards, queues and counts in one critical section, and its
\* refusals are plain errors, all of them retried.
SimulatorApplies(s) ==
    /\ slot[s].at = "guards"
    /\ ~connected
    /\ IF slot[s].content # Absent /\ EntityAt(s) \in DeadEntity \cup failOnce
       THEN /\ failures' = failures + 1
            /\ failOnce' = IF EntityAt(s) \in DeadEntity THEN failOnce
                           ELSE failOnce \ {EntityAt(s)}
            /\ Goto(s, "fail")
            /\ UNCHANGED counted
       ELSE /\ counted' = [counted EXCEPT ![slot[s].job] = @ + 1]
            /\ Goto(s, "finalize")
            /\ UNCHANGED <<failures, failOnce>>
    /\ UNCHANGED <<storeVars, batch, broken, row, indexVars, countVars>>

ProjectFails_Counted(s) ==
    /\ slot[s].at = "project"
    /\ Goto(s, "fail")
    /\ ghosts' = ghosts + 1
    /\ UNCHANGED <<storeVars, batch, broken, row, indexVars, targetVars, report>>

\* The projector's query fails, which is no ghost.
ProjectFails(s) ==
    /\ slot[s].at = "project"
    /\ Goto(s, "fail")
    /\ UNCHANGED <<storeVars, batch, broken, row, indexVars, targetVars,
                   countVars>>

----------------------------------------------------------------------------
(* The end of the run.                                                     *)

WorkComplete_RetryingIgnored ==
    /\ deltas = Delta /\ BatchDone /\ ~broken
    /\ \A d \in Delta : jobState[d] \in Terminal \cup {"retrying"}

\* The writers are done and WorkComplete has found nothing left to do.
WorkComplete ==
    /\ deltas = Delta /\ BatchDone /\ ~broken
    /\ \A d \in Delta : jobState[d] \in Terminal

\* Which documents a search with size=10000 returns: all, or any 10000.
Pages ==
    LET present == {e \in Entity : doc[e] # Absent}
    IN {P \in SUBSET present :
            Cardinality(P) = IF Cardinality(present) < PageSize
                             THEN Cardinality(present) ELSE PageSize}

\* snapshot, called once, after the worker has returned.
Snapshot ==
    /\ WorkComplete
    /\ connected
    /\ report = {}
    /\ \E P \in Pages : report' = {[e \in P |-> doc[e]]}
    /\ UNCHANGED <<storeVars, workVars, row, indexVars, targetVars, ghosts>>

\* Everything is committed and done, or RunOnce returned an error.
Stopped ==
    /\ BatchDone
    /\ deltas = Delta
    /\ UNCHANGED vars

Next ==
    \/ \E d \in Delta : WriterCommits(d)
    \/ WorkerStep /\ UNCHANGED <<row, indexVars, targetVars, countVars>>
    \/ \E s \in Slot :
          \/ Project(s) \/ Refuse(s) \/ Send(s) \/ ServerApplies(s)
          \/ ApplierFails(s) \/ ClientGivesUp(s) \/ CountOp(s)
          \/ ProjectFails(s) \/ SimulatorApplies(s)
    \/ \E r \in late : LateRequest(r)
    \/ Snapshot
    \/ Stopped

Spec == Init /\ [][Next]_vars

----------------------------------------------------------------------------
(* Properties.                                                             *)

TypeOK ==
    /\ StoreTypeOK
    /\ WorkTypeOK({"guards", "sent", "count", "reject"})
    /\ row \in [Entity -> Nat \cup {Absent}]
    /\ doc \in [Entity -> Nat \cup {Absent, Stale}]
    /\ connected \in BOOLEAN /\ givenUp \subseteq Entity
    /\ \A r \in late : r.entity \in givenUp
    /\ failOnce \subseteq RetryEntity
    /\ counted \in [Delta -> Nat]
    /\ failures \in Nat /\ ghosts \in Nat
    /\ \A page \in report : DOMAIN page \subseteq Entity

JobsOf(e) == {d \in Delta : entityOf[d] = e}
NeverRefreshed(e) == \A d \in JobsOf(e) : jobState[d] # "synced"

\* The index lags behind Postgres and never lies for good: a document differs
\* from the latest row (the ghost's: is still there) only if a committed
\* change of the entity has a job that is still to come or was dead-lettered,
\* or if no job of the entity was synced in this run, or if a request for it
\* was given up and may arrive after newer ones.  Two slots that work on the
\* same document side by side do not matter, although a document can go back
\* to an older version in between.
DocStaleIsOwed ==
    connected => \A e \in Entity : doc[e] # row[e] =>
        Owed(JobsOf(e)) \/ NeverRefreshed(e) \/ e \in givenUp

\* The same as a refinement, which says more: a document that is not owed is
\* not written at all, and a debt is settled by the latest version.
Consistency == INSTANCE ReadModel WITH
    Key <- Entity,
    source <- row,
    copy <- doc,
    owed <- {e \in Entity : Owed(JobsOf(e)) \/ NeverRefreshed(e)
                               \/ e \in givenUp}

ImplementsReadModel == Consistency!Spec

\* The report's upserts, deletes and fanout events count each synced job
\* once and no other job, however often it was tried, unless recording an
\* outcome failed.
EachJobCountedOnce ==
    ~broken => \A d \in Delta : counted[d] = IF d \in Succeeded THEN 1 ELSE 0

\* The failed attempts at the jobs of D, each by its job and its number.
AttemptsOf(D) ==
    Cardinality({da \in D \X (1 .. MaxAttempts) : da[2] <= FailedAttempts(da[1])})

\* Every failure the target reports is one the worker was told of: it cost
\* the job an attempt.
FailuresAreAttempts == ~broken => failures <= AttemptsOf(Delta)

\* The projector's count of ghosts: each attempt at a ghost's job counts once
\* at most, each success at least once, and no other job counts.
GhostsAreAttempts ==
    ~broken =>
       LET jobs == JobsOf(Ghost)
           seen == {d \in jobs :
                      \/ d \in Succeeded
                      \/ \E s \in Slot : /\ slot[s].at \in {"guards", "sent", "count"}
                                         /\ slot[s].job = d}
       IN ghosts \in Cardinality(seen) .. Cardinality(seen) + AttemptsOf(jobs)

\* What the report shows of the index (documents, digest) is Postgres as it
\* is: once the work is complete, a page that is not full holds the latest
\* row of every entity whose jobs all succeeded, and none that has no row;
\* except for requests that were given up.
SnapshotIsCurrent ==
    \A page \in report : Cardinality(DOMAIN page) < PageSize =>
        \A e \in Entity \ givenUp :
            JobsOf(e) # {} /\ (\A d \in JobsOf(e) : jobState[d] = "synced") =>
                IF row[e] = Absent THEN e \notin DOMAIN page
                ELSE e \in DOMAIN page /\ page[e] = row[e]

\* "simulated one temporary target timeout, then retry succeeded", says the
\* report, once it is printed, whenever two attempts are allowed
\* (output.go:33): some job of the entity must have been synced then.
RetrySucceeded ==
    report # {} /\ MaxAttempts >= 2 =>
        \A e \in RetryEntity : \E d \in JobsOf(e) : jobState[d] = "synced"
=============================================================================
