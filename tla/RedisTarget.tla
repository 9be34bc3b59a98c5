---------------------------- MODULE RedisTarget ----------------------------
(***************************************************************************)
(* The Redis flavor's read side: one SyncWorker projects the changed       *)
(* orders and redisCRMTarget.Apply refreshes the metric keys, while the    *)
(* writers go on changing orders.                                          *)
(*                                                                         *)
(* Writers: a change and its delta commit in one transaction, in any order *)
(* (WriterStage shows that they do).  Worker: see SyncWorker.  The values  *)
(* written to Redis do not come from the delta: Apply reads them from      *)
(* Postgres, one query per key, some time after the claim of the job and   *)
(* some time before the write.  A write that its client has given up (2s,  *)
(* or the end of the context) may still be carried out, at any later time. *)
(***************************************************************************)
EXTENDS SyncWorker, Functions

CONSTANTS
    Order, Customer,
    CustomerOf,   \* customer_id of an order; no change touches it
    FirstTotal,   \* total_cents of an order before the run
    change,       \* change[d]: the mutation announced by delta d
    RetryOrder,   \* orders in the target's failOnce map
    DeadOrder,    \* orders in the target's deadLetters map
    Connections,  \* the values of connected to start with
    MaxGivenUp,   \* bound: writes given up by their clients
    Leftover,     \* what an earlier run may have left in Redis
    NoValue       \* no such key

\* A change of a user or a customer has EntityID NoValue: its projection
\* holds no order, and all that matters is that Apply ignores it.
Change == [Kind: {"total"}, EntityID: Order, Value: Nat]
            \cup [Kind: {"status"}, EntityID: Order]
            \cup [Kind: {"ghost", "other"}, EntityID: {NoValue}]

ASSUME RedisAssumption ==
    /\ IsFiniteSet(Order)
    /\ CustomerOf \in [Order -> Customer]
    /\ FirstTotal \in [Order -> Nat]
    /\ change \in [Delta -> Change]
    /\ RetryOrder \subseteq Order /\ DeadOrder \subseteq Order
    /\ "global" \notin Customer
    /\ NoValue \notin Order
    /\ Connections \subseteq BOOLEAN /\ MaxGivenUp \in Nat

VARIABLES
    total,      \* total[o]: total_cents of the committed row of order o
    connected,  \* DELTAFLOW_REDIS_ADDR is set; else nothing is written
    redis,      \* redis[k]: the value of metric key k in Redis
    late,       \* writes given up by the client and not carried out yet
    givenUp,    \* keys of which a write was ever given up
    keys,       \* keys[k]: the target's copy of k, printed in the report
    failOnce,   \* failOnce entries not used up yet
    upserts, deletes, failures   \* the target's counters

redisVars  == <<connected, redis, late, givenUp>>
targetVars == <<keys, failOnce, upserts, deletes, failures>>
vars == <<storeVars, total, workVars, redisVars, targetVars>>

\* The metric keys: metrics:customer:{id}:orders and metrics:global:orders.
Key == Customer \cup {"global"}

OrdersOf(k) == IF k = "global" THEN Order
                               ELSE {o \in Order : CustomerOf[o] = k}

\* The aggregate query over crm_orders behind loadMetricsByCustomer and
\* loadGlobalMetrics; the average follows from the two numbers.
Metrics(k) ==
    [OrderCount |-> Cardinality(OrdersOf(k)),
     TotalCents |-> SumFunction([o \in OrdersOf(k) |-> total[o]])]

Init ==
    /\ StoreInit
    /\ total = FirstTotal
    /\ WorkInit
    /\ connected \in Connections
    /\ redis \in [Key -> {Leftover, NoValue}]
    /\ late = {} /\ givenUp = {}
    /\ keys = [k \in Key |-> NoValue]
    /\ failOnce = RetryOrder
    /\ upserts = 0 /\ deletes = 0 /\ failures = 0

----------------------------------------------------------------------------
(* The writers.                                                            *)

\* A writer's transaction commits: the row and the delta together.
WriterCommits(d) ==
    /\ d \notin deltas
    /\ CommitDelta(d)
    /\ total' = IF change[d].Kind = "total"
                THEN [total EXCEPT ![change[d].EntityID] = change[d].Value]
                ELSE total
    /\ UNCHANGED <<workVars, redisVars, targetVars>>

----------------------------------------------------------------------------
(* One slot at work on one job.                                            *)

\* The projector reads the entity.  What it finds never changes: a ghost is
\* not there, an order is, and so is its customer_id.  Of a ghost the worker
\* makes a delete, of an order an upsert; what is no order Apply ignores.
Project(s) ==
    /\ slot[s].at = "project"
    /\ Goto(s, CASE change[slot[s].job].Kind = "ghost" -> "global"
                 [] change[slot[s].job].Kind = "other" -> "finalize"
                 [] OTHER -> "guards")
    /\ UNCHANGED <<storeVars, total, batch, broken, redisVars, targetVars>>

\* applySimulationGuards, under the mutex: an order in deadLetters is always
\* refused, one in failOnce the first time.
Guards(s) ==
    /\ slot[s].at = "guards"
    /\ LET o == change[slot[s].job].EntityID IN
       IF o \in DeadOrder \cup failOnce
       THEN /\ failures' = failures + 1
            /\ failOnce' = IF o \in DeadOrder THEN failOnce ELSE failOnce \ {o}
            /\ Goto(s, "fail")
       ELSE /\ Goto(s, "customer")
            /\ UNCHANGED <<failures, failOnce>>
    /\ UNCHANGED <<storeVars, total, batch, broken, redisVars, keys, upserts,
                   deletes>>

\* loadMetricsByCustomer, the first of two queries outside a transaction.
LoadCustomer(s) ==
    /\ slot[s].at = "customer"
    /\ LET c == CustomerOf[change[slot[s].job].EntityID] IN
       slot' = [slot EXCEPT ![s] =
                  [at |-> "global", job |-> slot[s].job,
                   entries |-> [k \in {c} |-> Metrics(k)]]]
    /\ UNCHANGED <<storeVars, total, batch, broken, redisVars, targetVars>>

\* loadGlobalMetrics, the second query, and the only one of a delete.
LoadGlobal(s) ==
    /\ slot[s].at = "global"
    /\ LET loaded == IF change[slot[s].job].Kind = "ghost" THEN {}
                     ELSE DOMAIN slot[s].entries
       IN  slot' = [slot EXCEPT ![s] =
                      [at |-> "write", job |-> slot[s].job,
                       entries |-> [k \in loaded \cup {"global"} |->
                                      IF k = "global" THEN Metrics(k)
                                                      ELSE slot[s].entries[k]],
                       written |-> {}]]
    /\ UNCHANGED <<storeVars, total, batch, broken, redisVars, targetVars>>

\* writeMetrics: the keys go to Redis one by one, in the order of the map.
WriteKey(s, k) ==
    /\ slot[s].at = "write"
    /\ connected
    /\ k \in DOMAIN slot[s].entries \ slot[s].written
    /\ redis' = [redis EXCEPT ![k] = slot[s].entries[k]]
    /\ slot' = [slot EXCEPT ![s].written = @ \cup {k}]
    /\ UNCHANGED <<storeVars, total, batch, broken, connected, late, givenUp,
                   targetVars>>

ClientGivesUp_Ignored(s, k) ==
    /\ slot[s].at = "write"
    /\ connected
    /\ k \in DOMAIN slot[s].entries \ slot[s].written
    /\ Cardinality(givenUp) < MaxGivenUp
    /\ late' = late \cup {[key |-> k, value |-> slot[s].entries[k]]}
    /\ givenUp' = givenUp \cup {k}
    /\ Goto(s, "count")
    /\ UNCHANGED <<storeVars, total, batch, broken, connected, redis, targetVars>>

\* The client gives the write of a key up while it is under way: writeMetrics
\* returns the error, with the keys before it written.
ClientGivesUp(s, k) ==
    /\ slot[s].at = "write"
    /\ connected
    /\ k \in DOMAIN slot[s].entries \ slot[s].written
    /\ Cardinality(givenUp) < MaxGivenUp
    /\ late' = late \cup {[key |-> k, value |-> slot[s].entries[k]]}
    /\ givenUp' = givenUp \cup {k}
    /\ Goto(s, "fail")
    /\ UNCHANGED <<storeVars, total, batch, broken, connected, redis, targetVars>>

\* Redis carries out a write that was given up.
LateWrite(r) ==
    /\ redis' = [redis EXCEPT ![r.key] = r.value]
    /\ late' = late \ {r}
    /\ UNCHANGED <<storeVars, total, workVars, connected, givenUp, targetVars>>

WriteCompleted_AnyKey(s) == connected => slot[s].written # {}

WriteCompleted(s) == connected => slot[s].written = DOMAIN slot[s].entries

RememberKeys_FirstKept(s) ==
    /\ slot[s].at = "write"
    /\ WriteCompleted(s)
    /\ keys' = [k \in Key |-> IF k \in DOMAIN slot[s].entries /\ keys[k] = NoValue
                              THEN slot[s].entries[k] ELSE keys[k]]
    /\ Goto(s, "count")
    /\ UNCHANGED <<storeVars, total, batch, broken, redisVars, failOnce, upserts,
                   deletes, failures>>

\* writeMetrics again: all keys are written, if there is a Redis, and the
\* target's copies are replaced under the mutex.
RememberKeys(s) ==
    /\ slot[s].at = "write"
    /\ WriteCompleted(s)
    /\ keys' = [k \in Key |-> IF k \in DOMAIN slot[s].entries
                              THEN slot[s].entries[k] ELSE keys[k]]
    /\ Goto(s, "count")
    /\ UNCHANGED <<storeVars, total, batch, broken, redisVars, failOnce, upserts,
                   deletes, failures>>

CountOp_AllUpserts(s) ==
    /\ slot[s].at = "count"
    /\ upserts' = upserts + 1
    /\ UNCHANGED deletes
    /\ Goto(s, "finalize")
    /\ UNCHANGED <<storeVars, total, batch, broken, redisVars, keys, failOnce,
                   failures>>

\* The end of Apply takes the mutex again to count the operation.
CountOp(s) ==
    /\ slot[s].at = "count"
    /\ IF change[slot[s].job].Kind = "ghost"
       THEN deletes' = deletes + 1 /\ UNCHANGED upserts
       ELSE upserts' = upserts + 1 /\ UNCHANGED deletes
    /\ Goto(s, "finalize")
    /\ UNCHANGED <<storeVars, total, batch, broken, redisVars, keys, failOnce,
                   failures>>

\* Projection, a query or a write fails (a write takes at most two seconds):
\* Apply returns the error.  Keys written before it stay written.
CallFails(s) ==
    /\ slot[s].at \in {"project", "customer", "global", "write"}
    /\ Goto(s, "fail")
    /\ UNCHANGED <<storeVars, total, batch, broken, redisVars, targetVars>>

\* Everything is committed and done, or RunOnce returned an error.
Stopped ==
    /\ BatchDone
    /\ deltas = Delta
    /\ UNCHANGED vars

Next ==
    \/ \E d \in Delta : WriterCommits(d)
    \/ WorkerStep /\ UNCHANGED <<total, redisVars, targetVars>>
    \/ \E s \in Slot :
          \/ Project(s) \/ Guards(s) \/ LoadCustomer(s) \/ LoadGlobal(s)
          \/ \E k \in Key : WriteKey(s, k) \/ ClientGivesUp(s, k)
          \/ RememberKeys(s) \/ CountOp(s) \/ CallFails(s)
    \/ \E r \in late : LateWrite(r)
    \/ Stopped

Spec == Init /\ [][Next]_vars

----------------------------------------------------------------------------
(* Properties.                                                             *)

TypeOK ==
    /\ StoreTypeOK
    /\ total \in [Order -> Nat]
    /\ WorkTypeOK({"guards", "customer", "global", "write", "count"})
    /\ \A s \in Slot : slot[s].at = "write" =>
          /\ DOMAIN slot[s].entries \subseteq Key
          /\ slot[s].written \subseteq DOMAIN slot[s].entries
    /\ DOMAIN redis = Key /\ DOMAIN keys = Key
    /\ connected \in BOOLEAN /\ givenUp \subseteq Key
    /\ \A r \in late : r.key \in givenUp
    /\ failOnce \subseteq RetryOrder
    /\ upserts \in Nat /\ deletes \in Nat /\ failures \in Nat

\* The jobs that refresh key k, and those whose change alters its value.
Refreshing(k) ==
    {d \in Delta : \/ change[d].EntityID \in OrdersOf(k)
                   \/ change[d].Kind = "ghost" /\ k = "global"}
Altering(k) == {d \in Refreshing(k) : change[d].Kind = "total"}

NeverRefreshed(k) == \A d \in Refreshing(k) : jobState[d] # "synced"

\* Redis lags behind Postgres and never lies for good: a metric key differs
\* from what Postgres would give now only if a committed change of one of its
\* orders has a job that is still to come or was dead-lettered, or if no job
\* has refreshed the key in this run, or if a write of it was given up and may
\* arrive after newer ones.  It holds for any Concurrency although
\* Apply reads first and writes later, side by side with other slots.
StaleIsOwed ==
    connected => \A k \in Key : redis[k] # Metrics(k) =>
        Owed(Altering(k)) \/ NeverRefreshed(k) \/ k \in givenUp

\* The report too lags and never lies for good, with Redis or without it: its
\* copy of a key differs from what Postgres would give only if a change of
\* its orders is still to come or was dead-lettered.  With StaleIsOwed: a key
\* that is not owed is printed as it is in Redis.
ReportStaleIsOwed ==
    \A k \in Key : keys[k] # Metrics(k) => Owed(Altering(k)) \/ NeverRefreshed(k)

\* The same as a refinement, which says more: a key that is not owed is not
\* written at all, not even for a moment, and a debt is settled by the right
\* value.  Without an address the report is all there is.
Consistency == INSTANCE ReadModel WITH
    source <- [k \in Key |-> Metrics(k)],
    copy <- IF connected THEN redis ELSE keys,
    owed <- {k \in Key : Owed(Altering(k)) \/ NeverRefreshed(k)
                           \/ k \in givenUp}

ImplementsReadModel == Consistency!Spec

\* The counters of the report count synced jobs: retries do not count twice,
\* unless recording an outcome failed after the operation was counted.
Counted(kinds) ==
    {d \in Succeeded : change[d].Kind \in kinds}

OpsCountSyncedJobs ==
    ~broken => /\ upserts = Cardinality(Counted({"total", "status"}))
               /\ deletes = Cardinality(Counted({"ghost"}))
=============================================================================
