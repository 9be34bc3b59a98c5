------------------------- MODULE RedisTarget_proofs -------------------------
(***************************************************************************)
(* Theorems about the Redis read side, for every set of orders and         *)
(* customers, every plan of changes, any Concurrency, MaxAttempts and      *)
(* batch size, with Redis and without it.                                  *)
(***************************************************************************)
EXTENDS RedisTarget, SyncWorker_proofs, FiniteSetTheorems

----------------------------------------------------------------------------
(* What the changes are, and what they do to the metrics.                  *)

LEMMA ChangeFacts ==
    \A d \in Delta :
       /\ change[d].Kind \in {"total", "status", "ghost", "other"}
       /\ change[d].Kind \in {"total", "status"} => change[d].EntityID \in Order
       /\ change[d].Kind \in {"ghost", "other"} => change[d].EntityID \notin Order
       /\ change[d].Kind = "total" => change[d].Value \in Nat
<1> SUFFICES ASSUME NEW d \in Delta
             PROVE  /\ change[d].Kind \in {"total", "status", "ghost", "other"}
                    /\ change[d].Kind \in {"total", "status"} =>
                          change[d].EntityID \in Order
                    /\ change[d].Kind \in {"ghost", "other"} =>
                          change[d].EntityID \notin Order
                    /\ change[d].Kind = "total" => change[d].Value \in Nat
    OBVIOUS
<1>1. change[d] \in Change
    BY RedisAssumption
<1>2. CASE change[d] \in [Kind : {"total"}, EntityID : Order, Value : Nat]
    BY <1>2
<1>3. CASE change[d] \in [Kind : {"status"}, EntityID : Order]
    BY <1>3
<1>4. CASE change[d] \in [Kind : {"ghost", "other"}, EntityID : {NoValue}]
    BY <1>4, RedisAssumption
<1>5. QED
    BY <1>1, <1>2, <1>3, <1>4 DEF Change

\* The keys that Apply refreshes for the order, or the ghost, of job d.
KeysOf(d) ==
    IF change[d].Kind = "ghost" THEN {"global"}
    ELSE {CustomerOf[change[d].EntityID], "global"}

LEMMA KeysOfRefreshing ==
    \A d \in Delta : change[d].Kind # "other" =>
       /\ KeysOf(d) \subseteq Key
       /\ \A k \in Key : k \in KeysOf(d) <=> d \in Refreshing(k)
<1> SUFFICES ASSUME NEW d \in Delta, change[d].Kind # "other"
             PROVE  /\ KeysOf(d) \subseteq Key
                    /\ \A k \in Key : k \in KeysOf(d) <=> d \in Refreshing(k)
    OBVIOUS
<1>1. CASE change[d].Kind = "ghost"
    BY <1>1, ChangeFacts DEF KeysOf, Refreshing, OrdersOf, Key
<1>2. CASE change[d].Kind # "ghost"
    <2>1. change[d].EntityID \in Order /\ CustomerOf[change[d].EntityID] \in Customer
        BY <1>2, ChangeFacts, RedisAssumption
    <2>2. QED
        BY <1>2, <2>1, RedisAssumption DEF KeysOf, Refreshing, OrdersOf, Key
<1>3. QED
    BY <1>1, <1>2

\* A change of another entity refreshes no key.
LEMMA OtherRefreshesNothing ==
    \A d \in Delta, k \in Key : change[d].Kind = "other" => d \notin Refreshing(k)
    BY ChangeFacts DEF Refreshing, OrdersOf

\* The metrics of a key are a function of the totals of its orders.
LEMMA MetricsUnchanged ==
    ASSUME NEW k, \A o \in OrdersOf(k) : total'[o] = total[o]
    PROVE  Metrics(k)' = Metrics(k)
<1>1. [o \in OrdersOf(k) |-> total'[o]] = [o \in OrdersOf(k) |-> total[o]]
    OBVIOUS
<1>2. QED
    BY <1>1 DEF Metrics, OrdersOf

\* A commit alters the metrics of the keys its delta announces, and no others.
LEMMA CommitMetrics ==
    ASSUME NEW d \in Delta, WriterCommits(d), total \in [Order -> Nat],
           NEW k \in Key, d \notin Altering(k)
    PROVE  Metrics(k)' = Metrics(k)
<1>1. CASE change[d].Kind = "total"
    <2>1. change[d].EntityID \in Order \ OrdersOf(k)
        BY <1>1, ChangeFacts DEF Altering, Refreshing
    <2>2. \A o \in OrdersOf(k) : total'[o] = total[o]
        BY <1>1, <2>1 DEF WriterCommits, OrdersOf
    <2>3. QED
        BY <2>2, MetricsUnchanged
<1>2. CASE change[d].Kind # "total"
    BY <1>2, MetricsUnchanged DEF WriterCommits
<1>3. QED
    BY <1>1, <1>2

----------------------------------------------------------------------------
(* The invariant, in parts.                                                *)

DataTypes ==
    /\ total \in [Order -> Nat]
    /\ connected \in BOOLEAN
    /\ DOMAIN redis = Key /\ DOMAIN keys = Key
    /\ givenUp \subseteq Key
    /\ \A r \in late : r.key \in givenUp
    /\ failOnce \subseteq RetryOrder
    /\ upserts \in Nat /\ deletes \in Nat /\ failures \in Nat
    /\ IsFiniteSet(deltas)

\* Which jobs a slot has where, and what it has read by then.
SlotShape ==
    \A s \in Slot :
       /\ slot[s].at \in {"idle", "project", "guards", "customer", "global",
                          "write", "count", "finalize", "fail"}
       /\ slot[s].at \in {"guards", "customer"} =>
             change[slot[s].job].Kind \in {"total", "status"}
       /\ slot[s].at \in {"global", "write", "count"} =>
             change[slot[s].job].Kind # "other"
       /\ slot[s].at = "global" /\ change[slot[s].job].Kind # "ghost" =>
             DOMAIN slot[s].entries = {CustomerOf[change[slot[s].job].EntityID]}
       /\ slot[s].at = "write" =>
             /\ slot[s] = [at |-> "write", job |-> slot[s].job,
                           entries |-> slot[s].entries,
                           written |-> slot[s].written]
             /\ DOMAIN slot[s].entries = KeysOf(slot[s].job)
             /\ slot[s].written \subseteq KeysOf(slot[s].job)

\* The slot has read the value of key k and may still write it.
Holds(s, k) ==
    \/ /\ slot[s].at = "global" /\ change[slot[s].job].Kind # "ghost"
       /\ k = CustomerOf[change[slot[s].job].EntityID]
    \/ slot[s].at = "write" /\ k \in KeysOf(slot[s].job)

\* Every committed change of the key was synced or is in hand.
Calm(k) == \A d \in Altering(k) \cap deltas : Settled(d)

\* Every committed change of the key was applied, and some job has refreshed
\* the key.
Done(k) ==
    /\ \A d \in Altering(k) \cap deltas : Applied(d)
    /\ \E d \in Refreshing(k) \cap deltas : Applied(d)

\* Why slots may read first and write later, side by side: while a key is
\* calm no total of its orders has changed since the jobs in hand were
\* claimed, so every value that a slot holds is the present one.
FreshRead ==
    \A s \in Slot, k \in Key :
       Holds(s, k) /\ Calm(k) => slot[s].entries[k] = Metrics(k)

\* A key that a slot has written, and others may have written since.
FreshWritten ==
    connected => \A s \in Slot : slot[s].at = "write" =>
       \A k \in slot[s].written \ givenUp : Calm(k) => redis[k] = Metrics(k)

\* StaleIsOwed and ReportStaleIsOwed, counted from the writes on.
FreshRedis ==
    connected => \A k \in Key \ givenUp : Done(k) => redis[k] = Metrics(k)

FreshKeys == \A k \in Key : Done(k) => keys[k] = Metrics(k)

IInv ==
    /\ HandInv /\ DataTypes /\ SlotShape
    /\ FreshRead /\ FreshWritten /\ FreshRedis /\ FreshKeys
    /\ OpsCountSyncedJobs

LEMMA IInit == Init => IInv
<1> SUFFICES ASSUME Init PROVE IInv
    OBVIOUS
<1>1. HandInv
    BY HandInit DEF Init
<1>2. DataTypes
    <2>1. IsFiniteSet(deltas)
        BY FS_EmptySet DEF Init, StoreInit
    <2>2. QED
        BY <2>1, RedisAssumption DEF Init, DataTypes
<1>3. \A s \in Slot : slot[s].at = "idle"
    BY DEF Init, WorkInit, Idle
<1>4. SlotShape /\ FreshRead /\ FreshWritten
    BY <1>3 DEF SlotShape, FreshRead, FreshWritten, Holds
<1>5. deltas = {} /\ \A d \in Delta : jobState[d] = "absent"
    BY DEF Init, StoreInit
<1>6. FreshRedis /\ FreshKeys
    BY <1>5 DEF FreshRedis, FreshKeys, Done
<1>7. OpsCountSyncedJobs
    <2>1. Succeeded = {}
        BY <1>3, <1>5 DEF Succeeded
    <2>2. \A kinds : Counted(kinds) = {}
        BY <2>1 DEF Counted
    <2>3. QED
        BY <2>2, FS_EmptySet DEF Init, OpsCountSyncedJobs
<1>8. QED
    BY <1>1, <1>2, <1>4, <1>6, <1>7 DEF IInv

----------------------------------------------------------------------------
(* The kinds of steps.                                                     *)

SlotAction(s) ==
    \/ Project(s) \/ Guards(s) \/ LoadCustomer(s) \/ LoadGlobal(s)
    \/ \E k \in Key : WriteKey(s, k) \/ ClientGivesUp(s, k)
    \/ RememberKeys(s) \/ CountOp(s) \/ CallFails(s)

WorkerAction == WorkerStep /\ UNCHANGED <<total, redisVars, targetVars>>

\* The cases every proof about Next goes through.
LEMMA NextCases ==
    ASSUME [Next]_vars
    PROVE  \/ \E d \in Delta : WriterCommits(d)
           \/ WorkerAction
           \/ \E s \in Slot : SlotAction(s)
           \/ \E r \in late : LateWrite(r)
           \/ UNCHANGED vars
    BY DEF Next, WorkerAction, SlotAction, Stopped

\* Where the slot goes, and with what.
LEMMA SlotActionGoes ==
    ASSUME HandInv, SlotShape, NEW s \in Slot, SlotAction(s)
    PROVE  \/ /\ Project(s) /\ slot[s].at = "project"
              /\ slot'[s].at \in {"global", "finalize", "guards"}
              /\ slot'[s].at = "global" <=> change[slot[s].job].Kind = "ghost"
              /\ slot'[s].at = "finalize" <=> change[slot[s].job].Kind = "other"
           \/ /\ Guards(s)
              /\ slot[s].at = "guards" /\ slot'[s].at \in {"customer", "fail"}
           \/ /\ LoadCustomer(s)
              /\ slot[s].at = "customer" /\ slot'[s].at = "global"
           \/ /\ LoadGlobal(s)
              /\ slot[s].at = "global" /\ slot'[s].at = "write"
           \/ /\ \E k \in Key : WriteKey(s, k)
              /\ slot[s].at = "write" /\ slot'[s].at = "write"
              /\ slot'[s] = [at |-> "write", job |-> slot[s].job,
                             entries |-> slot[s].entries,
                             written |-> slot'[s].written]
           \/ /\ CallFails(s) \/ \E k \in Key : ClientGivesUp(s, k)
              /\ slot[s].at \in {"project", "customer", "global", "write"}
              /\ slot'[s].at = "fail"
           \/ /\ RememberKeys(s)
              /\ slot[s].at = "write" /\ slot'[s].at = "count"
           \/ /\ CountOp(s)
              /\ slot[s].at = "count" /\ slot'[s].at = "finalize"
<1>1. s \in DOMAIN slot
    BY DEF HandInv
<1>2. CASE Project(s)
    <2>1. slot[s].job \in Delta
        BY <1>2 DEF Project, HandInv, Busy
    <2>2. QED
        BY <1>1, <1>2, <2>1, ChangeFacts DEF Project, Goto
<1>3. CASE Guards(s)
    BY <1>1, <1>3 DEF Guards, Goto
<1>4. CASE LoadCustomer(s) \/ LoadGlobal(s)
    BY <1>1, <1>4 DEF LoadCustomer, LoadGlobal
<1>5. ASSUME NEW k \in Key, WriteKey(s, k)
      PROVE  /\ slot[s].at = "write" /\ slot'[s].at = "write"
             /\ slot'[s] = [at |-> "write", job |-> slot[s].job,
                            entries |-> slot[s].entries,
                            written |-> slot'[s].written]
    <2>1. slot[s] = [at |-> "write", job |-> slot[s].job,
                     entries |-> slot[s].entries, written |-> slot[s].written]
        BY <1>5 DEF WriteKey, SlotShape
    <2>2. slot'[s] = [slot[s] EXCEPT !.written = @ \cup {k}]
        BY <1>1, <1>5 DEF WriteKey
    <2>3. slot'[s] = [at |-> "write", job |-> slot[s].job,
                      entries |-> slot[s].entries,
                      written |-> slot[s].written \cup {k}]
        BY <2>1, <2>2
    <2>4. slot[s].at = "write"
        BY <1>5 DEF WriteKey
    <2>5. QED
        BY <2>3, <2>4
<1>6. CASE CallFails(s) \/ \E k \in Key : ClientGivesUp(s, k)
    BY <1>1, <1>6 DEF CallFails, ClientGivesUp, Goto
<1>7. CASE RememberKeys(s) \/ CountOp(s)
    BY <1>1, <1>7 DEF RememberKeys, CountOp, Goto
<1>8. QED
    BY <1>2, <1>3, <1>4, <1>5, <1>6, <1>7 DEF SlotAction

\* A slot that acts keeps its job.
LEMMA SlotActionMoves ==
    ASSUME HandInv, SlotShape, NEW s \in Slot, SlotAction(s)
    PROVE  SlotMoves(s)
<1>1. /\ DOMAIN slot' = DOMAIN slot
      /\ \A t \in Slot \ {s} : slot'[t] = slot[t]
      /\ UNCHANGED <<storeVars, batch, broken>>
    BY DEF SlotAction, Project, Guards, LoadCustomer, LoadGlobal, WriteKey,
        ClientGivesUp, RememberKeys, CountOp, CallFails, Goto, HandInv
<1>2. Busy(s) /\ Busy(s)'
    BY SlotActionGoes DEF Busy
<1>3. slot'[s].job = slot[s].job
    <2>1. CASE \E k \in Key : WriteKey(s, k)
        <3>1. slot[s].at = "write" /\ slot'[s].at = "write"
            BY <2>1, SlotActionGoes DEF WriteKey
        <3>2. slot'[s] = [at |-> "write", job |-> slot[s].job,
                          entries |-> slot[s].entries,
                          written |-> slot'[s].written]
            BY <2>1, <3>1, SlotActionGoes DEF Project, Guards, LoadCustomer,
                LoadGlobal, RememberKeys, CountOp
        <3>3. QED
            BY <3>2
    <2>2. CASE ~\E k \in Key : WriteKey(s, k)
        BY <2>2 DEF SlotAction, Project, Guards, LoadCustomer, LoadGlobal,
            ClientGivesUp, RememberKeys, CountOp, CallFails, Goto, HandInv
    <2>3. QED
        BY <2>1, <2>2
<1>4. QED
    BY <1>1, <1>2, <1>3 DEF SlotMoves

----------------------------------------------------------------------------
(* The jobs in hand, and types.                                            *)

LEMMA HandStep == HandInv /\ SlotShape /\ [Next]_vars => HandInv'
<1> SUFFICES ASSUME HandInv, SlotShape, [Next]_vars PROVE HandInv'
    OBVIOUS
<1>1. ASSUME NEW d \in Delta, WriterCommits(d) PROVE HandInv'
    BY <1>1, CommitHand DEF WriterCommits
<1>2. CASE WorkerAction
    BY <1>2, WorkerStepHand DEF WorkerAction
<1>3. ASSUME NEW s \in Slot, SlotAction(s) PROVE HandInv'
    BY <1>3, SlotActionMoves, SlotMovesHand
<1>4. CASE UNCHANGED vars \/ \E r \in late : LateWrite(r)
    BY <1>4, NothingHand DEF LateWrite, vars
<1>5. QED
    BY <1>1, <1>2, <1>3, <1>4, NextCases

LEMMA ShapeStep == HandInv /\ SlotShape /\ [Next]_vars => SlotShape'
<1> SUFFICES ASSUME HandInv, SlotShape, [Next]_vars PROVE SlotShape'
    OBVIOUS
<1>1. CASE WorkerAction
    <2>1. \A s \in Slot : \/ slot'[s] = slot[s]
                          \/ slot'[s] = Idle
                          \/ slot'[s].at = "project"
        BY <1>1, WorkerStepHand DEF WorkerAction, WorkerEffect
    <2>2. QED
        BY <2>1 DEF SlotShape, Idle
<1>2. ASSUME NEW s \in Slot, SlotAction(s) PROVE SlotShape'
    <2>1. PICK j \in Delta : j = slot[s].job /\ slot'[s].job = j
        BY <1>2, SlotActionMoves, SlotJob DEF SlotMoves
    <2>2. /\ \A t \in Slot \ {s} : slot'[t] = slot[t]
          /\ s \in DOMAIN slot
        BY <1>2, SlotActionMoves DEF SlotMoves, HandInv
    <2> DEFINE Shape ==
           /\ slot'[s].at \in {"idle", "project", "guards", "customer", "global",
                               "write", "count", "finalize", "fail"}
           /\ slot'[s].at \in {"guards", "customer"} =>
                 change[j].Kind \in {"total", "status"}
           /\ slot'[s].at \in {"global", "write", "count"} =>
                 change[j].Kind # "other"
           /\ slot'[s].at = "global" /\ change[j].Kind # "ghost" =>
                 DOMAIN slot'[s].entries = {CustomerOf[change[j].EntityID]}
           /\ slot'[s].at = "write" =>
                 /\ slot'[s] = [at |-> "write", job |-> j,
                                entries |-> slot'[s].entries,
                                written |-> slot'[s].written]
                 /\ DOMAIN slot'[s].entries = KeysOf(j)
                 /\ slot'[s].written \subseteq KeysOf(j)
    <2>3. CASE Project(s)
        <3>1. /\ slot'[s].at \in {"global", "finalize", "guards"}
              /\ slot'[s].at = "global" <=> change[j].Kind = "ghost"
              /\ slot'[s].at = "finalize" <=> change[j].Kind = "other"
            BY <2>1, <2>2, <2>3, ChangeFacts DEF Project, Goto
        <3>2. slot'[s].at = "guards" => change[j].Kind \in {"total", "status"}
            BY <3>1, ChangeFacts
        <3>3. Shape
            BY <3>1, <3>2
        <3>4. QED
            BY <2>1, <2>2, <3>3 DEF SlotShape
    <2>4. CASE Guards(s)
        <3>1. slot[s].at = "guards" /\ slot'[s].at \in {"customer", "fail"}
            BY <2>2, <2>4 DEF Guards, Goto
        <3>2. Shape
            BY <2>1, <3>1 DEF SlotShape
        <3>3. QED
            BY <2>1, <2>2, <3>2 DEF SlotShape
    <2>5. CASE LoadCustomer(s)
        <3>1. /\ slot[s].at = "customer"
              /\ slot'[s] = [at |-> "global", job |-> j,
                             entries |-> [k \in {CustomerOf[change[j].EntityID]} |->
                                             Metrics(k)]]
            BY <2>1, <2>2, <2>5 DEF LoadCustomer
        <3>2. /\ slot'[s].at = "global"
              /\ DOMAIN slot'[s].entries = {CustomerOf[change[j].EntityID]}
            BY <3>1
        <3>3. change[j].Kind \in {"total", "status"}
            BY <2>1, <3>1 DEF SlotShape
        <3>4. Shape
            BY <3>2, <3>3
        <3>5. QED
            BY <2>1, <2>2, <3>4 DEF SlotShape
    <2>6. CASE LoadGlobal(s)
        <3> DEFINE loaded == IF change[j].Kind = "ghost" THEN {}
                             ELSE DOMAIN slot[s].entries
        <3>1. loaded \cup {"global"} = KeysOf(j) /\ change[j].Kind # "other"
            <4>1. /\ change[j].Kind # "other"
                  /\ change[j].Kind # "ghost" =>
                        DOMAIN slot[s].entries = {CustomerOf[change[j].EntityID]}
                BY <2>1, <2>6 DEF LoadGlobal, SlotShape
            <4>2. QED
                BY <4>1 DEF KeysOf
        <3>2. slot'[s] = [at |-> "write", job |-> j,
                          entries |-> [k \in loaded \cup {"global"} |->
                                         IF k = "global" THEN Metrics(k)
                                                         ELSE slot[s].entries[k]],
                          written |-> {}]
            BY <2>1, <2>2, <2>6 DEF LoadGlobal
        <3>3. /\ slot'[s].at = "write" /\ slot'[s].written = {}
              /\ DOMAIN slot'[s].entries = KeysOf(j)
            BY <3>1, <3>2
        <3>4. slot'[s] = [at |-> "write", job |-> j,
                          entries |-> slot'[s].entries,
                          written |-> slot'[s].written]
            BY <3>2
        <3>5. Shape
            BY <3>1, <3>3, <3>4
        <3>6. QED
            BY <2>1, <2>2, <3>5 DEF SlotShape
    <2>7. ASSUME NEW k \in Key, WriteKey(s, k) PROVE SlotShape'
        <3>1. /\ slot[s].at = "write"
              /\ slot'[s] = [slot[s] EXCEPT !.written = @ \cup {k}]
              /\ k \in DOMAIN slot[s].entries
            BY <2>2, <2>7 DEF WriteKey
        <3>2. /\ slot[s] = [at |-> "write", job |-> j,
                            entries |-> slot[s].entries,
                            written |-> slot[s].written]
              /\ DOMAIN slot[s].entries = KeysOf(j)
              /\ slot[s].written \subseteq KeysOf(j)
              /\ change[j].Kind # "other"
            BY <2>1, <3>1 DEF SlotShape
        <3>3. slot'[s] = [at |-> "write", job |-> j,
                          entries |-> slot[s].entries,
                          written |-> slot[s].written \cup {k}]
            BY <3>1, <3>2
        <3>4. /\ slot'[s].at = "write" /\ slot'[s].entries = slot[s].entries
              /\ slot'[s].written = slot[s].written \cup {k}
            BY <3>3
        <3>5. Shape
            BY <3>1, <3>2, <3>3, <3>4
        <3>6. QED
            BY <2>1, <2>2, <3>5 DEF SlotShape
    <2>8. CASE \/ CallFails(s) \/ \E k \in Key : ClientGivesUp(s, k)
               \/ RememberKeys(s) \/ CountOp(s)
        <3>1. \/ slot'[s].at \in {"fail", "finalize"}
              \/ slot[s].at = "write" /\ slot'[s].at = "count"
            BY <2>2, <2>8 DEF CallFails, ClientGivesUp, RememberKeys, CountOp, Goto
        <3>2. Shape
            BY <2>1, <3>1 DEF SlotShape
        <3>3. QED
            BY <2>1, <2>2, <3>2 DEF SlotShape
    <2>9. QED
        BY <1>2, <2>3, <2>4, <2>5, <2>6, <2>7, <2>8 DEF SlotAction
<1>3. CASE \/ UNCHANGED vars \/ \E r \in late : LateWrite(r)
           \/ \E d \in Delta : WriterCommits(d)
    BY <1>3 DEF LateWrite, WriterCommits, vars, workVars, SlotShape
<1>4. QED
    BY <1>1, <1>2, <1>3, NextCases

LEMMA TypesStep == HandInv /\ SlotShape /\ DataTypes /\ [Next]_vars => DataTypes'
<1> SUFFICES ASSUME HandInv, SlotShape, DataTypes, [Next]_vars PROVE DataTypes'
    OBVIOUS
<1> USE DEF DataTypes, redisVars, targetVars
<1>1. ASSUME NEW d \in Delta, WriterCommits(d) PROVE DataTypes'
    <2>1. total' \in [Order -> Nat]
        BY <1>1, ChangeFacts DEF WriterCommits
    <2>2. IsFiniteSet(deltas')
        BY <1>1, FS_AddElement DEF WriterCommits, CommitDelta
    <2>3. QED
        BY <1>1, <2>1, <2>2 DEF WriterCommits
<1>2. CASE WorkerAction
    BY <1>2, WorkerStepHand DEF WorkerAction, WorkerEffect
<1>3. ASSUME NEW s \in Slot, SlotAction(s) PROVE DataTypes'
    <2>1. deltas' = deltas
        BY <1>3, SlotActionMoves DEF SlotMoves, storeVars
    <2>2. CASE Project(s) \/ LoadCustomer(s) \/ LoadGlobal(s) \/ CallFails(s)
        BY <2>1, <2>2 DEF Project, LoadCustomer, LoadGlobal, CallFails
    <2>3. CASE Guards(s)
        BY <2>1, <2>3 DEF Guards
    <2>4. ASSUME NEW k \in Key, WriteKey(s, k) PROVE DataTypes'
        BY <2>1, <2>4 DEF WriteKey
    <2>5. ASSUME NEW k \in Key, ClientGivesUp(s, k) PROVE DataTypes'
        BY <2>1, <2>5 DEF ClientGivesUp
    <2>6. CASE RememberKeys(s) \/ CountOp(s)
        BY <2>1, <2>6 DEF RememberKeys, CountOp
    <2>7. QED
        BY <1>3, <2>2, <2>3, <2>4, <2>5, <2>6 DEF SlotAction
<1>4. ASSUME NEW r \in late, LateWrite(r) PROVE DataTypes'
    BY <1>4 DEF LateWrite, storeVars
<1>5. CASE UNCHANGED vars
    BY <1>5 DEF vars, storeVars
<1>6. QED
    BY <1>1, <1>2, <1>3, <1>4, <1>5, NextCases

----------------------------------------------------------------------------
(* How the steps bear on calm keys.                                        *)

\* A key on which every job is done is calm.
LEMMA DoneIsCalm ==
    ASSUME NEW k \in Key
    PROVE  (Done(k) => Calm(k)) /\ (Done(k)' => Calm(k)')
    BY DEF Done, Calm, Applied, Settled, InHand, Busy, Altering, Refreshing

LEMMA NotMoreDone ==
    ASSUME NEW k \in Key, deltas' = deltas,
           \A d \in Refreshing(k) : Applied(d)' => Applied(d)
    PROVE  Done(k)' => Done(k)
<1>1. \A d \in Altering(k) : d \in Refreshing(k)
    BY DEF Altering
<1>2. Altering(k)' = Altering(k) /\ Refreshing(k)' = Refreshing(k)
    BY DEF Altering, Refreshing, OrdersOf
<1>3. QED
    BY <1>1, <1>2 DEF Done

LEMMA CommitCalm ==
    ASSUME HandInv, DataTypes, NEW d \in Delta, WriterCommits(d), NEW k \in Key
    PROVE  /\ Calm(k)' => Calm(k) /\ Metrics(k)' = Metrics(k)
           /\ Done(k)' => Done(k) /\ Metrics(k)' = Metrics(k)
<1>1. /\ jobState'[d] = "absent" /\ ~InHand(d)'
      /\ deltas' = deltas \cup {d} /\ jobState' = jobState /\ slot' = slot
      /\ \A e \in Delta : InHand(e)' <=> InHand(e)
    BY CommitHand DEF WriterCommits, CommitDelta, workVars
<1>2. ~Settled(d)' /\ ~Applied(d)'
    BY <1>1 DEF Settled, Applied, InHand, Busy
<1>3. \A e \in Delta : /\ Settled(e)' <=> Settled(e)
                       /\ Applied(e)' <=> Applied(e)
    BY <1>1 DEF Settled, Applied
<1>4. Calm(k)' => Calm(k) /\ d \notin Altering(k)
    BY <1>1, <1>2, <1>3 DEF Calm, Altering, Refreshing
<1>5. Done(k)' => Done(k) /\ d \notin Altering(k)
    BY <1>1, <1>2, <1>3 DEF Done, Altering, Refreshing
<1>6. d \notin Altering(k) => Metrics(k)' = Metrics(k)
    BY CommitMetrics DEF DataTypes
<1>7. QED
    BY <1>4, <1>5, <1>6

LEMMA WorkerCalm ==
    ASSUME HandInv, WorkerAction, NEW k \in Key
    PROVE  /\ Metrics(k)' = Metrics(k)
           /\ Done(k)' => Done(k)
           /\ \/ \A s \in Slot : ~Busy(s) /\ ~Busy(s)'
              \/ Calm(k)' => Calm(k)
<1>1. WorkerEffect /\ total' = total
    BY WorkerStepHand DEF WorkerAction
<1>2. Metrics(k)' = Metrics(k)
    BY <1>1, MetricsUnchanged
<1>3. Done(k)' => Done(k)
    BY <1>1, EffectApplied, NotMoreDone DEF WorkerEffect, Refreshing
<1>4. \/ \A s \in Slot : ~Busy(s) /\ ~Busy(s)'
      \/ Calm(k)' => Calm(k)
    BY <1>1 DEF Calm, WorkerEffect, Altering, Refreshing
<1>5. QED
    BY <1>2, <1>3, <1>4

\* Only RememberKeys completes the work on a key, on the keys of its job.
LEMMA SlotCalm ==
    ASSUME HandInv, SlotShape, NEW s \in Slot, SlotAction(s), NEW k \in Key
    PROVE  /\ Metrics(k)' = Metrics(k)
           /\ Calm(k)' <=> Calm(k)
           /\ Done(k)' => \/ Done(k)
                          \/ RememberKeys(s) /\ k \in KeysOf(slot[s].job)
<1>1. /\ SlotMoves(s) /\ deltas' = deltas /\ jobState' = jobState
      /\ \A e \in Delta : InHand(e)' <=> InHand(e)
    BY SlotActionMoves, SlotMovesHand DEF SlotMoves, storeVars
<1>2. Metrics(k)' = Metrics(k)
    <2>1. total' = total
        BY DEF SlotAction, Project, Guards, LoadCustomer, LoadGlobal, WriteKey,
            ClientGivesUp, RememberKeys, CountOp, CallFails
    <2>2. QED
        BY <2>1, MetricsUnchanged
<1>3. Calm(k)' <=> Calm(k)
    BY <1>1 DEF Calm, Settled, Altering, Refreshing
<1>4. PICK j \in Delta : j = slot[s].job /\ slot'[s].job = j
    BY <1>1, SlotJob DEF SlotMoves
<1>5. \A d \in Delta \ {j} : Applied(d)' => Applied(d)
    BY <1>1, <1>4 DEF Applied, SlotMoves
<1>6. CASE j \in Refreshing(k) /\ RememberKeys(s)
    BY <1>2, <1>3, <1>4, <1>6, KeysOfRefreshing, SlotActionGoes, OtherRefreshesNothing
<1>7. CASE j \in Refreshing(k) /\ ~RememberKeys(s)
    <2>1. slot'[s].at \in {"count", "finalize"} =>
             slot[s].at \in {"count", "finalize"}
        <3>1. change[j].Kind # "other"
            BY <1>7, OtherRefreshesNothing
        <3>2. QED
            BY <1>4, <1>7, <3>1, SlotActionGoes
    <2>2. \A t \in Slot \ {s} : slot'[t] = slot[t]
        BY <1>1 DEF SlotMoves
    <2>3. Applied(j)' => Applied(j)
        <3>1. ASSUME NEW t \in Slot, slot'[t].at \in {"count", "finalize"},
                     slot'[t].job = j
              PROVE  slot[t].at \in {"count", "finalize"} /\ slot[t].job = j
            BY <1>4, <2>1, <2>2, <3>1
        <3>2. QED
            BY <1>1, <3>1 DEF Applied
    <2>4. \A d \in Refreshing(k) : Applied(d)' => Applied(d)
        BY <1>5, <2>3 DEF Refreshing
    <2>5. Done(k)' => Done(k)
        BY <1>1, <2>4, NotMoreDone
    <2>6. QED
        BY <1>2, <1>3, <2>5
<1>8. CASE j \notin Refreshing(k)
    <2>1. \A d \in Refreshing(k) : Applied(d)' => Applied(d)
        BY <1>5, <1>8 DEF Refreshing
    <2>2. Done(k)' => Done(k)
        BY <1>1, <2>1, NotMoreDone
    <2>3. QED
        BY <1>2, <1>3, <2>2
<1>9. QED
    BY <1>6, <1>7, <1>8

LEMMA QuietCalm ==
    ASSUME HandInv, UNCHANGED <<storeVars, workVars, total>>, NEW k \in Key
    PROVE  /\ Metrics(k)' = Metrics(k)
           /\ Calm(k)' <=> Calm(k)
           /\ Done(k)' <=> Done(k)
<1>1. Metrics(k)' = Metrics(k)
    BY MetricsUnchanged
<1>2. \A d \in Delta : /\ Settled(d)' <=> Settled(d)
                       /\ Applied(d)' <=> Applied(d)
    BY NothingHand DEF Settled, Applied, storeVars, workVars
<1>3. QED
    BY <1>1, <1>2 DEF Calm, Done, storeVars, Altering, Refreshing

----------------------------------------------------------------------------
(* The values that slots hold.                                             *)

LEMMA FreshReadStep ==
    HandInv /\ SlotShape /\ DataTypes /\ FreshRead /\ [Next]_vars => FreshRead'
<1> SUFFICES ASSUME HandInv, SlotShape, DataTypes, FreshRead, [Next]_vars,
                    NEW t \in Slot, NEW k \in Key, Holds(t, k)', Calm(k)'
             PROVE  slot'[t].entries[k] = Metrics(k)'
    BY DEF FreshRead
<1>1. ASSUME slot'[t] = slot[t], Calm(k), Metrics(k)' = Metrics(k)
      PROVE  slot'[t].entries[k] = Metrics(k)'
    BY <1>1 DEF FreshRead, Holds, KeysOf
<1>2. ASSUME NEW d \in Delta, WriterCommits(d)
      PROVE  slot'[t].entries[k] = Metrics(k)'
    BY <1>1, <1>2, CommitCalm DEF WriterCommits, workVars
<1>3. CASE WorkerAction
    <2>1. Busy(t)' /\ slot'[t].at # "project"
        BY DEF Holds, Busy
    <2>2. slot'[t] = slot[t]
        BY <1>3, <2>1, WorkerStepHand DEF WorkerAction, WorkerEffect, Idle, Busy
    <2>3. QED
        BY <1>1, <1>3, <2>1, <2>2, WorkerCalm
<1>4. ASSUME NEW s \in Slot, SlotAction(s)
      PROVE  slot'[t].entries[k] = Metrics(k)'
    <2>1. Calm(k) /\ Metrics(k)' = Metrics(k)
        BY <1>4, SlotCalm
    <2>2. CASE t # s
        BY <1>1, <1>4, <2>1, <2>2, SlotActionMoves DEF SlotMoves
    <2>3. CASE t = s
        <3>1. PICK j \in Delta : j = slot[s].job /\ slot'[s].job = j
            BY <1>4, SlotActionMoves, SlotJob DEF SlotMoves
        <3>2. s \in DOMAIN slot
            BY DEF HandInv
        <3>3. slot'[s].at \in {"global", "write"}
            BY <2>3 DEF Holds
        <3>4. CASE Project(s)
            BY <2>3, <3>1, <3>2, <3>4, ChangeFacts DEF Project, Goto, Holds
        <3>5. CASE LoadCustomer(s)
            <4>1. slot'[s] = [at |-> "global", job |-> j,
                              entries |-> [c \in {CustomerOf[change[j].EntityID]} |->
                                              Metrics(c)]]
                BY <3>1, <3>2, <3>5 DEF LoadCustomer
            <4>2. k = CustomerOf[change[j].EntityID]
                BY <2>3, <3>1, <4>1 DEF Holds
            <4>3. slot'[s].entries[k] = Metrics(k)
                BY <4>1, <4>2
            <4>4. QED
                BY <2>1, <2>3, <4>3
        <3>6. CASE LoadGlobal(s)
            <4> DEFINE loaded == IF change[j].Kind = "ghost" THEN {}
                                 ELSE DOMAIN slot[s].entries
            <4>1. slot'[s] = [at |-> "write", job |-> j,
                              entries |-> [c \in loaded \cup {"global"} |->
                                             IF c = "global" THEN Metrics(c)
                                             ELSE slot[s].entries[c]],
                              written |-> {}]
                BY <3>1, <3>2, <3>6 DEF LoadGlobal
            <4>2. k \in KeysOf(j)
                <5>1. slot'[s].at = "write"
                    BY <4>1
                <5>2. QED
                    BY <2>3, <3>1, <5>1 DEF Holds, KeysOf
            <4>3. CASE k = "global"
                BY <2>1, <2>3, <4>1, <4>3
            <4>4. CASE k # "global"
                <5>1. /\ change[j].Kind # "ghost"
                      /\ k = CustomerOf[change[j].EntityID]
                    BY <4>2, <4>4 DEF KeysOf
                <5>2. slot[s].at = "global" /\ Holds(s, k)
                    BY <3>1, <3>6, <5>1 DEF LoadGlobal, Holds
                <5>3. k \in loaded
                    BY <3>1, <5>1, <5>2 DEF SlotShape
                <5>4. slot'[s].entries[k] = slot[s].entries[k]
                    BY <4>1, <4>4, <5>3
                <5>5. QED
                    BY <2>1, <2>3, <5>2, <5>4 DEF FreshRead
            <4>5. QED
                BY <4>3, <4>4
        <3>7. CASE /\ slot[s].at = "write" /\ slot'[s].at = "write"
                   /\ slot'[s] = [at |-> "write", job |-> slot[s].job,
                                  entries |-> slot[s].entries,
                                  written |-> slot'[s].written]
            <4>1. slot'[s].entries = slot[s].entries
                BY <3>7
            <4>2. Holds(s, k)
                BY <2>3, <3>1, <3>7 DEF Holds, KeysOf
            <4>3. QED
                BY <2>1, <2>3, <4>1, <4>2 DEF FreshRead
        <3>8. QED
            BY <1>4, <3>3, <3>4, <3>5, <3>6, <3>7, SlotActionGoes
    <2>4. QED
        BY <2>2, <2>3
<1>5. CASE UNCHANGED vars \/ \E r \in late : LateWrite(r)
    <2>1. UNCHANGED <<storeVars, workVars, total>>
        BY <1>5 DEF LateWrite, vars
    <2>2. QED
        BY <1>1, <2>1, QuietCalm DEF workVars
<1>6. QED
    BY <1>2, <1>3, <1>4, <1>5, NextCases

----------------------------------------------------------------------------
(* The values in Redis.                                                    *)

\* A slot holds the value it is about to write.
LEMMA WritesWhatItHolds ==
    ASSUME HandInv, SlotShape, FreshRead, NEW s \in Slot, NEW k \in Key,
           WriteKey(s, k), Calm(k)
    PROVE  redis' = [redis EXCEPT ![k] = Metrics(k)]
<1>1. Holds(s, k)
    BY DEF WriteKey, SlotShape, Holds
<1>2. slot[s].entries[k] = Metrics(k)
    BY <1>1 DEF FreshRead
<1>3. QED
    BY <1>2 DEF WriteKey

\* Redis and the list of keys given up, in a step of a slot.
LEMMA SlotWrites ==
    ASSUME NEW s \in Slot, SlotAction(s)
    PROVE  /\ connected' = connected /\ givenUp \subseteq givenUp'
           /\ redis' = redis \/ \E k \in Key : WriteKey(s, k)
    BY DEF SlotAction, Project, Guards, LoadCustomer, LoadGlobal, WriteKey,
        ClientGivesUp, RememberKeys, CountOp, CallFails, redisVars

LEMMA FreshWrittenStep ==
    /\ HandInv /\ SlotShape /\ DataTypes /\ FreshRead /\ FreshWritten
    /\ [Next]_vars
    => FreshWritten'
<1> SUFFICES ASSUME HandInv, SlotShape, DataTypes, FreshRead, FreshWritten,
                    [Next]_vars, connected',
                    NEW t \in Slot, slot'[t].at = "write",
                    NEW k \in slot'[t].written \ givenUp', Calm(k)'
             PROVE  redis'[k] = Metrics(k)'
    BY DEF FreshWritten
<1>1. k \in Key
    <2>1. slot'[t].written \subseteq KeysOf(slot'[t].job)
        BY ShapeStep DEF SlotShape, KeysOf
    <2>2. slot'[t].job \in Delta /\ change[slot'[t].job].Kind # "other"
        BY HandStep, ShapeStep DEF HandInv, SlotShape, Busy
    <2>3. QED
        BY <2>1, <2>2, KeysOfRefreshing
<1>2. ASSUME slot[t].at = "write", k \in slot[t].written \ givenUp, connected,
             Calm(k), Metrics(k)' = Metrics(k), redis'[k] = redis[k]
      PROVE  redis'[k] = Metrics(k)'
    BY <1>2 DEF FreshWritten
<1>3. ASSUME NEW d \in Delta, WriterCommits(d) PROVE redis'[k] = Metrics(k)'
    BY <1>1, <1>2, <1>3, CommitCalm DEF WriterCommits, workVars, redisVars
<1>4. CASE WorkerAction
    <2>1. slot'[t] = slot[t] /\ Busy(t)'
        BY <1>4, WorkerStepHand DEF WorkerAction, WorkerEffect, Idle, Busy
    <2>2. QED
        BY <1>1, <1>2, <1>4, <2>1, WorkerCalm DEF WorkerAction, redisVars
<1>5. ASSUME NEW s \in Slot, SlotAction(s) PROVE redis'[k] = Metrics(k)'
    <2>1. Calm(k) /\ Metrics(k)' = Metrics(k) /\ connected
        BY <1>1, <1>5, SlotCalm, SlotWrites
    <2>2. CASE WriteKey(s, k)
        BY <1>1, <2>1, <2>2, WritesWhatItHolds DEF DataTypes
    <2>3. CASE ~WriteKey(s, k)
        <3>1. redis'[k] = redis[k] /\ k \notin givenUp
            BY <1>1, <1>5, <2>3, SlotWrites DEF WriteKey, DataTypes
        <3>2. slot[t].at = "write" /\ k \in slot[t].written
            <4>1. CASE t # s
                BY <1>5, <4>1, SlotActionMoves DEF SlotMoves
            <4>2. CASE t = s /\ LoadGlobal(s)
                BY <4>2 DEF LoadGlobal, HandInv
            <4>3. ASSUME t = s, NEW c \in Key, WriteKey(s, c)
                  PROVE  slot[t].at = "write" /\ k \in slot[t].written
                <5>1. /\ slot[s].at = "write"
                      /\ slot'[s] = [slot[s] EXCEPT !.written = @ \cup {c}]
                    BY <4>3 DEF WriteKey, HandInv
                <5>2. slot[s] = [at |-> "write", job |-> slot[s].job,
                                 entries |-> slot[s].entries,
                                 written |-> slot[s].written]
                    BY <5>1 DEF SlotShape
                <5>3. slot'[s].written = slot[s].written \cup {c}
                    BY <5>1, <5>2
                <5>4. k # c
                    BY <2>3, <4>3
                <5>5. QED
                    BY <4>3, <5>1, <5>3, <5>4
            <4>4. QED
                BY <1>5, <4>1, <4>2, <4>3, SlotActionGoes
        <3>3. QED
            BY <1>2, <2>1, <3>1, <3>2
    <2>4. QED
        BY <2>2, <2>3
<1>6. ASSUME NEW r \in late, LateWrite(r) PROVE redis'[k] = Metrics(k)'
    <2>1. /\ UNCHANGED <<storeVars, workVars, total, connected, givenUp>>
          /\ redis'[k] = redis[k]
        BY <1>1, <1>6 DEF LateWrite, DataTypes
    <2>2. QED
        BY <1>1, <1>2, <2>1, QuietCalm DEF workVars
<1>7. CASE UNCHANGED vars
    BY <1>1, <1>2, <1>7, QuietCalm DEF vars, workVars, redisVars
<1>8. QED
    BY <1>3, <1>4, <1>5, <1>6, <1>7, NextCases

LEMMA FreshRedisStep ==
    /\ HandInv /\ SlotShape /\ DataTypes /\ FreshRead /\ FreshWritten
    /\ FreshRedis /\ [Next]_vars
    => FreshRedis'
<1> SUFFICES ASSUME HandInv, SlotShape, DataTypes, FreshRead, FreshWritten,
                    FreshRedis, [Next]_vars, connected',
                    NEW k \in Key \ givenUp', Done(k)'
             PROVE  redis'[k] = Metrics(k)'
    BY DEF FreshRedis, Key
<1>1. ASSUME Done(k), k \notin givenUp, connected, Metrics(k)' = Metrics(k),
             redis'[k] = redis[k]
      PROVE  redis'[k] = Metrics(k)'
    BY <1>1 DEF FreshRedis
<1>2. ASSUME NEW d \in Delta, WriterCommits(d) PROVE redis'[k] = Metrics(k)'
    BY <1>1, <1>2, CommitCalm DEF WriterCommits, redisVars
<1>3. CASE WorkerAction
    BY <1>1, <1>3, WorkerCalm DEF WorkerAction, redisVars
<1>4. ASSUME NEW s \in Slot, SlotAction(s) PROVE redis'[k] = Metrics(k)'
    <2>1. Calm(k) /\ Metrics(k)' = Metrics(k) /\ connected /\ k \notin givenUp
        BY <1>4, SlotCalm, SlotWrites, DoneIsCalm
    <2>2. CASE WriteKey(s, k)
        BY <2>1, <2>2, WritesWhatItHolds DEF DataTypes
    <2>3. CASE RememberKeys(s) /\ k \in KeysOf(slot[s].job)
        <3>1. /\ slot[s].at = "write" /\ slot[s].written = DOMAIN slot[s].entries
              /\ redis' = redis
            BY <2>1, <2>3 DEF RememberKeys, WriteCompleted, redisVars
        <3>2. k \in slot[s].written
            BY <2>3, <3>1 DEF SlotShape
        <3>3. QED
            BY <2>1, <3>1, <3>2 DEF FreshWritten
    <2>4. CASE ~WriteKey(s, k) /\ ~(RememberKeys(s) /\ k \in KeysOf(slot[s].job))
        <3>1. redis'[k] = redis[k]
            BY <1>4, <2>4, SlotWrites DEF WriteKey, DataTypes
        <3>2. Done(k)
            BY <1>4, <2>4, SlotCalm
        <3>3. QED
            BY <1>1, <2>1, <3>1, <3>2
    <2>5. QED
        BY <2>2, <2>3, <2>4
<1>5. ASSUME NEW r \in late, LateWrite(r) PROVE redis'[k] = Metrics(k)'
    <2>1. /\ UNCHANGED <<storeVars, workVars, total, connected, givenUp>>
          /\ redis'[k] = redis[k]
        BY <1>5 DEF LateWrite, DataTypes
    <2>2. QED
        BY <1>1, <2>1, QuietCalm
<1>6. CASE UNCHANGED vars
    BY <1>1, <1>6, QuietCalm DEF vars, redisVars
<1>7. QED
    BY <1>2, <1>3, <1>4, <1>5, <1>6, NextCases

----------------------------------------------------------------------------
(* The target's copies.                                                    *)

LEMMA FreshKeysStep ==
    /\ HandInv /\ SlotShape /\ DataTypes /\ FreshRead /\ FreshKeys
    /\ [Next]_vars
    => FreshKeys'
<1> SUFFICES ASSUME HandInv, SlotShape, DataTypes, FreshRead, FreshKeys,
                    [Next]_vars, NEW k \in Key, Done(k)'
             PROVE  keys'[k] = Metrics(k)'
    BY DEF FreshKeys, Key
<1>1. ASSUME Done(k), Metrics(k)' = Metrics(k), keys'[k] = keys[k]
      PROVE  keys'[k] = Metrics(k)'
    BY <1>1 DEF FreshKeys
<1>2. ASSUME NEW d \in Delta, WriterCommits(d) PROVE keys'[k] = Metrics(k)'
    BY <1>1, <1>2, CommitCalm DEF WriterCommits, targetVars
<1>3. CASE WorkerAction
    BY <1>1, <1>3, WorkerCalm DEF WorkerAction, targetVars
<1>4. ASSUME NEW s \in Slot, SlotAction(s) PROVE keys'[k] = Metrics(k)'
    <2>1. Calm(k) /\ Metrics(k)' = Metrics(k)
        BY <1>4, SlotCalm, DoneIsCalm
    <2>2. CASE RememberKeys(s) /\ k \in KeysOf(slot[s].job)
        <3>1. Holds(s, k) /\ k \in DOMAIN slot[s].entries
            BY <2>2 DEF RememberKeys, Holds, SlotShape
        <3>2. keys'[k] = slot[s].entries[k]
            BY <2>2, <3>1 DEF RememberKeys
        <3>3. QED
            BY <2>1, <3>1, <3>2 DEF FreshRead
    <2>3. CASE ~(RememberKeys(s) /\ k \in KeysOf(slot[s].job))
        <3>1. keys'[k] = keys[k]
            <4>1. CASE RememberKeys(s)
                BY <2>3, <4>1 DEF RememberKeys, SlotShape
            <4>2. CASE ~RememberKeys(s)
                BY <1>4, <4>2 DEF SlotAction, Project, Guards, LoadCustomer,
                    LoadGlobal, WriteKey, ClientGivesUp, CountOp, CallFails,
                    targetVars
            <4>3. QED
                BY <4>1, <4>2
        <3>2. Done(k)
            BY <1>4, <2>3, SlotCalm
        <3>3. QED
            BY <1>1, <2>1, <3>1, <3>2
    <2>4. QED
        BY <2>2, <2>3
<1>5. CASE UNCHANGED vars \/ \E r \in late : LateWrite(r)
    <2>1. UNCHANGED <<storeVars, workVars, total, keys>>
        BY <1>5 DEF LateWrite, vars, targetVars
    <2>2. QED
        BY <1>1, <2>1, QuietCalm
<1>6. QED
    BY <1>2, <1>3, <1>4, <1>5, NextCases

----------------------------------------------------------------------------
(* The counters.                                                           *)

LEMMA CountStep ==
    /\ HandInv /\ SlotShape /\ DataTypes /\ OpsCountSyncedJobs /\ [Next]_vars
    => OpsCountSyncedJobs'
<1> SUFFICES ASSUME HandInv, SlotShape, DataTypes, OpsCountSyncedJobs,
                    [Next]_vars
             PROVE  OpsCountSyncedJobs'
    OBVIOUS
<1>1. ASSUME UNCHANGED <<upserts, deletes>>,
             ~broken' => ~broken /\ Succeeded' = Succeeded
      PROVE  OpsCountSyncedJobs'
    BY <1>1 DEF OpsCountSyncedJobs, Counted
<1>2. CASE WorkerAction
    BY <1>1, <1>2, WorkerStepHand DEF WorkerAction, WorkerEffect, targetVars
<1>3. ASSUME NEW s \in Slot, SlotAction(s) PROVE OpsCountSyncedJobs'
    <2>1. PICK j \in Delta : j = slot[s].job
        BY <1>3, SlotActionMoves, SlotJob DEF SlotMoves
    <2>2. SlotMoves(s) /\ broken' = broken
        BY <1>3, SlotActionMoves DEF SlotMoves
    <2>3. slot[s].at # "finalize"
        BY <1>3, SlotActionGoes
    <2>4. /\ j \notin Succeeded
          /\ Succeeded' = IF slot'[s].at = "finalize" THEN Succeeded \cup {j}
                                                      ELSE Succeeded
        BY <2>1, <2>2, <2>3, SlotMovesSucceeded
    <2>5. CASE CountOp(s)
        <3>1. slot'[s].at = "finalize" /\ change[j].Kind # "other"
            BY <2>1, <2>5 DEF CountOp, Goto, HandInv, SlotShape
        <3> DEFINE U == Counted({"total", "status"})
                   D == Counted({"ghost"})
        <3>2. /\ IsFiniteSet(U) /\ IsFiniteSet(D)
              /\ j \notin U /\ j \notin D
            BY <2>4, SucceededCommitted, FS_Subset DEF Counted, DataTypes
        <3>3. IF change[j].Kind = "ghost" THEN U' = U /\ D' = D \cup {j}
                                          ELSE U' = U \cup {j} /\ D' = D
            BY <2>4, <3>1, ChangeFacts DEF Counted
        <3>4. /\ Cardinality(U \cup {j}) = Cardinality(U) + 1
              /\ Cardinality(D \cup {j}) = Cardinality(D) + 1
            BY <3>2, FS_AddElement
        <3>5. IF change[j].Kind = "ghost"
              THEN deletes' = deletes + 1 /\ upserts' = upserts
              ELSE upserts' = upserts + 1 /\ deletes' = deletes
            BY <2>1, <2>5 DEF CountOp
        <3>6. QED
            BY <2>2, <3>3, <3>4, <3>5 DEF OpsCountSyncedJobs
    <2>6. CASE ~CountOp(s)
        <3>1. UNCHANGED <<upserts, deletes>>
            BY <1>3, <2>6 DEF SlotAction, Project, Guards, LoadCustomer, LoadGlobal,
                WriteKey, ClientGivesUp, RememberKeys, CallFails, targetVars
        <3>2. slot'[s].at = "finalize" => change[j].Kind = "other"
            BY <1>3, <2>1, <2>6, SlotActionGoes
        <3>3. \A kinds : "other" \notin kinds => Counted(kinds)' = Counted(kinds)
            BY <2>4, <3>2 DEF Counted
        <3>4. QED
            BY <2>2, <3>1, <3>3 DEF OpsCountSyncedJobs
    <2>7. QED
        BY <2>5, <2>6
<1>4. CASE \/ \E d \in Delta : WriterCommits(d)
           \/ \E r \in late : LateWrite(r)
           \/ UNCHANGED vars
    <2>1. UNCHANGED <<jobState, slot, broken, upserts, deletes>>
        BY <1>4 DEF WriterCommits, CommitDelta, LateWrite, vars, storeVars,
                    workVars, targetVars
    <2>2. QED
        BY <1>1, <2>1 DEF Succeeded
<1>5. QED
    BY <1>2, <1>3, <1>4, NextCases

----------------------------------------------------------------------------
(* The theorems.                                                           *)

LEMMA Inductive == Spec => []IInv
<1>1. IInv /\ [Next]_vars => IInv'
    BY HandStep, ShapeStep, TypesStep, FreshReadStep, FreshWrittenStep,
       FreshRedisStep, FreshKeysStep, CountStep DEF IInv
<1>2. QED
    BY IInit, <1>1, PTL DEF Spec

\* Every variable of the read side keeps its type.
THEOREM RedisTypeCorrect == Spec => []TypeOK
<1>1. IInv => TypeOK
    <2> SUFFICES ASSUME IInv PROVE TypeOK
        OBVIOUS
    <2>1. WorkTypeOK({"guards", "customer", "global", "write", "count"})
        BY DEF IInv, HandInv, SlotShape, WorkTypeOK, Busy
    <2>2. ASSUME NEW s \in Slot, slot[s].at = "write"
          PROVE  /\ DOMAIN slot[s].entries \subseteq Key
                 /\ slot[s].written \subseteq DOMAIN slot[s].entries
        <3>1. slot[s].job \in Delta /\ change[slot[s].job].Kind # "other"
            BY <2>2 DEF IInv, HandInv, SlotShape, Busy
        <3>2. QED
            BY <2>2, <3>1, KeysOfRefreshing DEF IInv, SlotShape
    <2>3. QED
        BY <2>1, <2>2 DEF IInv, HandInv, DataTypes, TypeOK
<1>2. QED
    BY <1>1, Inductive, PTL

\* What is neither owed nor untouched is done.
LEMMA NotOwedIsDone ==
    ASSUME HandInv, NEW k \in Key, ~Owed(Altering(k)), ~NeverRefreshed(k)
    PROVE  Done(k)
<1>1. \A d \in Altering(k) \cap deltas : Applied(d)
    BY DEF Owed, Applied
<1>2. PICK d \in Refreshing(k) : jobState[d] = "synced"
    BY DEF NeverRefreshed
<1>3. d \in deltas
    BY <1>2 DEF HandInv, Refreshing
<1>4. QED
    BY <1>1, <1>2, <1>3 DEF Done, Applied

LEMMA FreshIsOwed == IInv => StaleIsOwed /\ ReportStaleIsOwed
    BY NotOwedIsDone DEF IInv, FreshRedis, FreshKeys, StaleIsOwed, ReportStaleIsOwed

\* Redis lags behind Postgres and is never wrong for good, although Apply
\* reads outside a transaction, first, and writes later, in any order.
THEOREM RedisLagsAtMost == Spec => []StaleIsOwed
    BY FreshIsOwed, Inductive, PTL

\* So do the target's copies, which the report prints.
THEOREM ReportLagsAtMost == Spec => []ReportStaleIsOwed
    BY FreshIsOwed, Inductive, PTL

\* The counters of the report count the synced jobs, each once.
THEOREM CountersAreOfSyncedJobs == Spec => []OpsCountSyncedJobs
<1>1. IInv => OpsCountSyncedJobs
    BY DEF IInv
<1>2. QED
    BY <1>1, Inductive, PTL

----------------------------------------------------------------------------
(* The read side implements ReadModel.                                     *)

OwedKeys ==
    {k \in Key : Owed(Altering(k)) \/ NeverRefreshed(k) \/ k \in givenUp}

Copy == IF connected THEN redis ELSE keys

LEMMA RefinedInit == Init => Consistency!Init
<1> SUFFICES ASSUME Init PROVE Consistency!Init
    OBVIOUS
<1>1. \A k \in Key : NeverRefreshed(k)
    BY DEF Init, StoreInit, NeverRefreshed, Refreshing
<1>2. QED
    BY <1>1 DEF Consistency!Init

\* A slot writes a key that is owed, or the value that is there already.
LEMMA WritesOwed ==
    ASSUME IInv, NEW s \in Slot, NEW k \in Key, k \notin OwedKeys,
           Holds(s, k), slot[s].at = "write"
    PROVE  slot[s].entries[k] = Copy[k]
<1>1. Done(k) /\ Calm(k) /\ k \notin givenUp
    BY NotOwedIsDone, DoneIsCalm DEF OwedKeys, IInv
<1>2. slot[s].entries[k] = Metrics(k)
    BY <1>1 DEF IInv, FreshRead
<1>3. Copy[k] = Metrics(k)
    BY <1>1 DEF IInv, FreshRedis, FreshKeys, Copy
<1>4. QED
    BY <1>2, <1>3

\* A step that settles jobs and writes nothing settles a debt rightly, for
\* what is not owed is right in the state it leads to.
LEMMA RefinedStep ==
    IInv /\ IInv' /\ [Next]_vars => [Consistency!Next]_(Consistency!vars)
<1> DEFINE src == [k \in Key |-> Metrics(k)]
<1> SUFFICES ASSUME IInv, IInv', [Next]_vars
             PROVE  Consistency!Next \/ UNCHANGED <<src, Copy, OwedKeys>>
    BY DEF Consistency!vars, OwedKeys, Copy
<1> USE DEF OwedKeys, Copy
<1>1. ASSUME NEW d \in Delta, WriterCommits(d) PROVE Consistency!Change
    <2>1. /\ deltas' = deltas \cup {d} /\ jobState' = jobState
          /\ UNCHANGED <<givenUp, connected, redis, keys>>
        BY <1>1 DEF WriterCommits, CommitDelta, redisVars, targetVars
    <2>2. OwedKeys \subseteq OwedKeys'
        BY <2>1 DEF Owed, NeverRefreshed, Altering, Refreshing
    <2>3. \A k \in Key : d \in Altering(k) => k \in OwedKeys'
        BY <1>1, <2>1 DEF WriterCommits, Owed, IInv, HandInv, Altering, Refreshing
    <2>4. \A k \in Key \ OwedKeys' : Metrics(k)' = Metrics(k)
        BY <1>1, <2>3, CommitMetrics DEF IInv, DataTypes
    <2>5. QED
        BY <2>1, <2>2, <2>4 DEF Consistency!Change, Consistency!SameExcept, Key
<1>2. CASE WorkerAction
    <2>1. /\ WorkerEffect
          /\ UNCHANGED <<total, givenUp, connected, redis, keys>>
        BY <1>2, WorkerStepHand DEF WorkerAction, redisVars, targetVars, IInv
    <2>2. \A k \in Key : Metrics(k)' = Metrics(k)
        BY <2>1, MetricsUnchanged
    <2>3. OwedKeys' \subseteq OwedKeys
        BY <2>1 DEF WorkerEffect, Owed, NeverRefreshed, Altering, Refreshing
    <2>4. StaleIsOwed' /\ ReportStaleIsOwed'
        BY FreshIsOwed, PTL
    <2>5. \A k \in OwedKeys \ OwedKeys' : Copy[k] = Metrics(k)
        BY <2>1, <2>2, <2>4
           DEF StaleIsOwed, ReportStaleIsOwed, Key, IInv, DataTypes
    <2>6. Consistency!Settle
        BY <2>1, <2>2, <2>3, <2>5 DEF Consistency!Settle, Key
    <2>7. QED
        BY <2>6 DEF Consistency!Next
<1>3. ASSUME NEW s \in Slot, SlotAction(s)
      PROVE  Consistency!Next \/ UNCHANGED <<src, Copy, OwedKeys>>
    <2>1. /\ deltas' = deltas /\ jobState' = jobState
          /\ connected' = connected /\ givenUp \subseteq givenUp'
          /\ \A k \in Key : Metrics(k)' = Metrics(k)
        BY <1>3, SlotActionMoves, SlotWrites, SlotCalm DEF SlotMoves, IInv, storeVars
    <2>2. src' = src
        BY <2>1 DEF Key
    <2>3. OwedKeys \subseteq OwedKeys'
        BY <2>1 DEF Owed, NeverRefreshed, Altering, Refreshing
    <2>4. CASE Copy' = Copy
        BY <2>2, <2>3, <2>4
           DEF Consistency!Next, Consistency!Change, Consistency!SameExcept
    <2>5. CASE Copy' # Copy
        <3>1. RememberKeys(s) \/ \E c \in Key : WriteKey(s, c)
            BY <1>3, <2>5 DEF SlotAction, Project, Guards, LoadCustomer, LoadGlobal,
                ClientGivesUp, CountOp, CallFails, redisVars, targetVars
        <3>2. givenUp' = givenUp
            BY <3>1 DEF WriteKey, RememberKeys, redisVars
        <3>3. OwedKeys' = OwedKeys
            BY <2>1, <3>2 DEF Owed, NeverRefreshed, Altering, Refreshing
        <3>4. ASSUME NEW k \in Key \ OwedKeys, Copy'[k] # Copy[k] PROVE FALSE
            <4>1. /\ Holds(s, k) /\ slot[s].at = "write"
                  /\ Copy'[k] = slot[s].entries[k]
                <5>1. CASE RememberKeys(s)
                    BY <3>4, <5>1 DEF RememberKeys, redisVars, Holds, IInv,
                        SlotShape
                <5>2. ASSUME NEW c \in Key, WriteKey(s, c)
                      PROVE  /\ Holds(s, k) /\ slot[s].at = "write"
                             /\ Copy'[k] = slot[s].entries[k]
                    BY <3>4, <5>2 DEF WriteKey, Holds, IInv, SlotShape, DataTypes
                <5>3. QED
                    BY <3>1, <5>1, <5>2
            <4>2. QED
                BY <3>4, <4>1, WritesOwed
        <3>5. Consistency!Write
            BY <2>2, <3>3, <3>4 DEF Consistency!Write, Consistency!SameExcept
        <3>6. QED
            BY <3>5 DEF Consistency!Next
    <2>6. QED
        BY <2>4, <2>5
<1>4. ASSUME NEW r \in late, LateWrite(r) PROVE Consistency!Write
    <2>1. /\ UNCHANGED <<storeVars, total, connected, givenUp, keys>>
          /\ r.key \in givenUp
          /\ \A k \in Key \ {r.key} : redis'[k] = redis[k]
        BY <1>4 DEF LateWrite, IInv, DataTypes, targetVars
    <2>2. r.key \in OwedKeys
        BY <2>1 DEF IInv, DataTypes
    <2>3. OwedKeys' = OwedKeys
        BY <2>1 DEF Owed, NeverRefreshed, Altering, Refreshing, storeVars
    <2>4. \A k \in Key : Metrics(k)' = Metrics(k)
        BY <2>1, MetricsUnchanged
    <2>5. QED
        BY <2>1, <2>2, <2>3, <2>4
           DEF Consistency!Write, Consistency!SameExcept, Key
<1>5. CASE UNCHANGED vars
    <2>1. UNCHANGED <<total, redis, keys, connected, givenUp, storeVars>>
        BY <1>5 DEF vars, redisVars, targetVars
    <2>2. \A k \in Key : Metrics(k)' = Metrics(k)
        BY <2>1, MetricsUnchanged
    <2>3. QED
        BY <2>1, <2>2 DEF Owed, NeverRefreshed, Altering, Refreshing, storeVars, Key
<1>6. QED
    BY <1>1, <1>2, <1>3, <1>4, <1>5, NextCases DEF Consistency!Next

\* Redis, or without an address the report, is an eventually consistent copy
\* of what Postgres gives: a key changes only while it is owed, and a debt is
\* settled only by the right value.
THEOREM RedisImplementsReadModel == Spec => ImplementsReadModel
    BY RefinedInit, RefinedStep, Inductive, PTL
       DEF Spec, ImplementsReadModel, Consistency!Spec
=============================================================================
