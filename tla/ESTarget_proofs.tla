-------------------------- MODULE ESTarget_proofs --------------------------
(***************************************************************************)
(* Theorems about the Elasticsearch read side, for every set of entities,  *)
(* every plan of changes, any Concurrency, MaxAttempts, batch and page     *)
(* size, with an endpoint and without one.                                 *)
(***************************************************************************)
EXTENDS ESTarget, SyncWorker_proofs, FiniteSetTheorems

----------------------------------------------------------------------------
(* The invariant, in parts.                                                *)

Content == Nat \cup {Absent}

DataTypes ==
    /\ row \in [Entity -> Content]
    /\ \A e \in Entity \ {Ghost} : row[e] \in Nat
    /\ row[Ghost] = Absent
    /\ connected \in BOOLEAN
    /\ doc \in [Entity -> Content \cup {Stale}]
    /\ givenUp \subseteq Entity
    /\ late \subseteq [entity : givenUp, content : Content]
    /\ failOnce \subseteq RetryEntity
    /\ failures \in Nat /\ ghosts \in Nat

\* A slot that is about to send, or has sent, knows what.
SlotShape ==
    \A s \in Slot :
       /\ slot[s].at \in {"idle", "project", "guards", "sent", "count",
                          "finalize", "fail", "reject"}
       /\ slot[s].at \in {"guards", "sent"} =>
             /\ slot[s] = [at |-> slot[s].at, job |-> slot[s].job,
                           content |-> slot[s].content]
             /\ slot[s].content \in Content

Announced(e) == JobsOf(e) \cap deltas

\* Why slots may write one document side by side: when every job of the
\* entity was synced or is in hand, no row has changed since they were
\* claimed, and every slot that holds a version of it holds the latest.
FreshRead ==
    \A s \in Slot :
       /\ slot[s].at \in {"guards", "sent"}
       /\ \A d \in Announced(EntityAt(s)) : Settled(d)
       => slot[s].content = row[EntityAt(s)]

\* Once all announced changes of an entity are applied, and there is one, the
\* document is the row.  It is DocStaleIsOwed, but counts a job as done from
\* the moment of its write, not of its record.
FreshDoc ==
    connected => \A e \in Entity \ givenUp :
       /\ \A d \in Announced(e) : Applied(d)
       /\ \E d \in Announced(e) : Applied(d)
       => doc[e] = row[e]

CountInv == counted \in [Delta -> Nat] /\ EachJobCountedOnce

\* The counters of failures and of ghosts.
TallyInv == FailuresAreAttempts /\ GhostsAreAttempts

\* A page shows the end of the run, and nothing but requests given up can
\* happen after it.
PageInv ==
    \A page \in report :
       /\ WorkComplete
       /\ DOMAIN page \subseteq Entity
       /\ Cardinality(DOMAIN page) < PageSize =>
            \A e \in Entity \ givenUp :
               JobsOf(e) # {} /\ (\A d \in JobsOf(e) : jobState[d] = "synced") =>
                  IF row[e] = Absent THEN e \notin DOMAIN page
                  ELSE e \in DOMAIN page /\ page[e] = row[e]

IInv ==
    /\ HandInv /\ DataTypes /\ SlotShape
    /\ FreshRead /\ FreshDoc /\ CountInv /\ TallyInv /\ PageInv

\* The set whose size is AttemptsOf.
Tried(D) == {da \in D \X (1 .. MaxAttempts) : da[2] <= FailedAttempts(da[1])}

LEMMA AttemptsType ==
    ASSUME NEW D \in SUBSET Delta
    PROVE  /\ IsFiniteSet(Tried(D)) /\ AttemptsOf(D) \in Nat
           /\ AttemptsOf(D) = Cardinality(Tried(D))
<1>1. IsFiniteSet(D) /\ IsFiniteSet(1 .. MaxAttempts)
    BY FS_Subset, FS_Interval, SyncAssumption, JobAssumption
<1>2. IsFiniteSet(D \X (1 .. MaxAttempts))
    BY <1>1, FS_Product
<1>3. IsFiniteSet(Tried(D))
    BY <1>2, FS_Subset DEF Tried
<1>4. QED
    BY <1>3, FS_CardinalityType DEF AttemptsOf, Tried

\* The jobs of the ghost that were seen to have no row, and did not fail
\* since: the set in GhostsAreAttempts.
Seen ==
    {d \in JobsOf(Ghost) :
        \/ d \in Succeeded
        \/ \E s \in Slot : /\ slot[s].at \in {"guards", "sent", "count"}
                           /\ slot[s].job = d}

LEMMA SeenType == IsFiniteSet(Seen) /\ Cardinality(Seen) \in Nat
<1>1. Seen \subseteq Delta
    BY DEF Seen, JobsOf
<1>2. QED
    BY <1>1, FS_Subset, FS_CardinalityType, SyncAssumption

LEMMA IInit == Init => IInv
<1> SUFFICES ASSUME Init PROVE IInv
    OBVIOUS
<1>1. HandInv
    BY HandInit DEF Init
<1>2. DataTypes
    BY ESAssumption DEF Init, DataTypes, Content
<1>3. \A s \in Slot : slot[s].at = "idle"
    BY DEF Init, WorkInit, Idle
<1>4. SlotShape /\ FreshRead
    BY <1>3 DEF SlotShape, FreshRead
<1>5. deltas = {} /\ \A d \in Delta : jobState[d] = "absent"
    BY DEF Init, StoreInit
<1>6. FreshDoc
    BY <1>5 DEF FreshDoc, Announced
<1>7. CountInv
    BY <1>3, <1>5 DEF Init, CountInv, EachJobCountedOnce, Succeeded
<1>8. PageInv
    BY DEF Init, PageInv
<1>9. TallyInv
    <2>1. AttemptsOf(Delta) \in Nat /\ AttemptsOf(JobsOf(Ghost)) \in Nat
        BY AttemptsType DEF JobsOf
    <2>2. Seen = {}
        BY <1>3, <1>5 DEF Seen, Succeeded
    <2>3. Cardinality(Seen) = 0
        BY <2>2, FS_EmptySet
    <2>4. failures = 0 /\ ghosts = 0
        BY DEF Init
    <2>5. QED
        BY <2>1, <2>3, <2>4 DEF TallyInv, FailuresAreAttempts,
                                GhostsAreAttempts, Seen
<1>10. QED
    BY <1>1, <1>2, <1>4, <1>6, <1>7, <1>8, <1>9 DEF IInv

----------------------------------------------------------------------------
(* The kinds of steps.                                                     *)

SlotAction(s) ==
    \/ Project(s) \/ Refuse(s) \/ Send(s) \/ ServerApplies(s)
    \/ ApplierFails(s) \/ ClientGivesUp(s) \/ CountOp(s)
    \/ ProjectFails(s) \/ SimulatorApplies(s)

WorkerAction == WorkerStep /\ UNCHANGED <<row, indexVars, targetVars, countVars>>

\* The cases every proof about Next goes through.
LEMMA NextCases ==
    ASSUME [Next]_vars
    PROVE  \/ \E d \in Delta : WriterCommits(d)
           \/ WorkerAction
           \/ \E s \in Slot : SlotAction(s)
           \/ \E r \in late : LateRequest(r)
           \/ Snapshot
           \/ UNCHANGED vars
    BY DEF Next, WorkerAction, SlotAction, Stopped

\* A slot that acts keeps its job.  It moves to "count" only from a write.
LEMMA SlotActionMoves ==
    ASSUME HandInv, SlotShape, NEW s \in Slot, SlotAction(s)
    PROVE  SlotMoves(s)
<1>1. s \in DOMAIN slot /\ DOMAIN slot = Slot
    BY DEF HandInv
<1>2. CASE Project(s)
    BY <1>1, <1>2 DEF Project, SlotMoves, Busy
<1>3. CASE Refuse(s)
    BY <1>1, <1>3 DEF Refuse, Goto, SlotMoves, Busy
<1>4. CASE Send(s)
    <2>1. slot[s] = [at |-> slot[s].at, job |-> slot[s].job,
                     content |-> slot[s].content]
        BY <1>4 DEF Send, SlotShape
    <2>2. slot'[s] = [slot[s] EXCEPT !.at = "sent"]
        BY <1>1, <1>4 DEF Send
    <2>3. slot'[s].at = "sent" /\ slot'[s].job = slot[s].job
        BY <2>1, <2>2
    <2>4. QED
        BY <1>1, <1>4, <2>3 DEF Send, SlotMoves, Busy
<1>5. CASE ServerApplies(s)
    BY <1>1, <1>5 DEF ServerApplies, Goto, SlotMoves, Busy
<1>6. CASE ApplierFails(s)
    BY <1>1, <1>6 DEF ApplierFails, Goto, SlotMoves, Busy
<1>7. CASE ClientGivesUp(s)
    BY <1>1, <1>7 DEF ClientGivesUp, Goto, SlotMoves, Busy
<1>8. CASE CountOp(s)
    BY <1>1, <1>8 DEF CountOp, Goto, SlotMoves, Busy
<1>9. CASE ProjectFails(s)
    BY <1>1, <1>9 DEF ProjectFails, Goto, SlotMoves, Busy
<1>10. CASE SimulatorApplies(s)
    BY <1>1, <1>10 DEF SimulatorApplies, Goto, SlotMoves, Busy
<1>11. QED
    BY <1>2, <1>3, <1>4, <1>5, <1>6, <1>7, <1>8, <1>9, <1>10 DEF SlotAction

\* Where the slot goes, and with what.
LEMMA SlotActionGoes ==
    ASSUME HandInv, SlotShape, NEW s \in Slot, SlotAction(s)
    PROVE  \/ /\ Project(s) /\ slot[s].at = "project" /\ slot'[s].at = "guards"
              /\ slot'[s] = [at |-> "guards", job |-> slot[s].job,
                             content |-> row[EntityAt(s)]]
           \/ /\ Send(s) /\ slot[s].at = "guards" /\ slot'[s].at = "sent"
              /\ slot'[s] = [at |-> "sent", job |-> slot[s].job,
                             content |-> slot[s].content]
           \/ /\ Refuse(s) \/ ApplierFails(s) \/ ClientGivesUp(s) \/ ProjectFails(s)
              /\ slot[s].at \in {"project", "guards", "sent"}
              /\ slot'[s].at \in {"fail", "reject"}
           \/ /\ ServerApplies(s)
              /\ slot[s].at = "sent" /\ slot'[s].at = "count"
           \/ /\ CountOp(s)
              /\ slot[s].at = "count" /\ slot'[s].at = "finalize"
           \/ /\ SimulatorApplies(s) /\ ~connected
              /\ slot[s].at = "guards" /\ slot'[s].at \in {"finalize", "fail"}
<1>1. s \in DOMAIN slot
    BY DEF HandInv
<1>2. CASE Send(s)
    <2>1. slot[s] = [at |-> slot[s].at, job |-> slot[s].job,
                     content |-> slot[s].content]
        BY <1>2 DEF Send, SlotShape
    <2>2. slot'[s] = [slot[s] EXCEPT !.at = "sent"]
        BY <1>1, <1>2 DEF Send
    <2>3. slot'[s] = [at |-> "sent", job |-> slot[s].job,
                      content |-> slot[s].content]
        BY <2>1, <2>2
    <2>4. QED
        BY <1>2, <2>3 DEF Send
<1>3. CASE Project(s)
    BY <1>1, <1>3 DEF Project
<1>4. CASE Refuse(s) \/ ApplierFails(s) \/ ClientGivesUp(s) \/ ProjectFails(s)
    BY <1>1, <1>4 DEF Refuse, ApplierFails, ClientGivesUp, ProjectFails, Goto
<1>5. CASE ServerApplies(s) \/ CountOp(s)
    BY <1>1, <1>5 DEF ServerApplies, CountOp, Goto
<1>6. CASE SimulatorApplies(s)
    BY <1>1, <1>6 DEF SimulatorApplies, Goto
<1>7. QED
    BY <1>2, <1>3, <1>4, <1>5, <1>6 DEF SlotAction

----------------------------------------------------------------------------
(* The jobs in hand, and types.                                            *)

LEMMA HandStep == HandInv /\ SlotShape /\ [Next]_vars => HandInv'
<1> SUFFICES ASSUME HandInv, SlotShape, [Next]_vars PROVE HandInv'
    OBVIOUS
<1>1. ASSUME NEW d \in Delta, WriterCommits(d) PROVE HandInv'
    BY <1>1, CommitHand DEF WriterCommits
<1>2. CASE WorkerAction
    BY <1>2, WorkerStepHand DEF WorkerAction
<1>3. ASSUME NEW s \in Slot, SlotAction(s) PROVE HandInv'
    BY <1>3, SlotActionMoves, SlotMovesHand
<1>4. ASSUME NEW r \in late, LateRequest(r) PROVE HandInv'
    BY <1>4, NothingHand DEF LateRequest
<1>5. CASE Snapshot \/ UNCHANGED vars
    BY <1>5, NothingHand DEF Snapshot, vars
<1>6. QED
    BY <1>1, <1>2, <1>3, <1>4, <1>5, NextCases

LEMMA TypesStep ==
    HandInv /\ DataTypes /\ SlotShape /\ [Next]_vars => DataTypes' /\ SlotShape'
<1> SUFFICES ASSUME HandInv, DataTypes, SlotShape, [Next]_vars
             PROVE  DataTypes' /\ SlotShape'
    OBVIOUS
<1>1. ASSUME NEW d \in Delta, WriterCommits(d) PROVE DataTypes' /\ SlotShape'
    <2>1. entityOf[d] \in Entity
        BY ESAssumption
    <2>2. /\ row' \in [Entity -> Content]
          /\ \A e \in Entity \ {Ghost} : row'[e] \in Nat
          /\ row'[Ghost] = Absent
        BY <1>1, <2>1 DEF WriterCommits, DataTypes, Content
    <2>3. DataTypes'
        BY <1>1, <2>2 DEF WriterCommits, DataTypes, indexVars, targetVars, countVars
    <2>4. SlotShape'
        BY <1>1 DEF WriterCommits, workVars, SlotShape
    <2>5. QED
        BY <2>3, <2>4
<1>2. CASE WorkerAction
    <2>1. \A s \in Slot : \/ slot'[s] = slot[s]
                          \/ slot'[s] = Idle
                          \/ slot'[s].at = "project"
        BY <1>2, WorkerStepHand DEF WorkerAction, WorkerEffect
    <2>2. SlotShape'
        BY <2>1 DEF SlotShape, Idle
    <2>3. DataTypes'
        BY <1>2 DEF WorkerAction, DataTypes, indexVars, targetVars, countVars
    <2>4. QED
        BY <2>2, <2>3
<1>3. ASSUME NEW s \in Slot, SlotAction(s) PROVE DataTypes' /\ SlotShape'
    <2>1. /\ SlotMoves(s) /\ \A t \in Slot \ {s} : slot'[t] = slot[t]
          /\ EntityAt(s) \in Entity
        BY <1>3, SlotActionMoves, ESAssumption DEF SlotMoves, HandInv, EntityAt
    <2>2. SlotShape'
        <3>1. /\ slot'[s].at \in {"guards", "sent", "count", "finalize", "fail", "reject"}
              /\ slot'[s].at \in {"guards", "sent"} =>
                    /\ slot'[s] = [at |-> slot'[s].at, job |-> slot'[s].job,
                                   content |-> slot'[s].content]
                    /\ slot'[s].content \in Content
            <4>1. CASE Project(s)
                <5>1. slot'[s] = [at |-> "guards", job |-> slot[s].job,
                                  content |-> row[EntityAt(s)]]
                    BY <4>1 DEF Project, HandInv
                <5>2. QED
                    BY <2>1, <5>1 DEF DataTypes
            <4>2. CASE /\ slot[s].at = "guards"
                       /\ slot'[s] = [at |-> "sent", job |-> slot[s].job,
                                      content |-> slot[s].content]
                <5>1. slot[s].content \in Content
                    BY <4>2 DEF SlotShape
                <5>2. QED
                    BY <4>2, <5>1
            <4>3. CASE slot'[s].at \in {"count", "finalize", "fail", "reject"}
                BY <4>3
            <4>4. CASE Send(s)
                BY <1>3, <4>2, <4>4, SlotActionGoes DEF Send
            <4>5. CASE ~Project(s) /\ ~Send(s)
                BY <1>3, <4>3, <4>5, SlotActionGoes
            <4>6. QED
                BY <4>1, <4>4, <4>5
        <3>2. QED
            BY <2>1, <3>1 DEF SlotShape
    <2>3. DataTypes'
        <3>1. CASE Project(s)
            BY <3>1 DEF Project, DataTypes, indexVars, targetVars
        <3>2. CASE Refuse(s)
            BY <3>2 DEF Refuse, DataTypes, indexVars, countVars
        <3>3. CASE Send(s) \/ CountOp(s) \/ ProjectFails(s)
            BY <3>3 DEF Send, CountOp, ProjectFails, DataTypes, indexVars,
                        targetVars, countVars
        <3>4. CASE ServerApplies(s) \/ ApplierFails(s)
            <4>1. slot[s].content \in Content
                BY <3>4 DEF ServerApplies, ApplierFails, SlotShape
            <4>2. doc' \in [Entity -> Content \cup {Stale}]
                BY <2>1, <3>4, <4>1 DEF ServerApplies, ApplierFails, DataTypes
            <4>3. QED
                BY <3>4, <4>2 DEF ServerApplies, ApplierFails, DataTypes,
                                  targetVars, countVars
        <3>5. CASE ClientGivesUp(s)
            <4>1. slot[s].content \in Content
                BY <3>5 DEF ClientGivesUp, SlotShape
            <4>2. givenUp' \subseteq Entity
                BY <2>1, <3>5 DEF ClientGivesUp, DataTypes
            <4>3. late' \subseteq [entity : givenUp', content : Content]
                BY <2>1, <3>5, <4>1 DEF ClientGivesUp, DataTypes
            <4>4. QED
                BY <3>5, <4>2, <4>3 DEF ClientGivesUp, DataTypes, countVars
        <3>6. CASE SimulatorApplies(s)
            BY <3>6 DEF SimulatorApplies, DataTypes, indexVars, countVars
        <3>7. QED
            BY <1>3, <3>1, <3>2, <3>3, <3>4, <3>5, <3>6 DEF SlotAction
    <2>4. QED
        BY <2>2, <2>3
<1>4. ASSUME NEW r \in late, LateRequest(r) PROVE DataTypes' /\ SlotShape'
    <2>1. r \in [entity : givenUp, content : Content]
        BY DEF DataTypes
    <2>2. DataTypes'
        BY <1>4, <2>1 DEF LateRequest, DataTypes, targetVars, countVars
    <2>3. SlotShape'
        BY <1>4 DEF LateRequest, workVars, SlotShape
    <2>4. QED
        BY <2>2, <2>3
<1>5. CASE Snapshot \/ UNCHANGED vars
    BY <1>5 DEF Snapshot, vars, workVars, indexVars, targetVars, countVars,
                DataTypes, SlotShape
<1>6. QED
    BY <1>1, <1>2, <1>3, <1>4, <1>5, NextCases

----------------------------------------------------------------------------
(* The versions that slots hold.                                           *)

LEMMA FreshReadStep ==
    /\ HandInv /\ DataTypes /\ SlotShape /\ FreshRead /\ [Next]_vars => FreshRead'
<1> SUFFICES ASSUME HandInv, DataTypes, SlotShape, FreshRead, [Next]_vars
             PROVE  FreshRead'
    OBVIOUS
<1>1. ASSUME NEW d \in Delta, WriterCommits(d) PROVE FreshRead'
    <2>1. /\ \A c \in Delta : InHand(c)' <=> InHand(c)
          /\ jobState'[d] = "absent" /\ ~InHand(d)'
          /\ deltas' = deltas \cup {d} /\ jobState' = jobState
          /\ slot' = slot
        BY <1>1, CommitHand DEF WriterCommits, CommitDelta, workVars
    <2>2. SUFFICES ASSUME NEW s \in Slot, slot[s].at \in {"guards", "sent"},
                          \A c \in JobsOf(EntityAt(s)) \cap deltas' : Settled(c)'
                   PROVE  slot[s].content = row'[EntityAt(s)]
        BY <2>1 DEF FreshRead, Announced, EntityAt, JobsOf
    <2>3. entityOf[d] # EntityAt(s)
        BY <2>1, <2>2 DEF JobsOf, Settled
    <2>4. \A c \in Announced(EntityAt(s)) : Settled(c)
        BY <2>1, <2>2 DEF Announced, Settled, JobsOf
    <2>5. slot[s].content = row[EntityAt(s)]
        BY <2>2, <2>4 DEF FreshRead
    <2>6. EntityAt(s) \in Entity
        BY <2>2, ESAssumption DEF EntityAt, HandInv, Busy
    <2>7. row'[EntityAt(s)] = row[EntityAt(s)]
        BY <1>1, <2>3, <2>6 DEF WriterCommits, DataTypes
    <2>8. QED
        BY <2>5, <2>7
<1>2. CASE WorkerAction
    <2>1. WorkerEffect /\ row' = row
        BY <1>2, WorkerStepHand DEF WorkerAction
    <2>2. SUFFICES ASSUME NEW s \in Slot, slot'[s].at \in {"guards", "sent"},
                          \A c \in JobsOf(EntityAt(s)') \cap deltas' : Settled(c)'
                   PROVE  slot'[s].content = row'[EntityAt(s)']
        BY <2>1 DEF FreshRead, Announced, EntityAt, JobsOf
    <2>3. slot'[s] = slot[s] /\ Busy(s)'
        BY <2>1, <2>2 DEF WorkerEffect, Idle, Busy
    <2>4. \A c \in Delta : Settled(c)' => Settled(c)
        BY <2>1, <2>3 DEF WorkerEffect
    <2>5. \A c \in Announced(EntityAt(s)) : Settled(c)
        BY <2>1, <2>2, <2>3, <2>4 DEF WorkerEffect, Announced, EntityAt, JobsOf
    <2>6. QED
        BY <2>1, <2>2, <2>3, <2>5 DEF FreshRead, EntityAt
<1>3. ASSUME NEW s \in Slot, SlotAction(s) PROVE FreshRead'
    <2>1. /\ SlotMoves(s) /\ deltas' = deltas /\ row' = row
          /\ \A d \in Delta : Settled(d)' <=> Settled(d)
        <3>1. row' = row
            BY <1>3 DEF SlotAction, Project, Refuse, Send, ServerApplies,
                 ApplierFails, ClientGivesUp, CountOp, ProjectFails, SimulatorApplies
        <3>2. QED
            BY <1>3, <3>1, SlotActionMoves, SlotMovesHand
               DEF SlotMoves, storeVars, Settled
    <2>2. SUFFICES ASSUME NEW t \in Slot, slot'[t].at \in {"guards", "sent"},
                          \A c \in JobsOf(EntityAt(t)') \cap deltas' : Settled(c)'
                   PROVE  slot'[t].content = row'[EntityAt(t)']
        BY DEF FreshRead, Announced, EntityAt, JobsOf
    <2>3. EntityAt(t)' = EntityAt(t)
        BY <2>1 DEF SlotMoves, EntityAt
    <2>4. \A c \in Announced(EntityAt(t)) : Settled(c)
        BY <2>1, <2>2, <2>3 DEF Announced, JobsOf
    <2>5. CASE t # s
        BY <2>1, <2>2, <2>3, <2>4, <2>5 DEF SlotMoves, FreshRead
    <2>6. CASE t = s /\ Project(s)
        BY <2>1, <2>3, <2>6, SlotActionGoes, <1>3 DEF Project, HandInv
    <2>7. CASE t = s /\ ~Project(s)
        <3>1. slot[s].at = "guards" /\ slot'[s].content = slot[s].content
            <4>1. slot'[s].at \in {"guards", "sent"}
                BY <2>2, <2>7
            <4>2. /\ slot[s].at = "guards"
                  /\ slot'[s] = [at |-> "sent", job |-> slot[s].job,
                                 content |-> slot[s].content]
                BY <1>3, <2>7, <4>1, SlotActionGoes
            <4>3. QED
                BY <4>2
        <3>2. QED
            BY <2>1, <2>3, <2>4, <2>7, <3>1 DEF FreshRead
    <2>8. QED
        BY <2>5, <2>6, <2>7
<1>4. CASE Snapshot \/ UNCHANGED vars \/ \E r \in late : LateRequest(r)
    <2>1. UNCHANGED <<storeVars, workVars, row>>
        BY <1>4 DEF Snapshot, LateRequest, vars
    <2>2. \A d \in Delta : Settled(d)' <=> Settled(d)
        BY <2>1, NothingHand DEF Settled, storeVars
    <2>3. QED
        BY <2>1, <2>2 DEF FreshRead, Announced, EntityAt, JobsOf, storeVars, workVars
<1>5. QED
    BY <1>1, <1>2, <1>3, <1>4, NextCases

----------------------------------------------------------------------------
(* The documents.                                                          *)

LEMMA FreshDocStep ==
    /\ HandInv /\ DataTypes /\ SlotShape /\ FreshRead /\ FreshDoc
    /\ [Next]_vars
    => FreshDoc'
<1> SUFFICES ASSUME HandInv, DataTypes, SlotShape, FreshRead, FreshDoc,
                    [Next]_vars
             PROVE  FreshDoc'
    OBVIOUS
<1> SUFFICES ASSUME connected', NEW e \in Entity \ givenUp',
                    \A d \in JobsOf(e) \cap deltas' : Applied(d)',
                    NEW c \in JobsOf(e) \cap deltas', Applied(c)'
             PROVE  doc'[e] = row'[e]
    BY DEF FreshDoc, Announced, JobsOf
<1>1. ASSUME connected, e \notin givenUp,
             \A d \in Announced(e) : Applied(d), \E d \in Announced(e) : Applied(d)
      PROVE  doc[e] = row[e]
    BY <1>1 DEF FreshDoc
<1>2. ASSUME NEW d \in Delta, WriterCommits(d) PROVE doc'[e] = row'[e]
    <2>1. /\ jobState'[d] = "absent" /\ ~InHand(d)'
          /\ deltas' = deltas \cup {d} /\ jobState' = jobState
          /\ slot' = slot /\ doc' = doc /\ connected' = connected
          /\ givenUp' = givenUp
        BY <1>2, CommitHand DEF WriterCommits, CommitDelta, workVars, indexVars
    <2>2. ~Applied(d)'
        BY <2>1 DEF Applied, InHand, Busy
    <2>3. d \notin JobsOf(e) /\ \A b \in Delta : Applied(b)' <=> Applied(b)
        BY <2>1, <2>2 DEF Applied
    <2>4. JobsOf(e) \cap deltas' = Announced(e)
        BY <2>1, <2>3 DEF Announced
    <2>5. doc[e] = row[e]
        BY <1>1, <2>1, <2>3, <2>4 DEF Announced, JobsOf
    <2>6. row'[e] = row[e]
        BY <1>2, <2>3 DEF WriterCommits, JobsOf, DataTypes
    <2>7. QED
        BY <2>1, <2>5, <2>6
<1>3. CASE WorkerAction
    <2>1. WorkerEffect /\ UNCHANGED <<row, doc, connected, givenUp>>
        BY <1>3, WorkerStepHand DEF WorkerAction, indexVars
    <2>2. \A d \in Delta : Applied(d)' => Applied(d)
        BY <2>1, EffectApplied
    <2>3. QED
        BY <1>1, <2>1, <2>2 DEF WorkerEffect, Announced, JobsOf
<1>4. ASSUME NEW s \in Slot, SlotAction(s) PROVE doc'[e] = row'[e]
    <2>1. PICK j \in deltas : j = slot[s].job /\ j \in Delta /\ jobState[j] = "processing"
        BY <1>4, SlotActionMoves DEF SlotMoves, HandInv, InHand
    <2>2. /\ SlotMoves(s) /\ deltas' = deltas /\ jobState' = jobState
          /\ slot'[s].job = j /\ Busy(s)'
          /\ \A t \in Slot \ {s} : slot'[t] = slot[t]
          /\ \A d \in Delta : InHand(d)' <=> InHand(d)
        BY <1>4, <2>1, SlotActionMoves, SlotMovesHand DEF SlotMoves, storeVars
    <2>3. row' = row /\ connected' = connected /\ givenUp \subseteq givenUp'
        BY <1>4 DEF SlotAction, Project, Refuse, Send, ServerApplies, ApplierFails,
             ClientGivesUp, CountOp, ProjectFails, SimulatorApplies, indexVars
    <2>4. doc' = doc \/ ServerApplies(s) \/ ApplierFails(s)
        BY <1>4 DEF SlotAction, Project, Refuse, Send, ServerApplies, ApplierFails,
             ClientGivesUp, CountOp, ProjectFails, SimulatorApplies, indexVars
    <2>5. CASE entityOf[j] # e
        <3>1. doc'[e] = doc[e]
            BY <2>1, <2>4, <2>5 DEF ServerApplies, ApplierFails, EntityAt, DataTypes
        <3>2. \A d \in JobsOf(e) : Applied(d)' <=> Applied(d)
            BY <2>1, <2>2, <2>5 DEF Applied, JobsOf
        <3>3. QED
            BY <1>1, <2>2, <2>3, <3>1, <3>2 DEF Announced
    <2>6. CASE entityOf[j] = e /\ ServerApplies(s)
        <3>1. \A d \in Announced(e) : Settled(d)
            BY <2>2, AppliedIsSettled DEF Announced, JobsOf, Settled, Applied,
                InHand, Busy
        <3>2. slot[s].content = row[e]
            BY <2>1, <2>6, <3>1 DEF FreshRead, EntityAt, ServerApplies
        <3>3. QED
            BY <2>1, <2>3, <2>6, <3>2 DEF ServerApplies, EntityAt, DataTypes
    <2>7. CASE entityOf[j] = e /\ CountOp(s)
        <3>1. /\ slot[s].at = "count" /\ slot'[s].at = "finalize"
              /\ doc' = doc
            BY <1>4, <2>7, SlotActionGoes DEF CountOp, indexVars
        <3>2. \A d \in Delta : Applied(d)' <=> Applied(d)
            BY <2>1, <2>2, <3>1 DEF Applied
        <3>3. QED
            BY <1>1, <2>2, <2>3, <3>1, <3>2 DEF Announced, JobsOf
    <2>8. CASE entityOf[j] = e /\ ~ServerApplies(s) /\ ~CountOp(s)
        <3>1. slot'[s].at \notin {"count", "finalize"}
            BY <1>4, <2>3, <2>8, SlotActionGoes
        <3>2. \A t \in Slot \ {s} : Busy(t) => slot[t].job # j
            BY <2>1, <2>2 DEF SlotMoves, HandInv
        <3>3. ~Applied(j)'
            BY <2>1, <2>2, <3>1, <3>2 DEF Applied, Busy
        <3>4. QED
            BY <2>1, <2>2, <2>8, <3>3 DEF JobsOf
    <2>9. QED
        BY <2>5, <2>6, <2>7, <2>8
<1>5. ASSUME NEW r \in late, LateRequest(r) PROVE doc'[e] = row'[e]
    <2>1. r.entity \in givenUp /\ givenUp' = givenUp /\ e # r.entity
        BY <1>5 DEF DataTypes, LateRequest
    <2>2. doc'[e] = doc[e] /\ UNCHANGED <<row, connected, storeVars, slot>>
        BY <1>5, <2>1 DEF LateRequest, DataTypes, workVars
    <2>3. \A d \in Delta : Applied(d)' <=> Applied(d)
        BY <2>2 DEF Applied, storeVars
    <2>4. QED
        BY <1>1, <2>1, <2>2, <2>3 DEF Announced, JobsOf, storeVars
<1>6. CASE Snapshot \/ UNCHANGED vars
    <2>1. UNCHANGED <<storeVars, slot, row, doc, connected, givenUp>>
        BY <1>6 DEF Snapshot, vars, workVars, indexVars
    <2>2. \A d \in Delta : Applied(d)' <=> Applied(d)
        BY <2>1 DEF Applied, storeVars
    <2>3. QED
        BY <1>1, <2>1, <2>2 DEF Announced, JobsOf, storeVars
<1>7. QED
    BY <1>2, <1>3, <1>4, <1>5, <1>6, NextCases

----------------------------------------------------------------------------
(* The counts.                                                             *)

LEMMA CountStep ==
    HandInv /\ SlotShape /\ CountInv /\ [Next]_vars => CountInv'
<1> SUFFICES ASSUME HandInv, SlotShape, CountInv, [Next]_vars PROVE CountInv'
    OBVIOUS
<1>1. ASSUME counted' = counted, ~broken' => ~broken /\ Succeeded' = Succeeded
      PROVE  CountInv'
    BY <1>1 DEF CountInv, EachJobCountedOnce
<1>2. CASE WorkerAction
    BY <1>1, <1>2, WorkerStepHand DEF WorkerAction, WorkerEffect, targetVars
<1>3. ASSUME NEW s \in Slot, SlotAction(s) PROVE CountInv'
    <2>1. PICK j \in deltas : j = slot[s].job /\ j \in Delta /\ jobState[j] = "processing"
        BY <1>3, SlotActionMoves DEF SlotMoves, HandInv, InHand
    <2>2. /\ SlotMoves(s) /\ jobState' = jobState /\ broken' = broken
        BY <1>3, <2>1, SlotActionMoves DEF SlotMoves, storeVars
    <2>3. slot[s].at # "finalize"
        BY <1>3, SlotActionGoes
    <2>4. /\ j \notin Succeeded
          /\ Succeeded' = IF slot'[s].at = "finalize" THEN Succeeded \cup {j}
                                                      ELSE Succeeded
        BY <2>1, <2>2, <2>3, SlotMovesSucceeded
    <2>5. CASE slot'[s].at = "finalize"
        <3>1. counted' = [counted EXCEPT ![j] = @ + 1]
            <4>1. CASE CountOp(s)
                BY <2>1, <4>1 DEF CountOp
            <4>2. CASE SimulatorApplies(s)
                BY <2>1, <2>5, <4>2 DEF SimulatorApplies, Goto, HandInv
            <4>3. QED
                BY <1>3, <2>5, <4>1, <4>2, SlotActionGoes
        <3>2. QED
            BY <2>1, <2>2, <2>4, <2>5, <3>1 DEF CountInv, EachJobCountedOnce
    <2>6. CASE slot'[s].at # "finalize"
        <3>1. counted' = counted
            BY <1>3, <2>6, SlotActionGoes DEF SlotAction, Project, Refuse, Send,
                ServerApplies, ApplierFails, ClientGivesUp, CountOp, ProjectFails,
                SimulatorApplies, targetVars, Goto, HandInv
        <3>2. QED
            BY <1>1, <2>2, <2>4, <2>6, <3>1
    <2>7. QED
        BY <2>5, <2>6
<1>4. CASE \/ \E d \in Delta : WriterCommits(d)
           \/ \E r \in late : LateRequest(r)
           \/ Snapshot \/ UNCHANGED vars
    <2>1. UNCHANGED <<jobState, slot, broken, counted>>
        BY <1>4 DEF WriterCommits, CommitDelta, LateRequest, Snapshot, vars,
                    storeVars, workVars, targetVars
    <2>2. QED
        BY <1>1, <2>1 DEF Succeeded
<1>5. QED
    BY <1>2, <1>3, <1>4, NextCases

----------------------------------------------------------------------------
(* The counters of failures and of ghosts.                                 *)

LEMMA AttemptsKept ==
    ASSUME NEW D \in SUBSET Delta,
           \A d \in Delta : FailedAttempts(d)' = FailedAttempts(d)
    PROVE  AttemptsOf(D)' = AttemptsOf(D)
<1>1. Tried(D)' = Tried(D)
    BY DEF Tried
<1>2. QED
    BY <1>1 DEF AttemptsOf, Tried

\* A slot that goes on adds a failed attempt to those of its job.
LEMMA AttemptsGrow ==
    ASSUME HandInv, NEW s \in Slot, SlotMoves(s), ~Failing(s),
           NEW j \in Delta, j = slot[s].job, NEW D \in SUBSET Delta
    PROVE  AttemptsOf(D)' = AttemptsOf(D) + IF Failing(s)' /\ j \in D THEN 1 ELSE 0
<1>1. /\ FailedAttempts(j)' = FailedAttempts(j) + (IF Failing(s)' THEN 1 ELSE 0)
      /\ FailedAttempts(j) < MaxAttempts
      /\ \A d \in Delta \ {j} : FailedAttempts(d)' = FailedAttempts(d)
    BY SlotMovesFailed
<1>2. FailedAttempts(j) \in 0 .. MaxAttempts
    BY FailedAttemptsBound
<1>3. CASE Failing(s)' /\ j \in D
    <2> DEFINE new == <<j, FailedAttempts(j) + 1>>
    <2>1. FailedAttempts(j) + 1 \in 1 .. MaxAttempts /\ MaxAttempts \in Nat
        BY <1>1, <1>2, JobAssumption
    <2>2. new \notin Tried(D)
        BY <1>2 DEF Tried
    <2>3. ASSUME NEW d \in D, NEW a \in 1 .. MaxAttempts
          PROVE  <<d, a>> \in Tried(D)' <=> <<d, a>> \in Tried(D) \cup {new}
        <3>1. CASE d = j
            BY <1>1, <1>2, <1>3, <2>1, <3>1 DEF Tried
        <3>2. CASE d # j
            BY <1>1, <3>2 DEF Tried
        <3>3. QED
            BY <3>1, <3>2
    <2>4. /\ Tried(D)' \subseteq D \X (1 .. MaxAttempts)
          /\ Tried(D) \cup {new} \subseteq D \X (1 .. MaxAttempts)
        BY <1>3, <2>1 DEF Tried
    <2> HIDE DEF new
    <2>5. Tried(D)' = Tried(D) \cup {new}
        BY <2>3, <2>4
    <2>6. Cardinality(Tried(D) \cup {new}) = Cardinality(Tried(D)) + 1
        BY <2>2, AttemptsType, FS_AddElement
    <2>7. AttemptsOf(D)' = Cardinality(Tried(D)')
        BY DEF AttemptsOf, Tried
    <2>8. QED
        BY <1>3, <2>5, <2>6, <2>7, AttemptsType
<1>4. CASE ~Failing(s)'
    <2>1. \A d \in Delta : FailedAttempts(d)' = FailedAttempts(d)
        BY <1>1, <1>2, <1>4
    <2>2. QED
        BY <1>4, <2>1, AttemptsKept, AttemptsType
<1>5. CASE j \notin D
    <2>1. Tried(D)' = Tried(D)
        BY <1>1, <1>5 DEF Tried
    <2>2. QED
        BY <1>5, <2>1, AttemptsType DEF AttemptsOf, Tried
<1>6. QED
    BY <1>3, <1>4, <1>5

\* Where the job of the slot stands among the ghosts that were seen.
LEMMA SeenMoves ==
    ASSUME HandInv, NEW s \in Slot, SlotMoves(s), slot[s].at # "finalize",
           NEW j \in Delta, j = slot[s].job
    PROVE  LET in  == j \in JobsOf(Ghost) /\ slot[s].at \in {"guards", "sent", "count"}
               in2 == /\ j \in JobsOf(Ghost)
                      /\ slot'[s].at \in {"guards", "sent", "count", "finalize"}
           IN Cardinality(Seen)' = Cardinality(Seen) + (IF in2 THEN 1 ELSE 0)
                                                     - (IF in THEN 1 ELSE 0)
<1>1. /\ \A t \in Slot \ {s} : Busy(t) => slot[t].job # j
      /\ \A t \in Slot \ {s} : slot'[t] = slot[t]
      /\ slot'[s].job = j
    BY SlotJob DEF SlotMoves
<1>2. /\ j \notin Succeeded
      /\ Succeeded' = IF slot'[s].at = "finalize" THEN Succeeded \cup {j}
                                                  ELSE Succeeded
    BY SlotMovesSucceeded
<1>3. j \in Seen <=> j \in JobsOf(Ghost) /\ slot[s].at \in {"guards", "sent", "count"}
    BY <1>1, <1>2 DEF Seen, Busy
<1>4. j \in Seen' <=> /\ j \in JobsOf(Ghost)
                      /\ slot'[s].at \in {"guards", "sent", "count", "finalize"}
    BY <1>1, <1>2 DEF Seen, Busy, JobsOf
<1>5. Seen' \ {j} = Seen \ {j}
    BY <1>1, <1>2 DEF Seen, JobsOf
<1>6. IsFiniteSet(Seen \ {j}) /\ Cardinality(Seen \ {j}) \in Nat
    BY SeenType, FS_Difference, FS_Subset, FS_CardinalityType
<1>7. Cardinality(Seen) = Cardinality(Seen \ {j}) + (IF j \in Seen THEN 1 ELSE 0)
    <2>1. CASE j \in Seen
        <3>1. Seen = (Seen \ {j}) \cup {j} /\ j \notin Seen \ {j}
            BY <2>1
        <3>2. QED
            BY <1>6, <2>1, <3>1, FS_AddElement
    <2>2. CASE j \notin Seen
        <3>1. Seen = Seen \ {j}
            BY <2>2
        <3>2. QED
            BY <1>6, <2>2, <3>1
    <2>3. QED
        BY <2>1, <2>2
<1>8. Cardinality(Seen)' = Cardinality(Seen \ {j}) + (IF j \in Seen' THEN 1 ELSE 0)
    <2>1. CASE j \in Seen'
        <3>1. Seen' = (Seen \ {j}) \cup {j} /\ j \notin Seen \ {j}
            BY <1>5, <2>1
        <3>2. QED
            BY <1>6, <2>1, <3>1, FS_AddElement
    <2>2. CASE j \notin Seen'
        <3>1. Seen' = Seen \ {j}
            BY <1>5, <2>2
        <3>2. QED
            BY <1>6, <2>2, <3>1
    <2>3. QED
        BY <2>1, <2>2
<1>9. QED
    BY <1>3, <1>4, <1>6, <1>7, <1>8

LEMMA TallyStep ==
    HandInv /\ DataTypes /\ SlotShape /\ TallyInv /\ [Next]_vars => TallyInv'
<1> SUFFICES ASSUME HandInv, DataTypes, SlotShape, TallyInv, [Next]_vars, ~broken'
             PROVE  /\ failures' <= AttemptsOf(Delta)'
                    /\ ghosts' \in Cardinality(Seen)' ..
                          Cardinality(Seen)' + AttemptsOf(JobsOf(Ghost))'
    BY DEF TallyInv, FailuresAreAttempts, GhostsAreAttempts, Seen
<1> DEFINE J    == JobsOf(Ghost)
           fits == /\ failures <= AttemptsOf(Delta)
                   /\ ghosts \in Cardinality(Seen) .. Cardinality(Seen) + AttemptsOf(J)
<1>1. ~broken => fits
    BY DEF TallyInv, FailuresAreAttempts, GhostsAreAttempts, Seen
<1>2. /\ AttemptsOf(Delta) \in Nat /\ AttemptsOf(J) \in Nat
      /\ Cardinality(Seen) \in Nat /\ failures \in Nat /\ ghosts \in Nat
      /\ J \in SUBSET Delta /\ J' = J
    BY AttemptsType, SeenType DEF JobsOf, DataTypes
<1>3. ASSUME ~broken, UNCHANGED <<failures, ghosts>>,
             \A d \in Delta : FailedAttempts(d)' = FailedAttempts(d),
             Seen' = Seen
      PROVE  fits'
    <2>1. AttemptsOf(Delta)' = AttemptsOf(Delta) /\ AttemptsOf(J)' = AttemptsOf(J)
        BY <1>2, <1>3, AttemptsKept
    <2>2. QED
        BY <1>1, <1>3, <2>1
<1>4. CASE WorkerAction
    <2>1. /\ ~broken /\ Succeeded' = Succeeded
          /\ \A s \in Slot : \/ slot'[s] = slot[s]
                             \/ slot[s].at \in {"idle", "finalize", "fail", "reject"}
        BY <1>4, WorkerStepHand, WorkerKeepsBusy DEF WorkerAction, WorkerEffect
    <2>2. UNCHANGED <<failures, ghosts>>
        BY <1>4 DEF WorkerAction, targetVars, countVars
    <2>3. \A d \in Delta : FailedAttempts(d)' = FailedAttempts(d)
        BY <1>4, WorkerStepFailed DEF WorkerAction
    <2>4. Seen' = Seen
        <3>1. \A s \in Slot :
                 \/ slot'[s] = slot[s]
                 \/ /\ slot[s].at \notin {"guards", "sent", "count"}
                    /\ slot'[s].at \notin {"guards", "sent", "count"}
            BY <1>4, <2>1, WorkerStepHand DEF WorkerAction, WorkerEffect, Idle
        <3>2. QED
            BY <2>1, <3>1 DEF Seen, JobsOf
    <2>5. QED
        BY <1>3, <2>1, <2>2, <2>3, <2>4
<1>5. ASSUME NEW s \in Slot, SlotAction(s) PROVE fits'
    <2>1. SlotMoves(s) /\ broken' = broken
        BY <1>5, SlotActionMoves DEF SlotMoves
    <2>2. PICK j \in Delta : j = slot[s].job
        BY <2>1, SlotJob DEF SlotMoves
    <2>3. ~Failing(s) /\ slot[s].at # "finalize"
        BY <1>5, SlotActionGoes DEF Failing
    <2>4. /\ AttemptsOf(Delta)' = AttemptsOf(Delta) + IF Failing(s)' THEN 1 ELSE 0
          /\ AttemptsOf(J)' = AttemptsOf(J) + IF Failing(s)' /\ j \in J THEN 1 ELSE 0
        BY <1>2, <2>1, <2>2, <2>3, AttemptsGrow
    <2>5. Cardinality(Seen)' = Cardinality(Seen)
              + (IF j \in J /\ slot'[s].at \in {"guards", "sent", "count", "finalize"}
                 THEN 1 ELSE 0)
              - (IF j \in J /\ slot[s].at \in {"guards", "sent", "count"}
                 THEN 1 ELSE 0)
        BY <2>1, <2>2, <2>3, SeenMoves
    <2>6. failures' = failures \/ (failures' = failures + 1 /\ Failing(s)')
        <3>1. ASSUME Project(s) \/ Send(s) \/ ServerApplies(s) \/ CountOp(s)
                     \/ ProjectFails(s)
              PROVE  failures' = failures
            <4>1. CASE Project(s) \/ Send(s)
                BY <4>1 DEF Project, Send, targetVars
            <4>2. CASE ServerApplies(s) \/ CountOp(s)
                BY <4>2 DEF ServerApplies, CountOp, targetVars
            <4>3. CASE ProjectFails(s)
                BY <4>3 DEF ProjectFails, targetVars
            <4>4. QED
                BY <3>1, <4>1, <4>2, <4>3
        <3>2. \A label : Goto(s, label) => slot'[s].at = label
            BY DEF Goto, HandInv
        <3>3. CASE Refuse(s) \/ ApplierFails(s) \/ ClientGivesUp(s)
            BY <3>2, <3>3 DEF Refuse, ApplierFails, ClientGivesUp, Failing
        <3>4. CASE SimulatorApplies(s)
            <4>1. \/ failures' = failures + 1 /\ Goto(s, "fail")
                  \/ failures' = failures
                BY <3>4 DEF SimulatorApplies
            <4>2. QED
                BY <3>2, <4>1 DEF Failing
        <3>5. QED
            BY <1>5, <3>1, <3>3, <3>4 DEF SlotAction
    <2>7. fits
        BY <1>1, <2>1
    <2>8. failures' <= AttemptsOf(Delta)'
        BY <1>2, <2>4, <2>6, <2>7
    <2> HIDE DEF J
    <2>9. CASE Project(s)
        <3>1. row[EntityAt(s)] = Absent <=> j \in J
            BY <2>2, ESAssumption DEF DataTypes, EntityAt, JobsOf, J
        <3>2. /\ ghosts' = IF j \in J THEN ghosts + 1 ELSE ghosts
              /\ slot[s].at = "project"
            BY <2>9, <3>1 DEF Project
        <3>3. slot'[s].at = "guards"
            BY <2>9 DEF Project, HandInv
        <3>4. QED
            BY <1>2, <2>4, <2>5, <2>7, <2>8, <3>2, <3>3 DEF Failing
    <2>10. CASE ~Project(s)
        <3>1. ghosts' = ghosts
            BY <1>5, <2>10 DEF SlotAction, Refuse, Send, ServerApplies,
                ApplierFails, ClientGivesUp, CountOp, ProjectFails,
                SimulatorApplies, countVars
        <3>2. CASE Failing(s)'
            BY <1>2, <2>4, <2>5, <2>7, <2>8, <3>1, <3>2 DEF Failing
        <3>3. CASE ~Failing(s)'
            <4>1. /\ slot[s].at \in {"guards", "sent", "count"}
                  /\ slot'[s].at \in {"guards", "sent", "count", "finalize"}
                BY <1>5, <2>10, <3>3, SlotActionGoes DEF Failing
            <4>2. QED
                BY <1>2, <2>4, <2>5, <2>7, <2>8, <3>1, <3>3, <4>1
        <3>4. QED
            BY <3>2, <3>3
    <2>11. QED
        BY <2>9, <2>10
<1>6. CASE \/ \E d \in Delta : WriterCommits(d)
           \/ \E r \in late : LateRequest(r)
           \/ Snapshot \/ UNCHANGED vars
    <2>1. UNCHANGED <<attempts, jobState, slot, broken, failures, ghosts>>
        BY <1>6 DEF WriterCommits, CommitDelta, LateRequest, Snapshot, vars,
                    storeVars, workVars, targetVars, countVars
    <2>2. /\ \A d \in Delta : FailedAttempts(d)' = FailedAttempts(d)
          /\ Seen' = Seen
        BY <2>1 DEF FailedAttempts, Seen, Succeeded, JobsOf
    <2>3. QED
        BY <1>3, <2>1, <2>2
<1>7. fits'
    BY <1>4, <1>5, <1>6, NextCases
<1>8. QED
    BY <1>2, <1>7

----------------------------------------------------------------------------
(* The end of the run.                                                     *)

\* When the work is complete, nothing happens any more but late requests,
\* and the snapshot.
LEMMA CompleteIsStable ==
    ASSUME HandInv, SlotShape, WorkComplete, [Next]_vars
    PROVE  /\ UNCHANGED <<storeVars, workVars, row>>
           /\ givenUp' = givenUp
           /\ doc' = doc \/ \E r \in late : LateRequest(r)
<1>1. /\ deltas = Delta /\ batch = {} /\ ~broken
      /\ \A s \in Slot : ~Busy(s)
      /\ \A d \in Delta : jobState[d] \in Terminal
    BY DEF WorkComplete, BatchDone, Busy
<1>2. ASSUME NEW d \in Delta, WriterCommits(d) PROVE FALSE
    BY <1>1, <1>2 DEF WriterCommits
<1>3. CASE WorkerAction
    <2>1. PendingDeltas = {} /\ Claimable = {}
        BY <1>1 DEF PendingDeltas, Claimable, Terminal
    <2>2. ~RunOnce
        BY <2>1 DEF RunOnce
    <2>3. \A d \in Delta : ~TimePasses(d)
        BY <1>1 DEF TimePasses, LeaseExpires, BackoffElapses, Terminal
    <2>4. \A s \in Slot : ~RecordOutcome(s) /\ ~OutcomeLost(s)
        BY <1>1 DEF RecordOutcome, OutcomeLost, Busy
    <2>5. QED
        BY <1>1, <1>3, <2>2, <2>3, <2>4 DEF WorkerAction, WorkerStep
<1>4. ASSUME NEW s \in Slot, SlotAction(s) PROVE FALSE
    BY <1>1, <1>4, SlotActionMoves DEF SlotMoves
<1>5. CASE Snapshot \/ UNCHANGED vars \/ \E r \in late : LateRequest(r)
    BY <1>5 DEF Snapshot, LateRequest, vars, indexVars
<1>6. QED
    BY <1>2, <1>3, <1>4, <1>5, NextCases

\* What the page taken now shows.
LEMMA PageIsFresh ==
    ASSUME HandInv, DataTypes, FreshDoc, connected, WorkComplete,
           NEW P \in Pages, Cardinality(P) < PageSize,
           NEW e \in Entity \ givenUp, JobsOf(e) # {},
           \A d \in JobsOf(e) : jobState[d] = "synced"
    PROVE  (e \in P <=> row[e] # Absent) /\ doc[e] = row[e]
<1> DEFINE present == {k \in Entity : doc[k] # Absent}
<1>1. doc[e] = row[e]
    <2>1. deltas = Delta
        BY DEF WorkComplete
    <2>2. QED
        BY <2>1 DEF FreshDoc, Announced, Applied, JobsOf
<1>2. /\ P \subseteq present
      /\ Cardinality(P) = IF Cardinality(present) < PageSize
                          THEN Cardinality(present) ELSE PageSize
    BY DEF Pages
<1>3. IsFiniteSet(present) /\ Cardinality(present) \in Nat
    BY FS_Subset, FS_CardinalityType, ESAssumption
<1>4. Cardinality(P) = Cardinality(present)
    BY <1>2, <1>3, ESAssumption
<1>5. P = present
    BY <1>2, <1>3, <1>4, FS_Subset
<1>6. QED
    BY <1>1, <1>5

LEMMA PageStep ==
    /\ HandInv /\ DataTypes /\ SlotShape /\ FreshDoc /\ PageInv /\ [Next]_vars
    => PageInv'
<1> SUFFICES ASSUME HandInv, DataTypes, SlotShape, FreshDoc, PageInv, [Next]_vars
             PROVE  PageInv'
    OBVIOUS
<1>1. CASE Snapshot
    <2>1. /\ WorkComplete /\ connected
          /\ UNCHANGED <<storeVars, workVars, row, indexVars>>
        BY <1>1 DEF Snapshot
    <2>2. WorkComplete'
        BY <2>1 DEF WorkComplete, BatchDone, storeVars, workVars
    <2>3. PICK P \in Pages : report' = {[e \in P |-> doc[e]]}
        BY <1>1 DEF Snapshot
    <2>4. P \subseteq Entity
        BY <2>3 DEF Pages
    <2>5. ASSUME Cardinality(P) < PageSize,
                 NEW e \in Entity \ givenUp, JobsOf(e) # {},
                 \A d \in JobsOf(e) : jobState[d] = "synced"
          PROVE  (e \in P <=> row[e] # Absent) /\ doc[e] = row[e]
        BY <2>1, <2>3, <2>5, PageIsFresh
    <2>6. UNCHANGED <<row, givenUp, jobState>>
        BY <2>1 DEF indexVars, storeVars
    <2> DEFINE page == [e \in P |-> doc[e]]
    <2>7. DOMAIN page = P /\ \A e \in P : page[e] = doc[e]
        OBVIOUS
    <2>8. QED
        BY <2>2, <2>3, <2>4, <2>5, <2>6, <2>7 DEF PageInv, JobsOf
<1>2. CASE ~Snapshot
    <2>1. report' = report
        BY <1>2, NextCases DEF WriterCommits, WorkerAction, SlotAction, Project,
            Refuse, Send, ServerApplies, ApplierFails, ClientGivesUp, CountOp,
            ProjectFails, SimulatorApplies, LateRequest, vars, countVars
    <2>2. CASE report = {}
        BY <2>1, <2>2 DEF PageInv
    <2>3. CASE report # {}
        <3>1. WorkComplete
            BY <2>3 DEF PageInv
        <3>2. UNCHANGED <<storeVars, workVars, row, givenUp>>
            BY <3>1, CompleteIsStable
        <3>3. WorkComplete'
            BY <3>1, <3>2 DEF WorkComplete, BatchDone, storeVars, workVars
        <3>4. jobState' = jobState /\ row' = row /\ givenUp' = givenUp
            BY <3>2 DEF storeVars
        <3>5. QED
            BY <2>1, <3>3, <3>4 DEF PageInv, JobsOf
    <2>4. QED
        BY <2>2, <2>3
<1>3. QED
    BY <1>1, <1>2

----------------------------------------------------------------------------
(* The theorems.                                                           *)

LEMMA Inductive == Spec => []IInv
<1>1. IInv /\ [Next]_vars => IInv'
    BY HandStep, TypesStep, FreshReadStep, FreshDocStep, CountStep, TallyStep, PageStep
       DEF IInv
<1>2. QED
    BY IInit, <1>1, PTL DEF Spec

\* Every variable of the read side keeps its type.
THEOREM ESTypeCorrect == Spec => []TypeOK
<1>1. IInv => TypeOK
    <2> SUFFICES ASSUME IInv PROVE TypeOK
        OBVIOUS
    <2>1. WorkTypeOK({"guards", "sent", "count", "reject"})
        BY DEF IInv, HandInv, SlotShape, WorkTypeOK, Busy
    <2>2. \A r \in late : r.entity \in givenUp
        BY DEF IInv, DataTypes
    <2>3. QED
        BY <2>1, <2>2 DEF IInv, HandInv, DataTypes, CountInv, PageInv, TypeOK,
                          Content
<1>2. QED
    BY <1>1, Inductive, PTL

\* Of the index: a document that is not the latest row is owed, whatever the
\* slots have done side by side and in whatever order.
LEMMA FreshIsOwed == IInv => DocStaleIsOwed
<1> SUFFICES ASSUME IInv, connected, NEW e \in Entity,
                    ~Owed(JobsOf(e)), ~NeverRefreshed(e), e \notin givenUp
             PROVE  doc[e] = row[e]
    BY DEF DocStaleIsOwed
<1>1. \A d \in Announced(e) : Applied(d)
    BY DEF Owed, Announced, Applied
<1>2. \E d \in Announced(e) : Applied(d)
    BY DEF NeverRefreshed, Announced, Applied, JobsOf, IInv, HandInv
<1>3. QED
    BY <1>1, <1>2 DEF IInv, FreshDoc

\* A document is behind its row only while a job still owes the change, though
\* a slot reads the row long before its request arrives.
THEOREM DocumentsLagAtMost == Spec => []DocStaleIsOwed
    BY FreshIsOwed, Inductive, PTL

\* The target counts, and queues the fanout events of, each synced job once
\* and no other, however often it is retried and whichever slots are at work.
THEOREM CountsAreOfSyncedJobs == Spec => []EachJobCountedOnce
<1>1. IInv => EachJobCountedOnce
    BY DEF IInv, CountInv
<1>2. QED
    BY <1>1, Inductive, PTL

\* The target reports no failure that did not cost a job an attempt.
THEOREM FailuresCostAttempts == Spec => []FailuresAreAttempts
<1>1. IInv => FailuresAreAttempts
    BY DEF IInv, TallyInv
<1>2. QED
    BY <1>1, Inductive, PTL

\* The projector's ghosts are attempts at the ghost's jobs, each counted once.
THEOREM GhostsCostAttempts == Spec => []GhostsAreAttempts
<1>1. IInv => GhostsAreAttempts
    BY DEF IInv, TallyInv
<1>2. QED
    BY <1>1, Inductive, PTL

\* The snapshot of the report is Postgres as it is, for every entity whose
\* jobs all succeeded.
THEOREM SnapshotShowsPostgres == Spec => []SnapshotIsCurrent
<1>1. IInv => SnapshotIsCurrent
    BY DEF IInv, PageInv, SnapshotIsCurrent
<1>2. QED
    BY <1>1, Inductive, PTL

----------------------------------------------------------------------------
(* The index implements ReadModel.                                         *)

OwedEntities ==
    {e \in Entity : Owed(JobsOf(e)) \/ NeverRefreshed(e) \/ e \in givenUp}

LEMMA RefinedInit == Init => Consistency!Init
<1> SUFFICES ASSUME Init PROVE Consistency!Init
    OBVIOUS
<1>1. \A e \in Entity : NeverRefreshed(e)
    BY DEF Init, StoreInit, NeverRefreshed, JobsOf
<1>2. QED
    BY <1>1 DEF Consistency!Init

\* A step that settles jobs and writes nothing settles a debt rightly, for
\* the documents are fresh in the state it leads to.
LEMMA RefinedStep ==
    IInv /\ IInv' /\ connected /\ [Next]_vars => [Consistency!Next]_(Consistency!vars)
<1> SUFFICES ASSUME IInv, IInv', connected, [Next]_vars
             PROVE  Consistency!Next \/ UNCHANGED <<row, doc, OwedEntities>>
    BY DEF Consistency!vars, OwedEntities
<1> USE DEF OwedEntities
<1>1. ASSUME NEW d \in Delta, WriterCommits(d) PROVE Consistency!Change
    <2>1. /\ deltas' = deltas \cup {d} /\ jobState' = jobState
          /\ givenUp' = givenUp /\ doc' = doc
        BY <1>1 DEF WriterCommits, CommitDelta, indexVars
    <2>2. OwedEntities \subseteq OwedEntities'
        BY <2>1 DEF Owed, NeverRefreshed, JobsOf
    <2>3. entityOf[d] \in OwedEntities'
        BY <1>1, <2>1, ESAssumption
           DEF WriterCommits, Owed, JobsOf, IInv, HandInv
    <2>4. \A e \in Entity \ OwedEntities' : row'[e] = row[e]
        BY <1>1, <2>3 DEF WriterCommits, IInv, DataTypes
    <2>5. QED
        BY <2>1, <2>2, <2>4 DEF Consistency!Change, Consistency!SameExcept
<1>2. CASE WorkerAction
    <2>1. WorkerEffect /\ UNCHANGED <<row, doc, givenUp, connected>>
        BY <1>2, WorkerStepHand DEF WorkerAction, indexVars, IInv
    <2>2. OwedEntities' \subseteq OwedEntities
        BY <2>1 DEF WorkerEffect, Owed, NeverRefreshed, JobsOf
    <2>3. \A e \in OwedEntities \ OwedEntities' : doc[e] = row[e]
        <3>1. DocStaleIsOwed'
            BY FreshIsOwed, PTL
        <3>2. QED
            BY <2>1, <3>1 DEF DocStaleIsOwed, JobsOf
    <2>4. Consistency!Settle
        BY <2>1, <2>2, <2>3 DEF Consistency!Settle
    <2>5. QED
        BY <2>4 DEF Consistency!Next
<1>3. ASSUME NEW s \in Slot, SlotAction(s)
      PROVE  Consistency!Next \/ UNCHANGED <<row, doc, OwedEntities>>
    <2>1. /\ deltas' = deltas /\ jobState' = jobState /\ row' = row
          /\ givenUp \subseteq givenUp'
        <3>1. row' = row /\ givenUp \subseteq givenUp'
            BY <1>3 DEF SlotAction, Project, Refuse, Send, ServerApplies,
                ApplierFails, ClientGivesUp, CountOp, ProjectFails,
                SimulatorApplies, indexVars
        <3>2. QED
            BY <1>3, <3>1, SlotActionMoves DEF SlotMoves, IInv, storeVars
    <2>2. OwedEntities \subseteq OwedEntities'
        BY <2>1 DEF Owed, NeverRefreshed, JobsOf
    <2>3. CASE doc' = doc
        BY <2>1, <2>2, <2>3
           DEF Consistency!Next, Consistency!Change, Consistency!SameExcept
    <2>4. CASE ServerApplies(s) \/ ApplierFails(s)
        <3>1. givenUp' = givenUp /\ \A e \in Entity \ {EntityAt(s)} : doc'[e] = doc[e]
            BY <2>4 DEF ServerApplies, ApplierFails, IInv, DataTypes
        <3>2. EntityAt(s) \in OwedEntities
            BY <2>4, ESAssumption DEF ServerApplies, ApplierFails, EntityAt, IInv,
                HandInv, InHand, Busy, Owed, JobsOf
        <3>3. OwedEntities' = OwedEntities
            BY <2>1, <3>1 DEF Owed, NeverRefreshed, JobsOf
        <3>4. QED
            BY <2>1, <3>1, <3>2, <3>3
               DEF Consistency!Next, Consistency!Write, Consistency!SameExcept
    <2>5. doc' = doc \/ ServerApplies(s) \/ ApplierFails(s)
        BY <1>3 DEF SlotAction, Project, Refuse, Send, ServerApplies, ApplierFails,
             ClientGivesUp, CountOp, ProjectFails, SimulatorApplies, indexVars
    <2>6. QED
        BY <2>3, <2>4, <2>5
<1>4. ASSUME NEW r \in late, LateRequest(r) PROVE Consistency!Write
    <2>1. /\ UNCHANGED <<storeVars, row, givenUp>> /\ r.entity \in givenUp
          /\ \A e \in Entity \ {r.entity} : doc'[e] = doc[e]
        BY <1>4 DEF LateRequest, IInv, DataTypes
    <2>2. r.entity \in OwedEntities
        BY <2>1 DEF IInv, DataTypes
    <2>3. OwedEntities' = OwedEntities
        BY <2>1 DEF Owed, NeverRefreshed, JobsOf, storeVars
    <2>4. QED
        BY <2>1, <2>2, <2>3 DEF Consistency!Write, Consistency!SameExcept
<1>5. CASE Snapshot \/ UNCHANGED vars
    <2>1. UNCHANGED <<row, doc, givenUp, storeVars>>
        BY <1>5 DEF Snapshot, vars, indexVars
    <2>2. QED
        BY <2>1 DEF Owed, NeverRefreshed, JobsOf, storeVars
<1>6. QED
    BY <1>1, <1>2, <1>3, <1>4, <1>5, NextCases DEF Consistency!Next

\* With an endpoint the index is an eventually consistent copy of the rows:
\* a document is written only while it is owed, and a debt is settled only by
\* the latest version.  Without one there is no index that could promise it.
THEOREM IndexImplementsReadModel == Spec /\ connected => ImplementsReadModel
<1>1. connected /\ [Next]_vars => connected'
    BY NextCases DEF WriterCommits, WorkerAction, SlotAction, Project, Refuse,
        Send, ServerApplies, ApplierFails, ClientGivesUp, CountOp, ProjectFails,
        SimulatorApplies, LateRequest, Snapshot, vars, indexVars
<1>2. QED
    BY <1>1, RefinedInit, RefinedStep, Inductive, PTL
       DEF Spec, ImplementsReadModel, Consistency!Spec
=============================================================================
