------------------------- MODULE WriterStage_proofs -------------------------
(***************************************************************************)
(* Theorems about the writer stage, for every number of actors, every set  *)
(* of rows and every plan.                                                 *)
(*                                                                         *)
(* SInv types the variables and ties the program counters to the stage;    *)
(* DInv ties the committed deltas to the positions of the actors; OInv     *)
(* says what an actor that ended early leaves behind; LInv is the row      *)
(* lock discipline; CInv ties the count the caller keeps to the positions. *)
(* DInv rests on SInv, and each of the others on these two.                *)
(***************************************************************************)
EXTENDS WriterStage, TLAPS, FiniteSetTheorems, SequenceTheorems

----------------------------------------------------------------------------
(* Types, queues and control.                                              *)

\* The lists dealt out so far: each event dealt is in its actor's list, the
\* lists hold nothing else, and keep the order of the plan.
Queues ==
    /\ \A a \in Actor : \A k \in 1 .. Len(actorEvents[a]) :
          /\ actorEvents[a][k] \in 1 .. part
          /\ events[actorEvents[a][k]].ActorID = a
    /\ \A a \in Actor : \A j, k \in 1 .. Len(actorEvents[a]) :
          j < k => actorEvents[a][j] < actorEvents[a][k]
    /\ \A i \in 1 .. part :
          /\ events[i].ActorID \in Actor
          /\ \E k \in 1 .. Len(actorEvents[events[i].ActorID]) :
                actorEvents[events[i].ActorID][k] = i

\* While nothing has been written yet.
Fresh == stage \in {"partition", "invalid"}

AtWork == {"begin", "update", "enqueue", "commit", "reply", "ack", "return"}

Stages ==
    /\ Fresh => /\ \A a \in Actor : pc[a] = "idle" /\ pos[a] = 1
                /\ inflight = {} /\ deltas = {} /\ ~closed
    /\ ~Fresh => part = Len(events) /\ \A a \in Actor : pc[a] # "idle"
    /\ closed \/ stage \in {"ok", "failed", "stopped"}
          => \A a \in Actor : pc[a] = "done"

Position(a) ==
    /\ pc[a] \in AtWork => Remaining(a)
    /\ failed[a] => pc[a] \in {"ack", "return", "done"} /\ Remaining(a)
    /\ pc[a] = "return" => failed[a]
    /\ pc[a] = "update" => ~IsGhost(Current(a))
    /\ pos[a] <= Len(actorEvents[a]) + 1

Control == Stages /\ \A a \in Actor : Position(a)

SInv == TypeOK /\ Queues /\ Control

\* What the elements of a plan look like.
LEMMA PlanType ==
    ASSUME events \in Plans
    PROVE  /\ events \in Seq(Mutation)
           /\ Len(events) \in Nat
           /\ \A i \in Event : /\ events[i].ActorID \in Nat
                               /\ ~IsGhost(i) => events[i].EntityID \in Row
<1>1. events \in Seq(Mutation)
    BY WriterAssumption
<1>2. ASSUME NEW i \in Event
      PROVE  /\ events[i].ActorID \in Nat
             /\ ~IsGhost(i) => events[i].EntityID \in Row
    <2>1. events[i] \in Mutation
        BY <1>1 DEF Event
    <2>2. QED
        BY <2>1 DEF Mutation, IsGhost
<1>3. QED
    BY <1>1, <1>2

LEMMA SInit == Init => SInv
<1> SUFFICES ASSUME Init PROVE SInv
    OBVIOUS
<1>1. events \in Seq(Mutation) /\ Len(events) \in Nat
    BY PlanType DEF Init
<1>2. TypeOK
    <2>1. <<>> \in Seq(Event)
        OBVIOUS
    <2>2. actorEvents \in [Actor -> Seq(Event)]
        BY <2>1 DEF Init
    <2>3. /\ pc \in [Actor -> PCs] /\ pos \in [Actor -> Nat \ {0}]
          /\ failed \in [Actor -> BOOLEAN] /\ staged \in [Actor -> Nat]
          /\ version \in [Row -> Nat]
        BY DEF Init, PCs
    <2>4. /\ part \in 0 .. Len(events) /\ firstFailure \in 0 .. Len(events)
          /\ inflight \subseteq Event /\ deltas \subseteq Event
        BY <1>1 DEF Init
    <2>5. QED
        BY <2>2, <2>3, <2>4 DEF Init, TypeOK
<1>3. Queues
    BY DEF Init, Queues
<1>4. Control
    BY DEF Init, Control, Stages, Position, Fresh, AtWork, Remaining
<1>5. QED
    BY <1>2, <1>3, <1>4 DEF SInv

LEMMA QueueStep == SInv /\ [Next]_vars => Queues'
<1> SUFFICES ASSUME SInv, [Next]_vars PROVE Queues'
    OBVIOUS
<1>0. /\ events \in Plans /\ part \in Nat
      /\ actorEvents \in [Actor -> Seq(Event)]
    BY PlanType DEF SInv, TypeOK
<1>1. CASE UNCHANGED <<events, part, actorEvents>>
    BY <1>1 DEF SInv, Queues, Actor
<1>2. CASE PartitionEvent
    <2> DEFINE id == events[part + 1].ActorID
    <2>1. CASE id \notin Actor
        BY <1>1, <1>2, <2>1 DEF PartitionEvent
    <2>2. CASE id \in Actor
        <3>1. /\ events' = events /\ part' = part + 1
              /\ \A a \in Actor : a # id => actorEvents'[a] = actorEvents[a]
              /\ actorEvents'[id] = Append(actorEvents[id], part + 1)
            BY <1>0, <1>2, <2>2 DEF PartitionEvent
        <3> DEFINE n == Len(actorEvents[id])
        <3>2. /\ n \in Nat
              /\ Len(actorEvents'[id]) = n + 1
              /\ \A k \in 1 .. n : actorEvents'[id][k] = actorEvents[id][k]
              /\ actorEvents'[id][n + 1] = part + 1
            BY <1>0, <2>2, <3>1
        <3> HIDE DEF n
        <3>3. \A a \in Actor : \A k \in 1 .. Len(actorEvents[a]) :
                 /\ actorEvents[a][k] \in 1 .. part
                 /\ events[actorEvents[a][k]].ActorID = a
            BY DEF SInv, Queues
        <3>4. ASSUME NEW a \in Actor, NEW k \in 1 .. Len(actorEvents'[a])
              PROVE  /\ actorEvents'[a][k] \in 1 .. part + 1
                     /\ events[actorEvents'[a][k]].ActorID = a
            <4>1. CASE a # id
                BY <1>0, <3>1, <3>3, <4>1
            <4>2. CASE a = id /\ k = n + 1
                BY <1>0, <3>2, <4>2
            <4>3. CASE a = id /\ k \in 1 .. n
                BY <1>0, <3>2, <3>3, <4>3 DEF n
            <4>4. QED
                BY <3>2, <4>1, <4>2, <4>3
        <3>5. ASSUME NEW a \in Actor, NEW j \in 1 .. Len(actorEvents'[a]),
                     NEW k \in 1 .. Len(actorEvents'[a]), j < k
              PROVE  actorEvents'[a][j] < actorEvents'[a][k]
            <4>1. CASE a # id
                BY <3>1, <3>5, <4>1 DEF SInv, Queues
            <4>2. CASE a = id /\ k \in 1 .. n
                BY <3>2, <3>5, <4>2 DEF SInv, Queues, n
            <4>3. CASE a = id /\ k = n + 1
                <5>1. j \in 1 .. n
                    BY <3>2, <3>5, <4>3
                <5>2. actorEvents'[a][j] \in 1 .. part
                    BY <3>2, <3>3, <4>3, <5>1 DEF n
                <5>3. QED
                    BY <1>0, <3>2, <4>3, <5>2
            <4>4. QED
                BY <3>2, <4>1, <4>2, <4>3
        <3>6. ASSUME NEW i \in 1 .. part + 1
              PROVE  /\ events[i].ActorID \in Actor
                     /\ \E k \in 1 .. Len(actorEvents'[events[i].ActorID]) :
                           actorEvents'[events[i].ActorID][k] = i
            <4>1. CASE i = part + 1
                BY <2>2, <3>2, <4>1
            <4>2. CASE i \in 1 .. part
                <5>1. events[i].ActorID \in Actor
                    BY <4>2 DEF SInv, Queues
                <5>2. PICK k \in 1 .. Len(actorEvents[events[i].ActorID]) :
                         actorEvents[events[i].ActorID][k] = i
                    BY <4>2 DEF SInv, Queues
                <5>3. CASE events[i].ActorID = id
                    BY <3>2, <5>1, <5>2, <5>3 DEF n
                <5>4. CASE events[i].ActorID # id
                    BY <3>1, <5>1, <5>2, <5>4
                <5>5. QED
                    BY <5>3, <5>4
            <4>3. QED
                BY <1>0, <4>1, <4>2
        <3>7. QED
            BY <3>1, <3>4, <3>5, <3>6 DEF Queues, Actor
    <2>3. QED
        BY <2>1, <2>2
<1>3. ASSUME NEW a \in Actor, ActorStep(a) \/ DBError(a)
      PROVE  UNCHANGED <<events, part, actorEvents>>
    BY <1>3 DEF ActorStep, NextEvent, BeginTx, ApplyMutation, EnqueueInTx,
                SendCommit, CommitReturns, CtxError, DBError, Fail, SendAck,
                CancelAndReturn, mainVars
<1>4. ASSUME NEW i \in inflight, Settle(i)
      PROVE  UNCHANGED <<events, part, actorEvents>>
    BY <1>4 DEF Settle, ServerCommits, ServerAborts, mainVars
<1>5. CASE StartActors \/ CloseAcks \/ FinishStage
    BY <1>1, <1>5 DEF StartActors, CloseAcks, FinishStage
<1>6. CASE CtxDone \/ Stopped \/ UNCHANGED vars
    BY <1>1, <1>6 DEF CtxDone, Stopped, vars, mainVars
<1>7. QED
    BY <1>1, <1>2, <1>3, <1>4, <1>5, <1>6 DEF Next, Caller

\* An actor's current event is one of the plan's, and its own.
LEMMA CurrentEvent ==
    ASSUME SInv, NEW a \in Actor, Remaining(a)
    PROVE  /\ pos[a] \in 1 .. Len(actorEvents[a])
           /\ Current(a) \in Event /\ Current(a) \in Nat \ {0}
           /\ events[Current(a)].ActorID = a
<1>1. /\ pos[a] \in Nat \ {0} /\ actorEvents[a] \in Seq(Event)
      /\ Len(events) \in Nat
    BY PlanType DEF SInv, TypeOK
<1>2. pos[a] \in 1 .. Len(actorEvents[a])
    BY <1>1 DEF Remaining
<1>3. Current(a) \in Event
    BY <1>1, <1>2 DEF Current
<1>4. events[Current(a)].ActorID = a
    BY <1>2 DEF SInv, Queues, Current
<1>5. QED
    BY <1>1, <1>2, <1>3, <1>4 DEF Event

\* A COMMIT at the server belongs to an actor of the stage.
LEMMA InflightActor ==
    ASSUME SInv, NEW i \in inflight
    PROVE  /\ i \in Event /\ events[i].ActorID \in Actor /\ ~Fresh
<1>1. ~Fresh /\ part = Len(events) /\ i \in Event
    BY DEF SInv, Control, Stages, TypeOK
<1>2. QED
    BY <1>1 DEF SInv, Queues, Event

LEMMA TypeStep == SInv /\ [Next]_vars => TypeOK'
<1> SUFFICES ASSUME SInv, [Next]_vars PROVE TypeOK'
    OBVIOUS
<1> USE DEF mainVars, dbVars, ctxVars, ackVars
<1>0. TypeOK /\ events \in Seq(Mutation) /\ Len(events) \in Nat
    BY PlanType DEF SInv, TypeOK
<1>1. CASE PartitionEvent
    <2>1. part + 1 \in Event /\ part + 1 \in 0 .. Len(events)
        BY <1>0, <1>1 DEF PartitionEvent, TypeOK, Event
    <2>2. actorEvents' \in [Actor -> Seq(Event)]
        <3>1. CASE events[part + 1].ActorID \in Actor
            <4>1. Append(actorEvents[events[part + 1].ActorID], part + 1)
                     \in Seq(Event)
                BY <1>0, <2>1, <3>1 DEF TypeOK
            <4>2. QED
                BY <1>0, <1>1, <3>1, <4>1 DEF PartitionEvent, TypeOK
        <3>2. QED
            BY <1>0, <1>1, <3>1 DEF PartitionEvent, TypeOK
    <2>3. /\ part' \in 0 .. Len(events) /\ stage' \in {stage, "invalid"}
          /\ UNCHANGED <<events, closed, pc, pos, failed, staged, dbVars,
                         ctxVars, ackVars>>
        BY <1>0, <1>1, <2>1 DEF PartitionEvent, TypeOK
    <2>4. QED
        BY <1>0, <2>2, <2>3 DEF TypeOK, Event, Returned, Actor
<1>2. CASE StartActors
    BY <1>0, <1>2 DEF StartActors, TypeOK, Event, PCs, Actor
<1>3. ASSUME NEW a \in Actor, ActorStep(a) \/ DBError(a) PROVE TypeOK'
    <2>1. CASE NextEvent(a) \/ BeginTx(a) \/ EnqueueInTx(a) \/ CommitReturns(a)
        BY <1>0, <2>1 DEF NextEvent, BeginTx, EnqueueInTx, CommitReturns,
                          TypeOK, Event, PCs, Actor
    <2>2. CASE ApplyMutation(a)
        <3>1. events[Current(a)].EntityID \in Row
            BY <2>2, CurrentEvent, PlanType
               DEF ApplyMutation, SInv, Control, Position, AtWork, TypeOK
        <3>2. staged' \in [Actor -> Nat]
            BY <1>0, <2>2, <3>1 DEF ApplyMutation, TypeOK
        <3>3. QED
            BY <1>0, <2>2, <3>2 DEF ApplyMutation, TypeOK, Event, PCs, Actor
    <2>3. CASE SendCommit(a)
        <3>1. Current(a) \in Event
            BY <2>3, CurrentEvent
               DEF SendCommit, SInv, Control, Position, AtWork
        <3>2. QED
            BY <1>0, <2>3, <3>1 DEF SendCommit, TypeOK, Event, PCs, Actor
    <2>4. CASE CtxError(a) \/ DBError(a)
        BY <1>0, <2>4 DEF CtxError, DBError, Fail, TypeOK, Event, PCs, Actor
    <2>5. CASE SendAck(a)
        <3>1. Current(a) \in Event
            BY <2>5, CurrentEvent DEF SendAck, SInv, Control, Position, AtWork
        <3>2. /\ pc' \in [Actor -> PCs] /\ pos' \in [Actor -> Nat \ {0}]
            <4>1. CASE failed[a]
                BY <1>0, <2>5, <4>1 DEF SendAck, AfterAck, TypeOK, PCs
            <4>2. CASE ~failed[a]
                <5>1. pos[a] + 1 \in Nat \ {0}
                    BY <1>0 DEF TypeOK
                <5>2. QED
                    BY <1>0, <2>5, <4>2, <5>1
                       DEF SendAck, AfterAck, TypeOK, PCs
            <4>3. QED
                BY <4>1, <4>2
        <3>3. /\ enqueued' \in Nat /\ cancelled' \in BOOLEAN
              /\ firstFailure' \in 0 .. Len(events)
            <4>1. CASE failed[a]
                BY <1>0, <2>5, <3>1, <4>1 DEF SendAck, CountAck, TypeOK, Event
            <4>2. CASE ~failed[a]
                BY <1>0, <2>5, <4>2 DEF SendAck, CountAck, TypeOK
            <4>3. QED
                BY <4>1, <4>2
        <3>4. QED
            BY <1>0, <2>5, <3>2, <3>3 DEF SendAck, TypeOK, Event, Actor
    <2>6. CASE CancelAndReturn(a)
        BY <1>0, <2>6 DEF CancelAndReturn, TypeOK, Event, PCs, Actor
    <2>7. QED
        BY <1>3, <2>1, <2>2, <2>3, <2>4, <2>5, <2>6 DEF ActorStep
<1>4. ASSUME NEW i \in inflight, Settle(i) PROVE TypeOK'
    <2>1. i \in Event /\ events[i].ActorID \in Actor
        BY InflightActor
    <2>2. CASE ServerCommits(i)
        <3>1. version' \in [Row -> Nat]
            BY <1>0, <2>1, <2>2, PlanType
               DEF ServerCommits, Publish, TypeOK
        <3>2. QED
            BY <1>0, <2>1, <2>2, <3>1
               DEF ServerCommits, Publish, TypeOK, Event, Actor
    <2>3. CASE ServerAborts(i)
        <3>1. pc' \in [Actor -> PCs] /\ failed' \in [Actor -> BOOLEAN]
            BY <1>0, <2>1, <2>3 DEF ServerAborts, TypeOK, PCs
        <3>2. QED
            BY <1>0, <2>3, <3>1 DEF ServerAborts, TypeOK, Event, Actor
    <2>4. QED
        BY <1>4, <2>2, <2>3 DEF Settle
<1>5. CASE CtxDone \/ CloseAcks
    BY <1>0, <1>5 DEF CtxDone, CloseAcks, TypeOK, Event, Actor
<1>6. CASE FinishStage
    BY <1>0, <1>6 DEF FinishStage, Outcome, TypeOK, Event, Returned, Actor
<1>7. CASE Stopped \/ UNCHANGED vars
    BY <1>0, <1>7 DEF Stopped, vars, TypeOK, Event, Actor
<1>8. QED
    BY <1>1, <1>2, <1>3, <1>4, <1>5, <1>6, <1>7 DEF Next, Caller

\* A step of a running goroutine concerns that goroutine alone.
LEMMA OneActorMoves ==
    ASSUME SInv, NEW a \in Actor, pc[a] \notin {"idle", "done"},
           NEW l \in PCs \ {"idle"}, pc' = [pc EXCEPT ![a] = l],
           UNCHANGED mainVars,
           \A b \in Actor \ {a} : pos'[b] = pos[b] /\ failed'[b] = failed[b],
           Position(a)'
    PROVE  Control'
<1>0. /\ pc \in [Actor -> PCs] /\ Stages
      /\ \A b \in Actor : Position(b)
    BY DEF SInv, TypeOK, Control
<1>1. Stages'
    BY <1>0 DEF Stages, Fresh, mainVars, Actor
<1>2. ASSUME NEW b \in Actor, b # a PROVE Position(b)'
    <2>1. Position(b)
        BY <1>0
    <2>2. /\ pc'[b] = pc[b] /\ pos'[b] = pos[b] /\ failed'[b] = failed[b]
          /\ events' = events /\ actorEvents' = actorEvents
        BY <1>0, <1>2 DEF mainVars
    <2>3. QED
        BY <2>1, <2>2 DEF Position, Remaining, Current, IsGhost
<1>3. QED
    BY <1>1, <1>2 DEF Control, Actor

LEMMA ControlStep == SInv /\ [Next]_vars => Control'
<1> SUFFICES ASSUME SInv, [Next]_vars PROVE Control'
    OBVIOUS
<1> USE DEF mainVars, dbVars, ctxVars, ackVars
<1>0. /\ pc \in [Actor -> PCs] /\ pos \in [Actor -> Nat \ {0}]
      /\ failed \in [Actor -> BOOLEAN]
      /\ stage \in {"partition", "running"} \cup Returned
      /\ Stages /\ \A a \in Actor : Position(a)
      /\ \A a \in Actor : Len(actorEvents[a]) \in Nat
    BY DEF SInv, TypeOK, Control
<1>1. CASE PartitionEvent
    <2>1. \A a \in Actor : pc[a] = "idle" /\ pos[a] = 1 /\ ~failed[a]
        BY <1>0, <1>1 DEF PartitionEvent, Stages, Fresh, Position
    <2>2. \A a \in Actor : Len(actorEvents'[a]) \in Nat
        BY TypeStep DEF TypeOK, Actor
    <2>3. \A a \in Actor : Position(a)'
        BY <1>1, <2>1, <2>2 DEF PartitionEvent, Position, AtWork
    <2>4. Stages'
        BY <1>0, <1>1, <2>1 DEF PartitionEvent, Stages, Fresh, Actor
    <2>5. QED
        BY <2>3, <2>4 DEF Control, Actor
<1>2. CASE StartActors
    <2>1. \A a \in Actor : Position(a)'
        BY <1>0, <1>2 DEF StartActors, Position, AtWork, Remaining, Stages,
                          Fresh
    <2>2. Stages'
        BY <1>0, <1>2 DEF StartActors, Stages, Fresh, Actor
    <2>3. QED
        BY <2>1, <2>2 DEF Control, Actor
<1>3. ASSUME NEW a \in Actor, ActorStep(a) \/ DBError(a) PROVE Control'
    <2> USE DEF PCs
    <2>0. Position(a)
        BY <1>0
    <2>1. CASE NextEvent(a)
        <3>1. Position(a)'
            BY <1>0, <2>0, <2>1
               DEF NextEvent, Position, AtWork, Remaining, Current, IsGhost
        <3>2. QED
            BY <2>1, <3>1, OneActorMoves DEF NextEvent
    <2>2. CASE BeginTx(a)
        <3>1. Position(a)'
            BY <1>0, <2>0, <2>2
               DEF BeginTx, Position, AtWork, Remaining, Current, IsGhost
        <3>2. QED
            BY <2>2, <3>1, OneActorMoves DEF BeginTx
    <2>3. CASE ApplyMutation(a)
        <3>1. Position(a)'
            BY <1>0, <2>0, <2>3
               DEF ApplyMutation, Position, AtWork, Remaining
        <3>2. QED
            BY <2>3, <3>1, OneActorMoves DEF ApplyMutation
    <2>4. CASE EnqueueInTx(a)
        <3>1. Position(a)'
            BY <1>0, <2>0, <2>4 DEF EnqueueInTx, Position, AtWork, Remaining
        <3>2. QED
            BY <2>4, <3>1, OneActorMoves DEF EnqueueInTx
    <2>5. CASE SendCommit(a) \/ CommitReturns(a)
        <3>1. Position(a)'
            BY <1>0, <2>0, <2>5
               DEF SendCommit, CommitReturns, Position, AtWork, Remaining
        <3>2. QED
            BY <2>5, <3>1, OneActorMoves DEF SendCommit, CommitReturns
    <2>6. CASE CtxError(a) \/ DBError(a)
        <3>1. pc[a] \in {"begin", "update", "enqueue", "commit", "reply"}
              /\ Fail(a)
            BY <2>6 DEF CtxError, DBError
        <3>2. Position(a)'
            BY <1>0, <2>0, <3>1 DEF Fail, Position, AtWork, Remaining
        <3>3. QED
            BY <1>0, <3>1, <3>2, OneActorMoves DEF Fail
    <2>7. CASE SendAck(a)
        <3>1. Position(a)'
            BY <1>0, <2>0, <2>7
               DEF SendAck, AfterAck, Position, AtWork, Remaining
        <3>2. \A b \in Actor \ {a} : pos'[b] = pos[b] /\ failed'[b] = failed[b]
            BY <1>0, <2>7 DEF SendAck, AfterAck
        <3>3. CASE failed[a]
            BY <2>7, <3>1, <3>2, <3>3, OneActorMoves DEF SendAck, AfterAck
        <3>4. CASE ~failed[a]
            BY <2>7, <3>1, <3>2, <3>4, OneActorMoves DEF SendAck, AfterAck
        <3>5. QED
            BY <3>3, <3>4
    <2>8. CASE CancelAndReturn(a)
        <3>1. Position(a)'
            BY <1>0, <2>0, <2>8 DEF CancelAndReturn, Position, AtWork, Remaining
        <3>2. QED
            BY <2>8, <3>1, OneActorMoves DEF CancelAndReturn
    <2>9. QED
        BY <1>3, <2>1, <2>2, <2>3, <2>4, <2>5, <2>6, <2>7, <2>8 DEF ActorStep
<1>4. ASSUME NEW i \in inflight, Settle(i) PROVE Control'
    <2>0. ~Fresh
        BY InflightActor
    <2>1. PICK a \in Actor : a = events[i].ActorID
        BY InflightActor
    <2>2. CASE UNCHANGED <<mainVars, pc, pos, failed>>
        <3>1. Stages'
            BY <1>0, <2>0, <2>2 DEF Stages, Fresh, Actor
        <3>2. \A b \in Actor : Position(b)'
            BY <1>0, <2>2 DEF Position, Remaining, Current, IsGhost
        <3>3. QED
            BY <3>1, <3>2 DEF Control, Actor
    <2>3. CASE /\ pc[a] = "reply" /\ Current(a) = i
               /\ pc' = [pc EXCEPT ![a] = "ack"]
               /\ failed' = [failed EXCEPT ![a] = TRUE]
               /\ UNCHANGED <<mainVars, pos>>
        <3>1. Position(a)'
            BY <1>0, <2>1, <2>3 DEF Position, AtWork, Remaining
        <3>2. "ack" \in PCs \ {"idle"} /\ pc[a] \notin {"idle", "done"}
            BY <2>3 DEF PCs
        <3>3. \A b \in Actor \ {a} : pos'[b] = pos[b] /\ failed'[b] = failed[b]
            BY <1>0, <2>1, <2>3
        <3>4. QED
            BY <2>1, <2>3, <3>1, <3>2, <3>3, OneActorMoves
    <2>4. QED
        BY <1>4, <2>1, <2>2, <2>3 DEF Settle, ServerCommits, ServerAborts
<1>5. CASE CtxDone \/ CloseAcks \/ FinishStage
    <2>1. Stages'
        <3>0. CASE CtxDone
            BY <1>0, <3>0 DEF CtxDone, Stages, Fresh, Actor
        <3>1. CASE CloseAcks
            <4>1. /\ stage' = "running" /\ part' = Len(events')
                  /\ \A b \in Actor : pc'[b] = "done"
                BY <1>0, <3>1 DEF CloseAcks, AllActorsDone, Stages, Fresh
            <4>2. QED
                BY <4>1 DEF Stages, Fresh, Actor
        <3>2. CASE FinishStage
            <4>1. /\ \A b \in Actor : pc'[b] = "done"
                  /\ stage' \notin {"partition", "invalid"}
                  /\ part' = Len(events')
                BY <1>0, <3>2 DEF FinishStage, AcksDrained, Outcome, Stages,
                                  Fresh
            <4>2. QED
                BY <4>1 DEF Stages, Fresh, Actor
        <3>3. QED
            BY <1>5, <3>0, <3>1, <3>2
    <2>2. \A b \in Actor : Position(b)'
        BY <1>0, <1>5 DEF CtxDone, CloseAcks, FinishStage, Position, Remaining,
                          Current, IsGhost
    <2>3. QED
        BY <2>1, <2>2 DEF Control, Actor
<1>6. CASE Stopped \/ UNCHANGED vars
    <2>1. UNCHANGED vars
        BY <1>6 DEF Stopped
    <2>2. Stages'
        BY <1>0, <2>1 DEF vars, Stages, Fresh, Actor
    <2>3. \A b \in Actor : Position(b)'
        BY <1>0, <2>1 DEF vars, Position, Remaining, Current, IsGhost
    <2>4. QED
        BY <2>2, <2>3 DEF Control, Actor
<1>7. QED
    BY <1>1, <1>2, <1>3, <1>4, <1>5, <1>6 DEF Next, Caller

LEMMA SStep == SInv /\ [Next]_vars => SInv'
BY TypeStep, QueueStep, ControlStep DEF SInv

\* Every variable of the writer stage keeps its type, whatever the plan.
THEOREM WriterTypeCorrect == Spec => []TypeOK
<1>1. SInv => TypeOK
    BY DEF SInv
<1>2. QED
    BY <1>1, SInit, SStep, PTL DEF Spec

\* When runWriters has returned, every goroutine it started has ended.
THEOREM WriterNobodyLeftBehind == Spec => []NoWriterLeftBehind
<1>1. SInv => NoWriterLeftBehind
    BY DEF SInv, Control, Stages, Fresh, NoWriterLeftBehind, Returned
<1>2. QED
    BY <1>1, SInit, SStep, PTL DEF Spec

----------------------------------------------------------------------------
(* Committed deltas and positions.                                         *)

AfterCommit == {"reply", "ack", "return", "done"}

\* What the deltas say of actor a: the events it has got past are committed;
\* beyond them only its current one can be, once COMMIT was sent; a success
\* it acknowledges is committed; and a COMMIT of its own still at the server
\* is that of its current event, which it waits for or has given up.
Progress(a) ==
    /\ Past(a) \subseteq deltas
    /\ \A i \in deltas : events[i].ActorID = a =>
          i \in Past(a)
             \/ (Remaining(a) /\ Current(a) = i /\ pc[a] \in AfterCommit)
    /\ pc[a] = "ack" /\ ~failed[a] => Current(a) \in deltas
    /\ \A i \in inflight : events[i].ActorID = a =>
          /\ Remaining(a) /\ Current(a) = i
          /\ i \notin deltas
          /\ pc[a] = "reply" \/ failed[a]

DInv == \A a \in Actor : Progress(a)

LEMMA CurrentNotPast ==
    ASSUME SInv, NEW a \in Actor, Remaining(a)
    PROVE  Current(a) \notin Past(a)
<1>1. pos[a] \in 1 .. Len(actorEvents[a]) /\ Len(actorEvents[a]) \in Nat
    BY CurrentEvent DEF SInv, TypeOK
<1>2. ASSUME NEW k \in 1 .. pos[a] - 1
      PROVE  actorEvents[a][k] < Current(a)
    BY <1>1 DEF SInv, Queues, Current
<1>3. ASSUME NEW k \in 1 .. pos[a] - 1
      PROVE  actorEvents[a][k] \in Nat
    <2>1. k \in 1 .. Len(actorEvents[a])
        BY <1>1
    <2>2. QED
        BY <2>1, PlanType DEF SInv, TypeOK, Queues
<1>4. \A k \in 1 .. pos[a] - 1 : actorEvents[a][k] # Current(a)
    BY <1>2, <1>3, CurrentEvent
<1>5. QED
    BY <1>4 DEF Past

LEMMA SamePlace ==
    ASSUME NEW a \in Actor, UNCHANGED <<actorEvents, pos>>
    PROVE  /\ Past(a)' = Past(a)
           /\ Remaining(a)' = Remaining(a) /\ Current(a)' = Current(a)
BY DEF Past, Remaining, Current

LEMMA DInit == Init => DInv
BY DEF Init, DInv, Progress, Past

\* What a step of actor a leaves alone.
LEMMA OthersProgress ==
    ASSUME DInv, NEW a \in Actor, NEW b \in Actor, b # a,
           UNCHANGED <<events, actorEvents>>,
           pc'[b] = pc[b], pos'[b] = pos[b], failed'[b] = failed[b],
           \A i \in deltas' \ deltas : events[i].ActorID = a,
           \A i \in inflight' \ inflight : events[i].ActorID = a,
           deltas \subseteq deltas'
    PROVE  Progress(b)'
<1>1. Progress(b)
    BY DEF DInv
<1>2. Past(b)' = Past(b) /\ Remaining(b)' = Remaining(b) /\ Current(b)' = Current(b)
    BY DEF Past, Remaining, Current
<1>3. QED
    BY <1>1, <1>2 DEF Progress

LEMMA DStep == SInv /\ DInv /\ [Next]_vars => DInv'
<1> SUFFICES ASSUME SInv, DInv, [Next]_vars PROVE DInv'
    OBVIOUS
<1> USE DEF mainVars, dbVars, ctxVars, ackVars
<1>0. /\ pc \in [Actor -> PCs] /\ pos \in [Actor -> Nat \ {0}]
      /\ failed \in [Actor -> BOOLEAN]
      /\ Stages /\ \A a \in Actor : Position(a)
    BY DEF SInv, TypeOK, Control
<1>1. CASE PartitionEvent \/ StartActors
    <2>1. /\ deltas' = {} /\ inflight' = {}
          /\ \A a \in Actor : pos'[a] = 1 /\ pc'[a] # "ack"
        BY <1>0, <1>1 DEF PartitionEvent, StartActors, Stages, Fresh
    <2>2. QED
        BY <2>1 DEF DInv, Progress, Past, Actor
<1>2. ASSUME NEW a \in Actor, ActorStep(a) \/ DBError(a) PROVE DInv'
    <2>0. Progress(a) /\ Position(a)
        BY <1>0 DEF DInv
    <2>1. \A b \in Actor \ {a} : Progress(b)'
        <3>1. ASSUME NEW b \in Actor \ {a}
              PROVE  /\ UNCHANGED <<events, actorEvents, deltas>>
                     /\ pc'[b] = pc[b] /\ pos'[b] = pos[b]
                     /\ failed'[b] = failed[b]
                     /\ inflight' \subseteq inflight \cup {Current(a)}
                     /\ Current(a) \in inflight' \ inflight => pc[a] = "commit"
            <4>1. CASE \/ NextEvent(a) \/ BeginTx(a) \/ ApplyMutation(a)
                       \/ EnqueueInTx(a) \/ CommitReturns(a)
                       \/ CancelAndReturn(a)
                BY <1>0, <4>1 DEF NextEvent, BeginTx, ApplyMutation,
                       EnqueueInTx, CommitReturns, CancelAndReturn
            <4>2. CASE SendCommit(a)
                BY <1>0, <4>2 DEF SendCommit
            <4>3. CASE CtxError(a) \/ DBError(a)
                BY <1>0, <4>3 DEF CtxError, DBError, Fail
            <4>4. CASE SendAck(a)
                BY <1>0, <4>4 DEF SendAck, AfterAck
            <4>5. QED
                BY <1>2, <4>1, <4>2, <4>3, <4>4 DEF ActorStep
        <3>2. pc[a] = "commit" => events[Current(a)].ActorID = a
            BY <2>0, CurrentEvent DEF Position, AtWork
        <3>3. QED
            BY <3>1, <3>2, OthersProgress
    <2>2. ASSUME \/ NextEvent(a) \/ BeginTx(a) \/ ApplyMutation(a)
                 \/ EnqueueInTx(a)
          PROVE  Progress(a)'
        <3>1. /\ pc[a] \in {"check", "begin", "update", "enqueue"}
              /\ pc'[a] # "ack"
              /\ UNCHANGED <<events, actorEvents, pos, failed, deltas, inflight>>
            BY <1>0, <2>2 DEF NextEvent, BeginTx, ApplyMutation, EnqueueInTx
        <3>2. QED
            BY <2>0, <3>1, SamePlace DEF Progress, Position, AfterCommit
    <2>3. ASSUME SendCommit(a) PROVE Progress(a)'
        <3>1. Remaining(a) /\ ~failed[a]
            BY <2>0, <2>3 DEF SendCommit, Position, AtWork
        <3>2. Current(a) \notin Past(a) /\ events[Current(a)].ActorID = a
            BY <3>1, CurrentNotPast, CurrentEvent
        <3>3. Current(a) \notin deltas
            BY <2>0, <2>3, <3>2 DEF SendCommit, Progress, AfterCommit
        <3>4. \A i \in inflight : events[i].ActorID # a
            BY <2>0, <2>3, <3>1 DEF SendCommit, Progress
        <3>5. /\ pc'[a] = "reply" /\ inflight' = inflight \cup {Current(a)}
              /\ UNCHANGED <<events, actorEvents, pos, deltas>>
              /\ pc[a] \notin AfterCommit
            BY <1>0, <2>3 DEF SendCommit, AfterCommit
        <3>6. QED
            BY <2>0, <3>1, <3>3, <3>4, <3>5, SamePlace DEF Progress
    <2>4. ASSUME CommitReturns(a) PROVE Progress(a)'
        <3>1. /\ pc[a] = "reply" /\ pc'[a] = "ack" /\ Current(a) \in deltas
              /\ UNCHANGED <<events, actorEvents, pos, failed, deltas, inflight>>
            BY <1>0, <2>4 DEF CommitReturns
        <3>2. QED
            BY <2>0, <3>1, SamePlace DEF Progress, AfterCommit
    <2>5. ASSUME CtxError(a) \/ DBError(a) PROVE Progress(a)'
        <3>1. /\ pc'[a] = "ack" /\ failed'[a]
              /\ UNCHANGED <<events, actorEvents, pos, deltas, inflight>>
            BY <1>0, <2>5 DEF CtxError, DBError, Fail
        <3>2. QED
            BY <2>0, <3>1, SamePlace DEF Progress, AfterCommit
    <2>6. ASSUME SendAck(a) /\ failed[a] PROVE Progress(a)'
        <3>1. /\ pc[a] = "ack" /\ pc'[a] = "return"
              /\ UNCHANGED <<events, actorEvents, pos, failed, deltas, inflight>>
            BY <1>0, <2>6 DEF SendAck, AfterAck
        <3>2. QED
            BY <2>0, <2>6, <3>1, SamePlace DEF Progress, AfterCommit
    <2>7. ASSUME SendAck(a) /\ ~failed[a] PROVE Progress(a)'
        <3>1. /\ pc[a] = "ack" /\ pc'[a] = "check"
              /\ pos'[a] = pos[a] + 1
              /\ UNCHANGED <<events, actorEvents, failed, deltas, inflight>>
            BY <1>0, <2>7 DEF SendAck, AfterAck
        <3>2. Past(a)' = Past(a) \cup {Current(a)}
            <4>1. pos[a] \in Nat \ {0}
                BY <1>0
            <4>2. 1 .. pos'[a] - 1 = (1 .. pos[a] - 1) \cup {pos[a]}
                BY <3>1, <4>1
            <4>3. QED
                BY <3>1, <4>2 DEF Past, Current
        <3>3. Current(a) \in deltas
            BY <2>0, <2>7, <3>1 DEF Progress
        <3>4. \A i \in inflight : events[i].ActorID # a
            BY <2>0, <2>7, <3>1 DEF Progress
        <3>5. \A i \in deltas : events[i].ActorID = a => i \in Past(a)'
            BY <2>0, <3>2 DEF Progress
        <3>6. QED
            BY <2>0, <3>1, <3>2, <3>3, <3>4, <3>5 DEF Progress
    <2>8. ASSUME CancelAndReturn(a) PROVE Progress(a)'
        <3>1. /\ pc[a] = "return" /\ pc'[a] = "done"
              /\ UNCHANGED <<events, actorEvents, pos, failed, deltas, inflight>>
            BY <1>0, <2>8 DEF CancelAndReturn
        <3>2. QED
            BY <2>0, <3>1, SamePlace DEF Progress, Position, AfterCommit
    <2>9. Progress(a)'
        BY <1>2, <2>2, <2>3, <2>4, <2>5, <2>6, <2>7, <2>8 DEF ActorStep
    <2>10. QED
        BY <2>1, <2>9 DEF DInv, Actor
<1>3. ASSUME NEW i \in inflight, Settle(i) PROVE DInv'
    <2>1. PICK a \in Actor : a = events[i].ActorID
        BY InflightActor
    <2>2. Progress(a) /\ Current(a) = i /\ Remaining(a) /\ i \notin deltas
        BY <2>1 DEF DInv, Progress
    <2>3. \A j \in inflight : events[j].ActorID = a => j = i
        BY <2>1, <2>2 DEF Progress
    <2>4. /\ UNCHANGED <<events, actorEvents, pos>>
          /\ deltas' \subseteq deltas \cup {i} /\ deltas \subseteq deltas'
          /\ inflight' = inflight \ {i}
          /\ \A b \in Actor \ {a} : pc'[b] = pc[b] /\ failed'[b] = failed[b]
          /\ \/ pc'[a] = pc[a] /\ failed'[a] = failed[a]
             \/ pc[a] = "reply" /\ pc'[a] = "ack" /\ failed'[a]
        BY <1>0, <1>3, <2>1
           DEF Settle, ServerCommits, Publish, ServerAborts
    <2>5. \A b \in Actor \ {a} : Progress(b)'
        BY <2>1, <2>4, OthersProgress
    <2>6. Progress(a)'
        <3>1. pc[a] \in AfterCommit /\ pc'[a] \in AfterCommit
            BY <1>0, <2>1, <2>2, <2>4 DEF Progress, Position, AfterCommit
        <3>2. pc'[a] = "ack" /\ ~failed'[a] => pc[a] = "ack" /\ ~failed[a]
            BY <2>4
        <3>3. QED
            BY <2>1, <2>2, <2>3, <2>4, <3>1, <3>2, SamePlace DEF Progress
    <2>7. QED
        BY <2>5, <2>6 DEF DInv, Actor
<1>4. CASE \/ CloseAcks \/ FinishStage \/ CtxDone \/ Stopped \/ UNCHANGED vars
    <2>1. UNCHANGED <<events, actorEvents, pc, pos, failed, deltas, inflight>>
        BY <1>4 DEF CloseAcks, FinishStage, CtxDone, Stopped, vars
    <2>2. QED
        BY <2>1 DEF DInv, Progress, Past, Remaining, Current, Actor
<1>5. QED
    BY <1>1, <1>2, <1>3, <1>4 DEF Next, Caller

\* Each actor's changes commit in the order of the plan, without a gap.
THEOREM WriterCommitsInOrder == Spec => []CommittedInOrder
<1>1. SInv /\ DInv => CommittedInOrder
    <2> SUFFICES ASSUME SInv, DInv, NEW a \in Actor
                 PROVE  LET mine == {i \in deltas : events[i].ActorID = a} IN
                        \/ mine = Past(a)
                        \/ /\ pc[a] \in AfterCommit
                           /\ Remaining(a)
                           /\ mine = Past(a) \cup {Current(a)}
        BY DEF CommittedInOrder, AfterCommit
    <2> DEFINE mine == {i \in deltas : events[i].ActorID = a}
    <2>1. Progress(a) /\ pos[a] \in Nat /\ pos[a] <= Len(actorEvents[a]) + 1
        BY DEF DInv, SInv, TypeOK, Control, Position
    <2>2. Past(a) \subseteq mine
        <3>1. \A k \in 1 .. pos[a] - 1 : k \in 1 .. Len(actorEvents[a])
            BY <2>1 DEF SInv, TypeOK
        <3>2. QED
            BY <2>1, <3>1 DEF SInv, Queues, Past, Progress
    <2>3. CASE mine \subseteq Past(a)
        BY <2>2, <2>3
    <2>4. ASSUME NEW i \in mine, i \notin Past(a)
          PROVE  /\ pc[a] \in AfterCommit
                 /\ Remaining(a)
                 /\ mine = Past(a) \cup {Current(a)}
        BY <2>1, <2>2, <2>4 DEF Progress
    <2>5. QED
        BY <2>3, <2>4
<1>2. QED
    BY <1>1, SInit, SStep, DInit, DStep, PTL DEF Spec

----------------------------------------------------------------------------
(* A nil error means that everything is committed.                         *)

\* Nobody stops early without a trace: an actor ends with events left only
\* after an error of its own or when the run context is done; an error that
\* is past its acknowledgement is firstFailure's, or a later one; and the
\* run is cancelled by an acknowledged error or by the return of runWriters.
OInv ==
    /\ firstFailure = 0 => \A a \in Actor : failed[a] => pc[a] = "ack"
    /\ cancelled => firstFailure # 0 \/ stage \in Returned
    /\ \A a \in Actor : pc[a] = "done" => ~Remaining(a) \/ failed[a] \/ RunCtxErr
    /\ OkMeansAllCommitted

LEMMA OInit == Init => OInv
BY DEF Init, OInv, OkMeansAllCommitted

\* When every actor has got to the end of its list, every event is committed.
LEMMA EndOfLists ==
    ASSUME SInv, DInv, ~Fresh,
           \A a \in Actor : pc[a] = "done" /\ ~failed[a] /\ ~Remaining(a)
    PROVE  deltas = Event /\ inflight = {}
<1>1. part = Len(events) /\ deltas \subseteq Event /\ inflight \subseteq Event
    BY DEF SInv, TypeOK, Control, Stages
<1>2. ASSUME NEW i \in Event PROVE i \in deltas /\ i \notin inflight
    <2>1. PICK a \in Actor : a = events[i].ActorID
        BY <1>1 DEF SInv, Queues, Event
    <2>2. PICK k \in 1 .. Len(actorEvents[a]) : actorEvents[a][k] = i
        BY <1>1, <2>1 DEF SInv, Queues, Event
    <2>3. k \in 1 .. pos[a] - 1
        <3>1. pos[a] \in Nat /\ Len(actorEvents[a]) \in Nat
            BY DEF SInv, TypeOK
        <3>2. ~Remaining(a)
            OBVIOUS
        <3>3. QED
            BY <3>1, <3>2 DEF Remaining
    <2>4. i \in Past(a)
        BY <2>2, <2>3 DEF Past
    <2>5. QED
        BY <2>1, <2>4 DEF DInv, Progress
<1>3. QED
    BY <1>1, <1>2

LEMMA OStep == SInv /\ DInv /\ OInv /\ [Next]_vars => OInv'
<1> SUFFICES ASSUME SInv, DInv, OInv, [Next]_vars PROVE OInv'
    OBVIOUS
<1> USE DEF mainVars, dbVars, ctxVars, ackVars
<1>0. /\ pc \in [Actor -> PCs] /\ pos \in [Actor -> Nat \ {0}]
      /\ failed \in [Actor -> BOOLEAN]
      /\ Stages /\ \A a \in Actor : Position(a)
    BY DEF SInv, TypeOK, Control
<1>1. CASE PartitionEvent
    <2>1. \A a \in Actor : pc'[a] = "idle" /\ ~failed'[a]
        BY <1>0, <1>1 DEF PartitionEvent, Stages, Fresh, Position
    <2>2. QED
        BY <1>1, <2>1 DEF PartitionEvent, OInv, OkMeansAllCommitted, Actor,
                          Returned
<1>2. CASE StartActors
    <2>1. \A a \in Actor : pc'[a] = "check" /\ ~failed'[a]
        BY <1>0, <1>2 DEF StartActors, Stages, Fresh, Position
    <2>2. QED
        BY <1>2, <2>1 DEF StartActors, OInv, OkMeansAllCommitted, Actor,
                          Returned
<1>3. ASSUME NEW a \in Actor, ActorStep(a) \/ DBError(a) PROVE OInv'
    <2>0. /\ pc[a] \notin {"idle", "done"} => stage \notin Returned
          /\ Position(a)
        BY <1>0 DEF Stages, Fresh, Returned
    <2>1. CASE NextEvent(a)
        BY <1>0, <2>0, <2>1
           DEF NextEvent, OInv, OkMeansAllCommitted, Actor, Returned,
               Remaining, RunCtxErr, Position
    <2>2. CASE \/ BeginTx(a) \/ ApplyMutation(a) \/ EnqueueInTx(a)
               \/ CommitReturns(a) \/ SendCommit(a)
        <3>1. /\ pc[a] \in {"begin", "update", "enqueue", "commit", "reply"}
              /\ ~failed[a] /\ pc'[a] # "done"
              /\ \A b \in Actor \ {a} : pc'[b] = pc[b]
              /\ UNCHANGED <<events, actorEvents, stage, pos, failed, cancelled,
                             ctxDone, firstFailure>>
            BY <1>0, <2>0, <2>2
               DEF BeginTx, ApplyMutation, EnqueueInTx, CommitReturns,
                   SendCommit, Position
        <3>2. QED
            BY <2>0, <3>1
               DEF OInv, OkMeansAllCommitted, Actor, Returned, Remaining,
                   RunCtxErr
    <2>3. CASE CtxError(a) \/ DBError(a)
        <3>1. /\ pc[a] \in {"begin", "update", "enqueue", "commit", "reply"}
              /\ pc'[a] = "ack"
              /\ \A b \in Actor \ {a} : pc'[b] = pc[b] /\ failed'[b] = failed[b]
              /\ UNCHANGED <<events, actorEvents, stage, pos, cancelled,
                             ctxDone, firstFailure>>
            BY <1>0, <2>3 DEF CtxError, DBError, Fail
        <3>2. QED
            BY <2>0, <3>1
               DEF OInv, OkMeansAllCommitted, Actor, Returned, Remaining,
                   RunCtxErr
    <2>4. CASE SendAck(a)
        <3>1. /\ pc[a] = "ack" /\ pc'[a] # "done" /\ stage = "running"
              /\ \A b \in Actor \ {a} : pc'[b] = pc[b] /\ pos'[b] = pos[b]
              /\ UNCHANGED <<actorEvents, stage, failed, ctxDone>>
            BY <1>0, <2>4 DEF SendAck, AfterAck
        <3>2. /\ failed[a] => firstFailure' # 0
              /\ firstFailure # 0 => firstFailure' # 0
              /\ cancelled' => cancelled \/ firstFailure' # 0
              /\ cancelled => cancelled'
            <4>1. Current(a) # 0
                BY <2>0, <3>1, CurrentEvent DEF Position, AtWork
            <4>2. QED
                BY <2>4, <4>1 DEF SendAck, CountAck
        <3>3. QED
            BY <2>0, <3>1, <3>2
               DEF OInv, OkMeansAllCommitted, Actor, Returned, Remaining,
                   RunCtxErr
    <2>5. CASE CancelAndReturn(a)
        <3>1. failed[a] /\ firstFailure # 0
            BY <2>0, <2>5 DEF CancelAndReturn, Position, OInv
        <3>2. QED
            BY <1>0, <2>0, <2>5, <3>1
               DEF CancelAndReturn, OInv, OkMeansAllCommitted, Actor, Returned,
                   Remaining, RunCtxErr
    <2>6. QED
        BY <1>3, <2>1, <2>2, <2>3, <2>4, <2>5 DEF ActorStep
<1>4. ASSUME NEW i \in inflight, Settle(i) PROVE OInv'
    <2>1. stage # "ok"
        BY DEF OInv, OkMeansAllCommitted
    <2>2. PICK a \in Actor : a = events[i].ActorID
        BY InflightActor
    <2>3. /\ UNCHANGED <<events, actorEvents, pos, stage, cancelled, ctxDone,
                         firstFailure>>
          /\ \A b \in Actor : \/ pc'[b] = pc[b] /\ failed'[b] = failed[b]
                              \/ pc'[b] = "ack"
        BY <1>0, <1>4, <2>2 DEF Settle, ServerCommits, ServerAborts
    <2>4. QED
        BY <2>1, <2>3 DEF OInv, OkMeansAllCommitted, Actor, Remaining, RunCtxErr
<1>5. CASE FinishStage
    <2>1. /\ closed /\ stage = "running" /\ stage' \in Returned /\ cancelled'
          /\ UNCHANGED <<events, actorEvents, pc, pos, failed, deltas, inflight,
                         ctxDone, firstFailure>>
        BY <1>5 DEF FinishStage, AcksDrained, Outcome, Returned
    <2>2. ASSUME stage' = "ok" PROVE deltas = Event /\ inflight = {}
        <3>1. firstFailure = 0 /\ ~ctxDone
            BY <1>5, <2>2 DEF FinishStage, Outcome
        <3>2. ~cancelled
            BY <2>1, <3>1 DEF OInv, Returned
        <3>3. \A a \in Actor : pc[a] = "done"
            BY <1>0, <2>1 DEF Stages
        <3>4. \A a \in Actor : ~failed[a]
            BY <3>1, <3>3 DEF OInv
        <3>5. \A a \in Actor : ~Remaining(a)
            BY <3>1, <3>2, <3>3, <3>4 DEF OInv, RunCtxErr
        <3>6. QED
            BY <2>1, <3>3, <3>4, <3>5, EndOfLists DEF Fresh
    <2>3. QED
        BY <2>1, <2>2 DEF OInv, OkMeansAllCommitted, Event, Actor, Remaining,
                          RunCtxErr
<1>6. CASE CloseAcks \/ CtxDone
    BY <1>6 DEF CloseAcks, CtxDone, OInv, OkMeansAllCommitted, Event, Actor,
                Remaining, RunCtxErr
<1>7. CASE Stopped \/ UNCHANGED vars
    BY <1>7 DEF Stopped, vars, OInv, OkMeansAllCommitted, Event, Actor,
                Remaining, RunCtxErr
<1>8. QED
    BY <1>1, <1>2, <1>3, <1>4, <1>5, <1>6, <1>7 DEF Next, Caller

\* When runWriters returns nil, every planned event is committed and no
\* transaction of the stage is still open.
THEOREM WriterOkMeansAllCommitted == Spec => []OkMeansAllCommitted
<1>1. OInv => OkMeansAllCommitted
    BY DEF OInv
<1>2. QED
    BY <1>1, SInit, SStep, DInit, DStep, OInit, OStep, PTL DEF Spec

----------------------------------------------------------------------------
(* Rows and deltas.                                                        *)

\* The row lock discipline: what an open transaction has written is the next
\* version of its row, and no two of them have written the same row.
Locks ==
    /\ \A i \in OpenTx : ~IsGhost(i) =>
          staged[events[i].ActorID] = version[events[i].EntityID] + 1
    /\ \A i, j \in OpenTx :
          ~IsGhost(i) /\ ~IsGhost(j) /\ events[i].EntityID = events[j].EntityID
             => i = j

LInv == Locks /\ VersionCountsDeltas

LEMMA LInit == Init => LInv
<1> SUFFICES ASSUME Init PROVE LInv
    OBVIOUS
<1>1. OpenTx = {} /\ \A r \in Row : DeltasOf(r) = {} /\ version[r] = 1
    BY DEF Init, OpenTx, DeltasOf
<1>2. QED
    BY <1>1, FS_EmptySet DEF LInv, Locks, VersionCountsDeltas

\* An open transaction is that of its actor's current event, and its delta is
\* not committed.
LEMMA OpenEvent ==
    ASSUME SInv, DInv, NEW i \in OpenTx
    PROVE  /\ i \in Event /\ events[i].ActorID \in Actor
           /\ Current(events[i].ActorID) = i
           /\ pc[events[i].ActorID] \in AfterCommit \cup {"enqueue", "commit"}
           /\ i \notin deltas
<1>1. \A a \in Actor : Position(a) /\ Progress(a)
    BY DEF SInv, Control, DInv
<1>2. CASE i \in inflight
    <2>1. PICK a \in Actor : a = events[i].ActorID
        BY <1>2, InflightActor
    <2>2. QED
        BY <1>1, <1>2, <2>1, InflightActor DEF Progress, Position, AfterCommit
<1>3. CASE i \notin inflight
    <2>1. PICK a \in Actor : Current(a) = i /\ pc[a] \in {"enqueue", "commit"}
        BY <1>3 DEF OpenTx
    <2>2. Remaining(a)
        BY <1>1, <2>1 DEF Position, AtWork
    <2>3. events[i].ActorID = a /\ i \in Event /\ i \notin Past(a)
        BY <2>1, <2>2, CurrentEvent, CurrentNotPast
    <2>4. i \notin deltas
        BY <1>1, <2>1, <2>3 DEF Progress, AfterCommit
    <2>5. QED
        BY <2>1, <2>3, <2>4
<1>4. QED
    BY <1>2, <1>3

\* A step that opens at most the transaction of a ghost.
LEMMA NoLockTaken ==
    ASSUME LInv, UNCHANGED <<events, staged, version, deltas>>,
           \A i \in OpenTx' : i \in OpenTx \/ IsGhost(i)
    PROVE  LInv'
<1>1. \A i : IsGhost(i)' = IsGhost(i)
    BY DEF IsGhost
<1>2. Locks'
    BY <1>1 DEF LInv, Locks
<1>3. VersionCountsDeltas'
    BY DEF LInv, VersionCountsDeltas, DeltasOf, IsGhost
<1>4. QED
    BY <1>2, <1>3 DEF LInv

\* The UPDATE that takes the lock of a row.
LEMMA LockTaken ==
    ASSUME SInv, DInv, LInv, NEW a \in Actor, ApplyMutation(a)
    PROVE  LInv'
<1> USE DEF mainVars, dbVars, ctxVars, ackVars
<1> DEFINE me == Current(a)
           row == events[me].EntityID
<1>0. /\ pc \in [Actor -> PCs] /\ staged \in [Actor -> Nat] /\ Position(a)
    BY DEF SInv, TypeOK, Control
<1>1. /\ pc[a] = "update" /\ ~RowLocked(row)
      /\ staged' = [staged EXCEPT ![a] = version[row] + 1]
      /\ pc' = [pc EXCEPT ![a] = "enqueue"]
      /\ UNCHANGED <<events, actorEvents, pos, inflight, version, deltas>>
    BY DEF ApplyMutation
<1>2. Remaining(a) /\ ~IsGhost(me) /\ events[me].ActorID = a
    BY <1>0, <1>1, CurrentEvent DEF Position, AtWork
<1>3. \A i \in OpenTx : events[i].ActorID # a /\ events[i].ActorID \in Actor
    BY <1>1, OpenEvent DEF AfterCommit
<1>4. \A i \in OpenTx' : i \in OpenTx \/ i = me
    BY <1>0, <1>1 DEF OpenTx, Current
<1>5. \A i \in OpenTx : ~IsGhost(i) => events[i].EntityID # row
    BY <1>1 DEF RowLocked
<1>6. ASSUME NEW i \in OpenTx', ~IsGhost(i)
      PROVE  staged'[events[i].ActorID] = version[events[i].EntityID] + 1
    <2>1. CASE i = me
        BY <1>0, <1>1, <1>2, <2>1
    <2>2. CASE i \in OpenTx
        BY <1>0, <1>1, <1>3, <1>6, <2>2 DEF LInv, Locks
    <2>3. QED
        BY <1>4, <2>1, <2>2
<1>7. ASSUME NEW i \in OpenTx', NEW j \in OpenTx', ~IsGhost(i), ~IsGhost(j),
             events[i].EntityID = events[j].EntityID
      PROVE  i = j
    <2>1. CASE i \in OpenTx /\ j \in OpenTx
        BY <1>7, <2>1 DEF LInv, Locks
    <2>2. CASE i = me \/ j = me
        BY <1>4, <1>5, <1>7, <2>2
    <2>3. QED
        BY <1>4, <2>1, <2>2
<1>8. Locks'
    BY <1>1, <1>6, <1>7 DEF Locks, IsGhost
<1>9. VersionCountsDeltas'
    BY <1>1 DEF LInv, VersionCountsDeltas, DeltasOf, IsGhost
<1>10. QED
    BY <1>8, <1>9 DEF LInv

\* The COMMIT that publishes a row version and a delta, and drops the lock.
LEMMA LockDropped ==
    ASSUME SInv, DInv, LInv, NEW i \in inflight, ServerCommits(i)
    PROVE  LInv'
<1> USE DEF mainVars, dbVars, ctxVars, ackVars
<1>0. /\ version \in [Row -> Nat] /\ deltas \subseteq Event
      /\ Len(events) \in Nat /\ i \in Event
      /\ ~IsGhost(i) => events[i].EntityID \in Row
    BY PlanType DEF SInv, TypeOK
<1>1. /\ deltas' = deltas \cup {i} /\ inflight' = inflight \ {i}
      /\ UNCHANGED <<events, actorEvents, pc, pos, staged>>
      /\ version' = IF IsGhost(i) THEN version
                    ELSE [version EXCEPT ![events[i].EntityID] =
                                            staged[events[i].ActorID]]
    BY DEF ServerCommits, Publish
<1>2. i \in OpenTx /\ i \notin deltas
    BY OpenEvent DEF OpenTx
<1>3. OpenTx' \subseteq OpenTx \ {i}
    <2>1. PICK a \in Actor : a = events[i].ActorID
        BY InflightActor
    <2>2. pc[a] \notin {"enqueue", "commit"}
        BY <2>1 DEF SInv, Control, Position, DInv, Progress
    <2>3. \A b \in Actor : pc[b] \in {"enqueue", "commit"} => Current(b) # i
        <3>1. ASSUME NEW b \in Actor, pc[b] \in {"enqueue", "commit"}
              PROVE  events[Current(b)].ActorID = b
            BY <3>1, CurrentEvent DEF SInv, Control, Position, AtWork
        <3>2. QED
            BY <2>1, <2>2, <3>1
    <2>4. QED
        BY <1>1, <2>3 DEF OpenTx, Current
<1>4. ~IsGhost(i) => staged[events[i].ActorID] = version[events[i].EntityID] + 1
    BY <1>2 DEF LInv, Locks
<1>5. ASSUME NEW j \in OpenTx', ~IsGhost(j)
      PROVE  version'[events[j].EntityID] = version[events[j].EntityID]
    <2>1. j \in OpenTx /\ j # i
        BY <1>3
    <2>2. IsGhost(i) \/ events[j].EntityID # events[i].EntityID
        BY <1>2, <1>5, <2>1 DEF LInv, Locks
    <2>3. events[j].EntityID \in Row
        BY <1>5, <2>1, OpenEvent, PlanType DEF SInv, TypeOK
    <2>4. QED
        BY <1>0, <1>1, <2>2, <2>3
<1>6. Locks'
    <2>1. \A j : IsGhost(j)' = IsGhost(j)
        BY <1>1 DEF IsGhost
    <2>2. QED
        BY <1>1, <1>3, <1>5, <2>1 DEF LInv, Locks
<1>7. ASSUME NEW r \in Row
      PROVE  version'[r] = 1 + Cardinality(DeltasOf(r)')
    <2>1. version[r] = 1 + Cardinality(DeltasOf(r))
        BY DEF LInv, VersionCountsDeltas
    <2>2. CASE IsGhost(i) \/ events[i].EntityID # r
        <3>1. DeltasOf(r)' = DeltasOf(r)
            BY <1>1, <2>2 DEF DeltasOf, IsGhost
        <3>2. QED
            BY <1>0, <1>1, <2>1, <2>2, <3>1
    <2>3. CASE ~IsGhost(i) /\ events[i].EntityID = r
        <3>1. DeltasOf(r)' = DeltasOf(r) \cup {i} /\ i \notin DeltasOf(r)
            BY <1>1, <1>2, <2>3 DEF DeltasOf, IsGhost
        <3>2. IsFiniteSet(DeltasOf(r))
            <4>1. IsFiniteSet(Event)
                BY <1>0, FS_Interval DEF Event
            <4>2. DeltasOf(r) \subseteq Event
                BY <1>0 DEF DeltasOf
            <4>3. QED
                BY <4>1, <4>2, FS_Subset
        <3>3. Cardinality(DeltasOf(r)') = Cardinality(DeltasOf(r)) + 1
            BY <3>1, <3>2, FS_AddElement
        <3>4. version'[r] = version[r] + 1
            BY <1>0, <1>1, <1>4, <2>3
        <3>5. Cardinality(DeltasOf(r)) \in Nat
            BY <3>2, FS_CardinalityType
        <3>6. QED
            BY <2>1, <3>3, <3>4, <3>5
    <2>4. QED
        BY <2>2, <2>3
<1>8. QED
    BY <1>6, <1>7 DEF LInv, VersionCountsDeltas

LEMMA LStep == SInv /\ DInv /\ LInv /\ [Next]_vars => LInv'
<1> SUFFICES ASSUME SInv, DInv, LInv, [Next]_vars PROVE LInv'
    OBVIOUS
<1> USE DEF mainVars, dbVars, ctxVars, ackVars
<1>0. pc \in [Actor -> PCs] /\ pos \in [Actor -> Nat \ {0}] /\ Stages
    BY DEF SInv, TypeOK, Control
<1>1. CASE PartitionEvent \/ StartActors
    <2>1. /\ UNCHANGED <<events, staged, version, deltas>> /\ inflight' = {}
          /\ \A a \in Actor : pc'[a] \in {"idle", "check"}
        BY <1>0, <1>1 DEF PartitionEvent, StartActors, Stages, Fresh
    <2>2. OpenTx' = {}
        BY <2>1 DEF OpenTx, Actor
    <2>3. QED
        BY <2>1, <2>2, NoLockTaken
<1>2. ASSUME NEW a \in Actor, ActorStep(a) \/ DBError(a) PROVE LInv'
    <2>1. CASE ApplyMutation(a)
        BY <2>1, LockTaken
    <2>2. CASE BeginTx(a)
        <3>1. /\ UNCHANGED <<events, actorEvents, pos, inflight, staged, version,
                             deltas>>
              /\ pc' = [pc EXCEPT ![a] =
                           IF IsGhost(Current(a)) THEN "enqueue" ELSE "update"]
            BY <2>2 DEF BeginTx
        <3>2. \A i \in OpenTx' : i \in OpenTx \/ IsGhost(i)
            BY <1>0, <3>1 DEF OpenTx, Current
        <3>3. QED
            BY <3>1, <3>2, NoLockTaken
    <2>3. CASE SendCommit(a)
        <3>1. /\ UNCHANGED <<events, actorEvents, pos, staged, version, deltas>>
              /\ pc[a] = "commit" /\ pc' = [pc EXCEPT ![a] = "reply"]
              /\ inflight' = inflight \cup {Current(a)}
            BY <2>3 DEF SendCommit
        <3>2. OpenTx' \subseteq OpenTx
            BY <1>0, <3>1 DEF OpenTx, Current
        <3>3. QED
            BY <3>1, <3>2, NoLockTaken
    <2>4. CASE EnqueueInTx(a)
        <3>1. /\ UNCHANGED <<events, actorEvents, pos, inflight, staged, version,
                             deltas>>
              /\ pc[a] = "enqueue" /\ pc' = [pc EXCEPT ![a] = "commit"]
            BY <2>4 DEF EnqueueInTx
        <3>2. OpenTx' \subseteq OpenTx
            BY <1>0, <3>1 DEF OpenTx, Current
        <3>3. QED
            BY <3>1, <3>2, NoLockTaken
    <2>5. CASE \/ NextEvent(a) \/ CommitReturns(a) \/ CtxError(a) \/ DBError(a)
               \/ SendAck(a) \/ CancelAndReturn(a)
        <3>1. /\ UNCHANGED <<events, actorEvents, inflight, staged, version,
                             deltas>>
              /\ pc'[a] \notin {"enqueue", "commit"}
              /\ \A b \in Actor \ {a} : pc'[b] = pc[b] /\ pos'[b] = pos[b]
            <4>1. CASE NextEvent(a) \/ CommitReturns(a) \/ CancelAndReturn(a)
                BY <1>0, <4>1 DEF NextEvent, CommitReturns, CancelAndReturn
            <4>2. CASE CtxError(a) \/ DBError(a)
                BY <1>0, <4>2 DEF CtxError, DBError, Fail
            <4>3. CASE SendAck(a)
                BY <1>0, <4>3 DEF SendAck, AfterAck
            <4>4. QED
                BY <2>5, <4>1, <4>2, <4>3
        <3>2. OpenTx' \subseteq OpenTx
            BY <3>1 DEF OpenTx, Current, Actor
        <3>3. QED
            BY <3>1, <3>2, NoLockTaken
    <2>6. QED
        BY <1>2, <2>1, <2>2, <2>3, <2>4, <2>5 DEF ActorStep
<1>3. ASSUME NEW i \in inflight, Settle(i) PROVE LInv'
    <2>1. CASE ServerCommits(i)
        BY <2>1, LockDropped
    <2>2. CASE ServerAborts(i)
        <3>1. /\ UNCHANGED <<events, actorEvents, pos, staged, version, deltas>>
              /\ inflight' \subseteq inflight
              /\ \A b \in Actor : pc'[b] = pc[b] \/ pc'[b] = "ack"
            BY <1>0, <2>2 DEF ServerAborts
        <3>2. OpenTx' \subseteq OpenTx
            BY <3>1 DEF OpenTx, Current, Actor
        <3>3. QED
            BY <3>1, <3>2, NoLockTaken
    <2>3. QED
        BY <1>3, <2>1, <2>2 DEF Settle
<1>4. CASE \/ CloseAcks \/ FinishStage \/ CtxDone \/ Stopped \/ UNCHANGED vars
    <2>1. UNCHANGED <<events, actorEvents, pc, pos, inflight, staged, version,
                      deltas>>
        BY <1>4 DEF CloseAcks, FinishStage, CtxDone, Stopped, vars
    <2>2. OpenTx' = OpenTx
        BY <2>1 DEF OpenTx, Current, Actor
    <2>3. QED
        BY <2>1, <2>2, NoLockTaken
<1>5. QED
    BY <1>1, <1>2, <1>3, <1>4 DEF Next, Caller

\* The transactional outbox: every row has been changed exactly as often as
\* there are deltas for it.
THEOREM WriterVersionCountsDeltas == Spec => []VersionCountsDeltas
<1>1. LInv => VersionCountsDeltas
    BY DEF LInv
<1>2. QED
    BY <1>1, SInit, SStep, DInit, DStep, LInit, LStep, PTL DEF Spec

----------------------------------------------------------------------------
(* The number of commits that runWriters reports.                          *)

\* Acknowledged events: those some actor has got past.
Acked == UNION {Past(a) : a \in Actor}

\* The caller has counted each acknowledged event once; an actor that ended
\* without an error left no delta behind.
CInv ==
    /\ enqueued = Cardinality(Acked)
    /\ \A a \in Actor : pc[a] = "done" /\ ~failed[a] /\ Remaining(a)
          => Current(a) \notin deltas

LEMMA CInit == Init => CInv
<1> SUFFICES ASSUME Init PROVE CInv
    OBVIOUS
<1>1. \A a \in Actor : Past(a) = {}
    BY DEF Init, Past
<1>2. Acked = {}
    BY <1>1 DEF Acked
<1>3. QED
    BY <1>2, FS_EmptySet DEF CInv, Init

LEMMA AckedFinite == SInv => Acked \subseteq Event /\ IsFiniteSet(Acked)
<1> SUFFICES ASSUME SInv PROVE Acked \subseteq Event /\ IsFiniteSet(Acked)
    OBVIOUS
<1>1. ASSUME NEW a \in Actor, NEW k \in 1 .. pos[a] - 1
      PROVE  actorEvents[a][k] \in Event
    <2>1. k \in 1 .. Len(actorEvents[a])
        BY DEF SInv, TypeOK, Control, Position
    <2>2. QED
        BY <2>1 DEF SInv, TypeOK
<1>2. Acked \subseteq Event
    BY <1>1 DEF Acked, Past
<1>3. Len(events) \in Nat
    BY PlanType DEF SInv, TypeOK
<1>4. IsFiniteSet(Event)
    BY <1>3, FS_Interval DEF Event
<1>5. QED
    BY <1>2, <1>4, FS_Subset

\* A step on which no actor gets past an event.
LEMMA NothingCounted ==
    ASSUME CInv, UNCHANGED <<enqueued, pos>>,
           \A a \in Actor : Past(a)' = Past(a),
           \A a \in Actor : pc'[a] = "done" /\ ~failed'[a] /\ Remaining(a)'
              => Current(a)' \notin deltas'
    PROVE  CInv'
<1>1. Acked' = Acked
    BY DEF Acked, Actor
<1>2. QED
    BY <1>1 DEF CInv, Actor

LEMMA CStep == SInv /\ DInv /\ CInv /\ [Next]_vars => CInv'
<1> SUFFICES ASSUME SInv, DInv, CInv, [Next]_vars PROVE CInv'
    OBVIOUS
<1> USE DEF mainVars, dbVars, ctxVars, ackVars
<1>0. /\ pc \in [Actor -> PCs] /\ pos \in [Actor -> Nat \ {0}]
      /\ failed \in [Actor -> BOOLEAN]
      /\ Stages /\ \A a \in Actor : Position(a) /\ Progress(a)
    BY DEF SInv, TypeOK, Control, DInv
<1>1. CASE PartitionEvent \/ StartActors
    <2>1. /\ UNCHANGED <<enqueued, pos>>
          /\ \A a \in Actor : pos[a] = 1 /\ pc'[a] # "done"
        BY <1>0, <1>1 DEF PartitionEvent, StartActors, Stages, Fresh
    <2>2. \A a \in Actor : Past(a) = {} /\ Past(a)' = {}
        BY <2>1 DEF Past
    <2>3. QED
        BY <2>1, <2>2, NothingCounted
<1>2. ASSUME NEW a \in Actor, ActorStep(a) \/ DBError(a) PROVE CInv'
    <2>1. ASSUME \/ NextEvent(a) \/ BeginTx(a) \/ ApplyMutation(a)
                 \/ EnqueueInTx(a) \/ SendCommit(a) \/ CommitReturns(a)
                 \/ CtxError(a) \/ DBError(a) \/ CancelAndReturn(a)
                 \/ (SendAck(a) /\ failed[a])
          PROVE  CInv'
        <3>1. /\ UNCHANGED <<actorEvents, pos, enqueued, deltas>>
              /\ \A b \in Actor \ {a} : pc'[b] = pc[b] /\ failed'[b] = failed[b]
              /\ pc'[a] = "done" => pc[a] = "check" \/ failed'[a]
            <4>1. CASE NextEvent(a) \/ CancelAndReturn(a)
                BY <1>0, <4>1 DEF NextEvent, CancelAndReturn, Position
            <4>2. CASE \/ BeginTx(a) \/ ApplyMutation(a) \/ EnqueueInTx(a)
                       \/ SendCommit(a) \/ CommitReturns(a)
                BY <1>0, <4>2 DEF BeginTx, ApplyMutation, EnqueueInTx,
                                  SendCommit, CommitReturns
            <4>3. CASE CtxError(a) \/ DBError(a)
                BY <1>0, <4>3 DEF CtxError, DBError, Fail
            <4>4. CASE SendAck(a) /\ failed[a]
                BY <1>0, <4>4 DEF SendAck, AfterAck, CountAck
            <4>5. QED
                BY <2>1, <4>1, <4>2, <4>3, <4>4
        <3>2. Remaining(a) /\ pc[a] = "check" => Current(a) \notin deltas
            <4>1. ASSUME Remaining(a), pc[a] = "check", Current(a) \in deltas
                  PROVE  FALSE
                BY <1>0, <4>1, CurrentNotPast, CurrentEvent
                   DEF Progress, AfterCommit
            <4>2. QED
                BY <4>1
        <3>3. \A b \in Actor : /\ Past(b)' = Past(b)
                               /\ Remaining(b)' = Remaining(b)
                               /\ Current(b)' = Current(b)
            BY <3>1, SamePlace
        <3>4. QED
            BY <3>1, <3>2, <3>3, NothingCounted DEF CInv
    <2>2. ASSUME SendAck(a), ~failed[a] PROVE CInv'
        <3>1. /\ pc[a] = "ack" /\ pc'[a] = "check" /\ enqueued' = enqueued + 1
              /\ pos' = [pos EXCEPT ![a] = @ + 1]
              /\ UNCHANGED <<events, actorEvents, deltas, failed>>
              /\ \A b \in Actor \ {a} : pc'[b] = pc[b] /\ pos'[b] = pos[b]
            BY <1>0, <2>2 DEF SendAck, AfterAck, CountAck
        <3>2. Remaining(a) /\ events[Current(a)].ActorID = a
            BY <1>0, <3>1, CurrentEvent DEF Position, AtWork
        <3>3. Past(a)' = Past(a) \cup {Current(a)}
            <4>1. pos[a] \in Nat \ {0} /\ pos'[a] = pos[a] + 1
                BY <1>0, <3>1
            <4>2. 1 .. pos'[a] - 1 = (1 .. pos[a] - 1) \cup {pos[a]}
                BY <4>1
            <4>3. QED
                BY <3>1, <4>2 DEF Past, Current
        <3>4. \A b \in Actor \ {a} : /\ Past(b)' = Past(b)
                                     /\ Remaining(b)' = Remaining(b)
                                     /\ Current(b)' = Current(b)
            BY <3>1 DEF Past, Remaining, Current
        <3>5. Acked' = Acked \cup {Current(a)}
            BY <3>3, <3>4 DEF Acked, Actor
        <3>6. Current(a) \notin Acked
            <4>1. ASSUME NEW b \in Actor, b # a PROVE Current(a) \notin Past(b)
                <5>1. \A k \in 1 .. pos[b] - 1 : k \in 1 .. Len(actorEvents[b])
                    BY <1>0 DEF SInv, TypeOK, Position
                <5>2. \A i \in Past(b) : events[i].ActorID = b
                    BY <5>1 DEF SInv, Queues, Past
                <5>3. QED
                    BY <3>2, <4>1, <5>2
            <4>2. Current(a) \notin Past(a)
                BY <3>2, CurrentNotPast
            <4>3. QED
                BY <4>1, <4>2 DEF Acked
        <3>7. enqueued' = Cardinality(Acked')
            <4>1. Cardinality(Acked \cup {Current(a)}) = Cardinality(Acked) + 1
                BY <3>6, AckedFinite, FS_AddElement
            <4>2. QED
                BY <3>1, <3>5, <4>1 DEF CInv
        <3>8. QED
            BY <3>1, <3>4, <3>7 DEF CInv, Actor
    <2>3. QED
        BY <1>2, <2>1, <2>2 DEF ActorStep
<1>3. ASSUME NEW i \in inflight, Settle(i) PROVE CInv'
    <2>1. PICK a \in Actor : a = events[i].ActorID
        BY InflightActor
    <2>2. /\ UNCHANGED <<actorEvents, pos, enqueued>>
          /\ deltas' \subseteq deltas \cup {i}
          /\ \A b \in Actor : \/ pc'[b] = pc[b] /\ failed'[b] = failed[b]
                              \/ pc'[b] = "ack"
        BY <1>0, <1>3, <2>1 DEF Settle, ServerCommits, Publish, ServerAborts
    <2>3. \A b \in Actor : /\ Past(b)' = Past(b)
                           /\ Remaining(b)' = Remaining(b)
                           /\ Current(b)' = Current(b)
        BY <2>2, SamePlace
    <2>4. ASSUME NEW b \in Actor, pc'[b] = "done", ~failed'[b], Remaining(b)
          PROVE  Current(b) \notin deltas'
        <3>1. pc[b] = "done" /\ ~failed[b]
            BY <2>2, <2>4
        <3>2. Current(b) \notin deltas
            BY <2>4, <3>1 DEF CInv
        <3>3. events[Current(b)].ActorID = b
            BY <2>4, CurrentEvent
        <3>4. Current(b) # i
            BY <1>0, <3>1, <3>3 DEF Progress
        <3>5. QED
            BY <2>2, <3>2, <3>4
    <2>5. QED
        BY <2>2, <2>3, <2>4, NothingCounted
<1>4. CASE \/ CloseAcks \/ FinishStage \/ CtxDone \/ Stopped \/ UNCHANGED vars
    <2>1. UNCHANGED <<actorEvents, pc, pos, failed, deltas, enqueued>>
        BY <1>4 DEF CloseAcks, FinishStage, CtxDone, Stopped, vars
    <2>2. \A a \in Actor : /\ Past(a)' = Past(a)
                           /\ Remaining(a)' = Remaining(a)
                           /\ Current(a)' = Current(a)
        BY <2>1, SamePlace
    <2>3. QED
        BY <2>1, <2>2, NothingCounted DEF CInv
<1>5. QED
    BY <1>1, <1>2, <1>3, <1>4 DEF Next, Caller

\* The committed deltas that the error message of runWriters leaves out are
\* at most one for each actor that ended with an error; it invents none.
THEOREM WriterReportedCountBounds == Spec => []ReportedCountBounds
<1>1. SInv /\ DInv /\ CInv => ReportedCountBounds
    <2> SUFFICES ASSUME SInv, DInv, CInv, stage \in Returned
                 PROVE  /\ enqueued <= Cardinality(deltas)
                        /\ Cardinality(deltas)
                             <= enqueued + Cardinality({a \in Actor : failed[a]})
        BY DEF ReportedCountBounds
    <2> DEFINE F == {a \in Actor : failed[a]}
               Lost == {Current(a) : a \in F}
    <2>1. IsFiniteSet(Event) /\ deltas \subseteq Event
        <3>1. Len(events) \in Nat
            BY PlanType DEF SInv, TypeOK
        <3>2. QED
            BY <3>1, FS_Interval DEF Event, SInv, TypeOK
    <2>2. IsFiniteSet(F)
        <3>1. IsFiniteSet(Actor) /\ F \subseteq Actor
            BY WriterAssumption, FS_Interval DEF Actor
        <3>2. QED
            BY <3>1, FS_Subset
    <2>3. Acked \subseteq deltas
        BY DEF Acked, DInv, Progress
    <2>4. deltas \subseteq Acked \cup Lost
        <3>1. CASE Fresh
            BY <3>1 DEF SInv, Control, Stages
        <3>2. CASE ~Fresh
            <4>1. /\ part = Len(events)
                  /\ \A a \in Actor : pc[a] = "done"
                BY <3>2 DEF SInv, Control, Stages, Fresh, Returned
            <4>2. ASSUME NEW i \in deltas PROVE i \in Acked \cup Lost
                <5>1. PICK a \in Actor : a = events[i].ActorID
                    BY <2>1, <4>1 DEF SInv, Queues, Event
                <5>2. i \in Past(a) \/ (Remaining(a) /\ Current(a) = i)
                    BY <5>1 DEF DInv, Progress
                <5>3. QED
                    BY <4>1, <5>1, <5>2 DEF CInv, Acked
            <4>3. QED
                BY <4>2
        <3>3. QED
            BY <3>1, <3>2
    <2>5. IsFiniteSet(Lost) /\ Cardinality(Lost) <= Cardinality(F)
        <3> DEFINE f == [a \in F |-> Current(a)]
        <3>1. f \in Surjection(F, Lost)
            BY DEF Surjection
        <3>2. QED
            BY <2>2, <3>1, FS_Surjection
    <2> HIDE DEF F, Lost
    <2>6. /\ IsFiniteSet(Acked) /\ IsFiniteSet(deltas)
          /\ IsFiniteSet(Acked \cup Lost) /\ IsFiniteSet(Acked \cap Lost)
          /\ Cardinality(Acked \cup Lost) =
                Cardinality(Acked) + Cardinality(Lost)
                   - Cardinality(Acked \cap Lost)
        BY <2>1, <2>5, AckedFinite, FS_Subset, FS_Union, FS_Intersection
    <2>7. /\ Cardinality(Acked) \in Nat /\ Cardinality(deltas) \in Nat
          /\ Cardinality(Lost) \in Nat /\ Cardinality(F) \in Nat
          /\ Cardinality(Acked \cap Lost) \in Nat
          /\ Cardinality(Acked \cup Lost) \in Nat
        BY <2>2, <2>5, <2>6, FS_CardinalityType
    <2>8. /\ Cardinality(Acked) <= Cardinality(deltas)
          /\ Cardinality(deltas) <= Cardinality(Acked \cup Lost)
        BY <2>3, <2>4, <2>6, FS_Subset
    <2>9. QED
        BY <2>5, <2>6, <2>7, <2>8 DEF CInv, F
<1>2. QED
    BY <1>1, SInit, SStep, DInit, DStep, CInit, CStep, PTL DEF Spec

----------------------------------------------------------------------------
(* The stage implements its contract.                                      *)

\* A COMMIT at the server is that of the next event of its actor: all the
\* earlier ones of the actor are committed.
LEMMA InflightIsDue ==
    ASSUME SInv, DInv, NEW i \in inflight
    PROVE  i \in Event /\ Contract!Due(i)
<1>1. PICK a \in Actor : a = events[i].ActorID
    BY InflightActor
<1>2. /\ Position(a) /\ Progress(a) /\ Remaining(a) /\ Current(a) = i
      /\ i \notin deltas /\ i \in Event /\ Len(events) \in Nat
    BY <1>1, PlanType DEF SInv, TypeOK, Control, DInv, Progress
<1>3. part = Len(events)
    BY DEF SInv, Control, Stages, Fresh
<1>4. /\ pos[a] \in 1 .. Len(actorEvents[a])
      /\ Len(actorEvents[a]) \in Nat
    BY <1>2, CurrentEvent DEF SInv, TypeOK
<1>5. ASSUME NEW j \in Event, events[j].ActorID = a, j < i
      PROVE  j \in deltas
    <2>1. j \in 1 .. part
        BY <1>3 DEF Event
    <2>2. PICK k \in 1 .. Len(actorEvents[a]) : actorEvents[a][k] = j
        BY <1>5, <2>1 DEF SInv, Queues
    <2>3. pos[a] < k => i < j
        BY <1>2, <1>4, <2>2 DEF SInv, Queues, Current
    <2>4. k # pos[a]
        BY <1>2, <1>5, <2>2 DEF Event, Current
    <2>5. k \in 1 .. pos[a] - 1
        BY <1>2, <1>4, <1>5, <2>3, <2>4 DEF Event
    <2>6. QED
        BY <1>2, <2>2, <2>5 DEF Past, Progress
<1>6. QED
    BY <1>1, <1>2, <1>5 DEF Contract!Due, Contract!Mine, Contract!Event, Event

\* What the server publishes is one version more of the row: the transaction
\* has held the row's lock since it read the version.
LEMMA PublishIsOneVersion ==
    ASSUME SInv, DInv, LInv, NEW i \in inflight, Publish(i)
    PROVE  Contract!Publish(i)
<1>1. i \in OpenTx
    BY DEF OpenTx
<1>2. ~IsGhost(i) => staged[events[i].ActorID] = version[events[i].EntityID] + 1
    BY <1>1 DEF LInv, Locks
<1>3. /\ deltas' = deltas \cup {i}
      /\ version' = IF IsGhost(i) THEN version
                    ELSE [version EXCEPT ![events[i].EntityID] =
                                            version[events[i].EntityID] + 1]
    BY <1>2 DEF Publish
<1>4. QED
    BY <1>3 DEF Contract!Publish, IsGhost

ContractInv == SInv /\ DInv /\ OInv /\ LInv

LEMMA ContractInvariant == Spec => []ContractInv
BY SInit, SStep, DInit, DStep, OInit, OStep, LInit, LStep, PTL
   DEF Spec, ContractInv

LEMMA ContractInit == Init => Contract!Init
BY DEF Init, Contract!Init, Returned

\* What every step but a return and an answer of the server looks like from
\* outside.
LEMMA ContractStutter ==
    ASSUME UNCHANGED <<events, version, deltas>>,
           \/ stage' = stage /\ (stage \in Returned => inflight' = inflight)
           \/ stage \notin Returned /\ stage' \notin Returned
    PROVE  UNCHANGED Contract!vars
BY DEF Contract!vars

\* A return: with a nil error everything is committed and nothing is open;
\* with an error the COMMITs still open are those of due events.
LEMMA ContractReturn ==
    ASSUME SInv, DInv, OInv', stage \notin Returned, stage' \in Returned,
           UNCHANGED <<events, version, deltas, inflight>>
    PROVE  Contract!ReturnOk \/ Contract!ReturnError
<1>1. CASE stage' = "ok"
    <2>1. deltas = Event /\ inflight = {}
        BY <1>1 DEF OInv, OkMeansAllCommitted, Event
    <2>2. QED
        BY <1>1, <2>1 DEF Contract!ReturnOk, Contract!Event, Event
<1>2. CASE stage' # "ok"
    <2>1. inflight \subseteq Contract!DueEvents
        BY InflightIsDue DEF Contract!DueEvents, Contract!Event, Event
    <2>2. QED
        BY <1>2, <2>1 DEF Contract!ReturnError
<1>3. QED
    BY <1>1, <1>2

\* An answer of the server: a commit of a due event while the stage runs, a
\* late one after it has returned with an error.
LEMMA ContractSettle ==
    ASSUME SInv, DInv, OInv, LInv, NEW i \in inflight, Settle(i)
    PROVE  Contract!Next \/ UNCHANGED Contract!vars
<1> USE DEF mainVars, ctxVars
<1>1. i \in Event /\ Contract!Due(i) /\ stage # "ok"
    BY InflightIsDue DEF OInv, OkMeansAllCommitted
<1>2. /\ UNCHANGED <<events, stage>> /\ inflight' = inflight \ {i}
      /\ \/ Contract!Publish(i)
         \/ UNCHANGED <<version, deltas>>
    BY PublishIsOneVersion DEF Settle, ServerCommits, ServerAborts
<1>3. CASE stage \notin Returned /\ Contract!Publish(i)
    <2>1. Contract!Commit(i)
        BY <1>1, <1>2, <1>3 DEF Contract!Commit
    <2>2. QED
        BY <1>1, <2>1 DEF Contract!Next, Contract!Event, Event
<1>4. CASE stage \notin Returned /\ UNCHANGED <<version, deltas>>
    BY <1>2, <1>4 DEF Contract!vars
<1>5. CASE stage \in Returned /\ Contract!Publish(i)
    <2>1. Contract!LateCommit(i)
        BY <1>2, <1>5 DEF Contract!LateCommit
    <2>2. QED
        BY <1>5, <2>1 DEF Contract!Next
<1>6. CASE stage \in Returned /\ UNCHANGED <<version, deltas>>
    <2>1. Contract!LateAbort(i)
        BY <1>2, <1>6 DEF Contract!LateAbort
    <2>2. QED
        BY <1>6, <2>1 DEF Contract!Next
<1>7. QED
    BY <1>2, <1>3, <1>4, <1>5, <1>6

LEMMA ContractStep ==
    ContractInv /\ ContractInv' /\ [Next]_vars => [Contract!Next]_Contract!vars
<1> SUFFICES ASSUME ContractInv, ContractInv', [Next]_vars
             PROVE  Contract!Next \/ UNCHANGED Contract!vars
    OBVIOUS
<1> USE DEF ContractInv, mainVars, dbVars, ctxVars, ackVars
<1>0. Stages
    BY DEF SInv, Control
<1>1. CASE PartitionEvent
    <2>1. /\ stage = "partition" /\ stage' \in {"partition", "invalid"}
          /\ UNCHANGED <<events, version, deltas, inflight>>
        BY <1>1 DEF PartitionEvent
    <2>2. CASE stage' = "invalid"
        BY <2>1, <2>2, ContractReturn DEF Contract!Next, Returned
    <2>3. CASE stage' = "partition"
        BY <2>1, <2>3, ContractStutter
    <2>4. QED
        BY <2>1, <2>2, <2>3
<1>2. CASE StartActors
    <2>1. /\ stage \notin Returned /\ stage' \notin Returned
          /\ UNCHANGED <<events, version, deltas>>
        BY <1>2 DEF StartActors, Returned
    <2>2. QED
        BY <2>1, ContractStutter
<1>3. ASSUME NEW a \in Actor, ActorStep(a) \/ DBError(a)
      PROVE  UNCHANGED Contract!vars
    <2>1. /\ UNCHANGED <<events, version, deltas, stage>>
          /\ inflight' = inflight \/ pc[a] = "commit"
        BY <1>3 DEF ActorStep, NextEvent, BeginTx, ApplyMutation, EnqueueInTx,
                    SendCommit, CommitReturns, CtxError, DBError, Fail,
                    SendAck, CancelAndReturn
    <2>2. pc[a] = "commit" => stage \notin Returned
        BY <1>0 DEF Stages, Fresh, Returned
    <2>3. QED
        BY <2>1, <2>2, ContractStutter
<1>4. ASSUME NEW i \in inflight, Settle(i)
      PROVE  Contract!Next \/ UNCHANGED Contract!vars
    BY <1>4, ContractSettle
<1>5. CASE FinishStage
    <2>1. /\ stage \notin Returned /\ stage' \in Returned
          /\ UNCHANGED <<events, version, deltas, inflight>>
        BY <1>5 DEF FinishStage, Outcome, Returned
    <2>2. QED
        BY <2>1, ContractReturn DEF Contract!Next
<1>6. CASE CloseAcks \/ CtxDone \/ Stopped \/ UNCHANGED vars
    <2>1. UNCHANGED <<events, version, deltas, stage, inflight>>
        BY <1>6 DEF CloseAcks, CtxDone, Stopped, vars
    <2>2. QED
        BY <2>1, ContractStutter
<1>7. QED
    BY <1>1, <1>2, <1>3, <1>4, <1>5, <1>6 DEF Next, Caller

\* The stage keeps the contract that runDemo is built upon: whatever fails and
\* however the actors are scheduled, each of its steps is one of the contract
\* or leaves the contract's state alone.
THEOREM WriterImplementsContract == Spec => ImplementsContract
BY ContractInit, ContractStep, ContractInvariant, PTL
   DEF Spec, ImplementsContract, Contract!Spec
=============================================================================
