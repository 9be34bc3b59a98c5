--------------------------- MODULE MCWriterStage ---------------------------
(* Small plans for WriterStage.                                            *)
EXTENDS WriterStage

CONSTANTS r1, r2

Update(a, r) == [ActorID |-> a, EntityID |-> r, Kind |-> "update"]
Ghost(a)     == [ActorID |-> a, EntityID |-> GhostID, Kind |-> "ghost"]

\* Two actors that contend for r1, each with a second event; the last event
\* of actor 0 is the ghost, as in buildScenario.
ContendedPlan == <<Update(0, r1), Update(1, r1), Update(1, r2), Ghost(0)>>

\* Three actors; all change r1.
ThreeActorPlan == <<Update(0, r1), Update(1, r1), Update(2, r1), Ghost(0)>>

\* An ActorID without a list: what WRITER_COUNT >= 4 keeps out.
InvalidPlan == <<Update(0, r1), Update(3, r2)>>

MCRow == {r1, r2}
MCPlans == {ContendedPlan, InvalidPlan, <<>>}
MCPlans3 == {ThreeActorPlan, ContendedPlan}
=============================================================================
