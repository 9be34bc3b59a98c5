----------------------------- MODULE MCCRMDemo -----------------------------
(* Small instances of CRMDemo.                                             *)
EXTENDS CRMDemo

CONSTANTS r1, w1

Update(a, r) == [ActorID |-> a, EntityID |-> r, Kind |-> "update"]
Ghost(a)     == [ActorID |-> a, EntityID |-> "ghost", Kind |-> "ghost"]

\* A change of a row and the ghost, by two actors: a COMMIT in doubt that
\* locks a row, and one that does not.
MCPlan  == <<Update(0, r1), Ghost(1)>>
MCRow   == {r1}
TwoRuns == (1 .. 2) \X (1 .. 2)

\* The same two by one actor: the ghost is due once the row has changed, and
\* COMMITs of two runs may be in doubt in the third.
MCPlanOne == <<Update(0, r1), Ghost(0)>>
ThreeRuns == (1 .. 3) \X (1 .. 2)
JustW1  == {w1}
=============================================================================
