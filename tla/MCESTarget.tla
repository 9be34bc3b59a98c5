---------------------------- MODULE MCESTarget ----------------------------
(* Small instances of ESTarget.                                            *)
EXTENDS ESTarget, TLC

CONSTANTS d1, d2, d3, d4, c1, o1, s1, s2

MCEntity    == {c1, o1, Ghost}
JustC1      == {c1}
JustO1      == {o1}
OneSlot     == {s1}
TwoSlots    == {s1, s2}
ThreeDeltas == {d1, d2, d3}
FourDeltas  == {d1, d2, d3, d4}

\* Three changes of one customer: its document is written side by side.
SameDocument == (d1 :> c1) @@ (d2 :> c1) @@ (d3 :> c1)

\* A customer's change, then the tail of buildScenario: the retry customer,
\* the dead order, the ghost.
ScenarioTail == (d1 :> c1) @@ (d2 :> c1) @@ (d3 :> o1) @@ (d4 :> Ghost)
=============================================================================
