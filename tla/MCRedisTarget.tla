--------------------------- MODULE MCRedisTarget ---------------------------
(* Small instances of RedisTarget.                                         *)
EXTENDS RedisTarget, TLC

CONSTANTS d1, d2, d3, d4, o1, o2, c1, c2, s1, s2

MCOrder      == {o1, o2}
MCCustomer   == {c1, c2}
MCCustomerOf == (o1 :> c1) @@ (o2 :> c2)
MCTotals     == (o1 :> 1) @@ (o2 :> 10)
OneSlot      == {s1}
TwoSlots     == {s1, s2}

Total(o, n) == [Kind |-> "total", EntityID |-> o, Value |-> n]
Status(o)   == [Kind |-> "status", EntityID |-> o]
Ghost       == [Kind |-> "ghost", EntityID |-> NoValue]
Other       == [Kind |-> "other", EntityID |-> NoValue]

\* Two changes of one order and one of the other: both keys of o1 are
\* refreshed twice, the global key by every job.
TotalsPlan == (d1 :> Total(o1, 2)) @@ (d2 :> Total(o1, 3)) @@ (d3 :> Total(o2, 20))

\* The tail of buildScenario (the retry order, the dead order, the ghost) and
\* a change of a customer.
TailPlan == (d1 :> Total(o1, 2)) @@ (d2 :> Status(o2)) @@ (d3 :> Ghost)
               @@ (d4 :> Other)

ThreeDeltas == {d1, d2, d3}
FourDeltas  == {d1, d2, d3, d4}
JustO1 == {o1}
JustO2 == {o2}
None == {}
=============================================================================
