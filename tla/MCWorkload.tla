----------------------------- MODULE MCWorkload -----------------------------
(* Small instances of Workload.                                            *)
EXTENDS Workload

\* With Base 3 and Width 1, order 3 has two digits and sorts before order 2.
MCDefault ==
    [s \in Names |->
        CASE s = "USER_COUNT"     -> 1
          [] s = "CUSTOMER_COUNT" -> 2
          [] s = "ORDER_COUNT"    -> 3
          [] s = "MUTATION_COUNT" -> 3
          [] s = "WRITER_COUNT"   -> 4
          [] OTHER                -> 1]

\* The environment changes up to one setting to any of these values.
MCEnvironments ==
    {[s \in Names |-> IF s = t THEN v ELSE Unset] :
        t \in Names, v \in {Unset, Text, -1, 0, 1, 3, 5}}

\* None, or the rows of a smaller run.
MCEarlier == {0, 1}
=============================================================================
