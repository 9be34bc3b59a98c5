----------------------------- MODULE ReadModel -----------------------------
(***************************************************************************)
(* What a target promises: an eventually consistent copy of what Postgres  *)
(* holds.  A key of the copy is owed while a change of it has been         *)
(* committed and not yet worked off.  The copy of a key may be rewritten   *)
(* at any time while it is owed, with any value, and at no other time; the *)
(* debt is settled only when the copy is right.                            *)
(*                                                                         *)
(* RedisTarget (metric keys) and ESTarget (documents) implement it.        *)
(***************************************************************************)

CONSTANT Key

VARIABLES
    source,   \* source[k]: what Postgres gives for k now
    copy,     \* copy[k]: what the target holds
    owed      \* keys with a change that has not been worked off

vars == <<source, copy, owed>>

SameExcept(f, g, K) == \A k \in Key \ K : g[k] = f[k]

Init ==
    /\ owed \subseteq Key
    /\ \A k \in Key \ owed : copy[k] = source[k]

\* A transaction commits that changes what Postgres gives for some keys, or
\* announces a change of them: they are owed from now on.
Change ==
    /\ owed \subseteq owed' /\ owed' \subseteq Key
    /\ SameExcept(source, source', owed')
    /\ UNCHANGED copy

\* The target writes owed keys; the values may be old ones.
Write ==
    /\ SameExcept(copy, copy', owed)
    /\ UNCHANGED <<source, owed>>

\* The last jobs that concerned some keys are done.
Settle ==
    /\ owed' \subseteq owed
    /\ \A k \in owed \ owed' : copy[k] = source[k]
    /\ UNCHANGED <<source, copy>>

Next == Change \/ Write \/ Settle

Spec == Init /\ [][Next]_vars

\* A key differs from Postgres only while it is owed: the copy lags, and is
\* never wrong for good.
StaleIsOwed == \A k \in Key : copy[k] # source[k] => k \in owed
=============================================================================
