--------------------------- MODULE WriterContract ---------------------------
(***************************************************************************)
(* What the writer stage promises to the rest of the program, without its  *)
(* goroutines, channels and contexts: the outbox.  A change of a row and   *)
(* the delta that announces it become visible in one step, each actor's    *)
(* changes in the order planned.  A return without an error says that all  *)
(* of them are there; a return with an error leaves at most one COMMIT per *)
(* actor in doubt, and nothing else can happen after it.                   *)
(*                                                                         *)
(* WriterStage implements this module, and CRMDemo is built upon it.       *)
(***************************************************************************)
EXTENDS Naturals, Sequences, FiniteSets

CONSTANTS
    Row,          \* identifiers of the rows of the CRM tables
    Plans         \* the event lists, see WriterStage

VARIABLES
    events,    \* the planned mutations
    version,   \* version[r]: committed version column of row r
    deltas,    \* events whose change is committed
    stage,     \* "running", or how runWriters returned: "ok", "error"
    doubt      \* after an error: events whose COMMIT may still succeed

vars == <<events, version, deltas, stage, doubt>>

Event == 1 .. Len(events)

Mine(i) == {j \in Event : events[j].ActorID = events[i].ActorID}

\* The next event of an actor: all its earlier ones are committed.
Due(i) == i \notin deltas /\ \A j \in Mine(i) : j < i => j \in deltas

DueEvents == {i \in Event : Due(i)}

Init ==
    /\ events \in Plans
    /\ version = [r \in Row |-> 1]
    /\ deltas = {}
    /\ stage = "running"
    /\ doubt = {}

\* The row goes up by one version, no update is lost; a ghost has no row.
Publish(i) ==
    /\ deltas' = deltas \cup {i}
    /\ version' = IF events[i].Kind = "ghost" THEN version
                  ELSE [version EXCEPT ![events[i].EntityID] = @ + 1]

Commit(i) ==
    /\ stage = "running"
    /\ Due(i)
    /\ Publish(i)
    /\ UNCHANGED <<events, stage, doubt>>

ReturnOk ==
    /\ stage = "running"
    /\ deltas = Event
    /\ stage' = "ok"
    /\ UNCHANGED <<events, version, deltas, doubt>>

ReturnError ==
    /\ stage = "running"
    /\ stage' = "error"
    /\ doubt' \in SUBSET DueEvents
    /\ UNCHANGED <<events, version, deltas>>

\* The server settles a COMMIT that the caller has given up.
LateCommit(i) ==
    /\ i \in doubt
    /\ Publish(i)
    /\ doubt' = doubt \ {i}
    /\ UNCHANGED <<events, stage>>

LateAbort(i) ==
    /\ i \in doubt
    /\ doubt' = doubt \ {i}
    /\ UNCHANGED <<events, version, deltas, stage>>

Next ==
    \/ \E i \in Event : Commit(i)
    \/ ReturnOk
    \/ ReturnError
    \/ \E i \in doubt : LateCommit(i) \/ LateAbort(i)

Spec == Init /\ [][Next]_vars
=============================================================================
