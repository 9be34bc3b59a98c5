---------------------------- MODULE WriterStage ----------------------------
(***************************************************************************)
(* The writer stage: runWriters and applyAndEnqueue of simulation.go       *)
(* (flavors/postgres-redis; flavors/postgres-es holds the same code).      *)
(*                                                                         *)
(* One goroutine per actor runs its list of CRM mutations.  A mutation is  *)
(* one Postgres transaction: the row update and its outbox delta commit    *)
(* together.  Each goroutine hands an acknowledgement to the caller over   *)
(* an unbuffered channel; the first error cancels the run context.  The    *)
(* caller drains the channel until every goroutine is gone, then reports.  *)
(*                                                                         *)
(* An event is known by its position in the list, and so is its delta: the *)
(* payload, the origin and the timestamps play no part in the properties.  *)
(***************************************************************************)
EXTENDS Naturals, Sequences, FiniteSets

CONSTANTS
    WriterCount,  \* number of actors (WRITER_COUNT)
    Row,          \* identifiers of the rows of the CRM tables
    GhostID,      \* the identifier of the ghost event: no table holds it
    Plans         \* the event lists runWriters may be called with

Actor == 0 .. WriterCount - 1

Mutation == [ActorID: Nat, EntityID: Row, Kind: {"update"}]
              \cup [ActorID: Nat, EntityID: {GhostID}, Kind: {"ghost"}]

ASSUME WriterAssumption ==
    /\ WriterCount \in Nat \ {0}
    /\ GhostID \notin Row
    /\ Plans \subseteq Seq(Mutation)

VARIABLES
    events,        \* the argument: the planned mutations
    part,          \* how many of them have been dealt out to the actors
    actorEvents,   \* actorEvents[a]: positions in events of a's mutations
    stage,         \* "partition", "running", or how runWriters returned
    pc,            \* pc[a]: where the goroutine of a is
    pos,           \* pos[a]: index in actorEvents[a] of the current event
    failed,        \* failed[a]: the err that a acknowledges or acknowledged
    staged,        \* staged[a]: row version written by a's open transaction
    inflight,      \* events whose COMMIT is at the server, not yet settled
    version,       \* version[r]: committed version column of row r
    deltas,        \* committed outbox deltas
    cancelled,     \* cancel() of runCtx was called
    ctxDone,       \* the caller's context ended (deadline, or its parent's)
    closed,        \* ackCh is closed
    enqueued,      \* result.Enqueued
    firstFailure   \* event of the first failed acknowledgement, 0 if none

dbVars   == <<inflight, version, deltas>>
ctxVars  == <<cancelled, ctxDone>>
mainVars == <<events, part, actorEvents, stage, closed>>
ackVars  == <<enqueued, firstFailure>>
vars == <<mainVars, pc, pos, failed, staged, dbVars, ctxVars, ackVars>>

Returned == {"ok", "failed", "stopped", "invalid"}
PCs == {"idle", "check", "begin", "update", "enqueue", "commit", "reply",
        "ack", "return", "done"}

IsGhost(i)  == events[i].Kind = "ghost"
RunCtxErr   == cancelled \/ ctxDone
Remaining(a) == pos[a] <= Len(actorEvents[a])
Current(a)  == actorEvents[a][pos[a]]

Init ==
    /\ events \in Plans
    /\ part = 0
    /\ actorEvents = [a \in Actor |-> <<>>]
    /\ stage = "partition"
    /\ pc = [a \in Actor |-> "idle"]
    /\ pos = [a \in Actor |-> 1]
    /\ failed = [a \in Actor |-> FALSE]
    /\ staged = [a \in Actor |-> 0]
    /\ inflight = {}
    /\ version = [r \in Row |-> 1]
    /\ deltas = {}
    /\ cancelled = FALSE
    /\ ctxDone = FALSE
    /\ closed = FALSE
    /\ enqueued = 0
    /\ firstFailure = 0

----------------------------------------------------------------------------
(* The caller, before any goroutine exists.                                *)

\* One turn of the loop that deals the events out; an ActorID that has no
\* list ends the call before anything was written.
PartitionEvent ==
    /\ stage = "partition"
    /\ part < Len(events)
    /\ LET id == events[part + 1].ActorID IN
       IF id \in Actor
       THEN /\ actorEvents' = [actorEvents EXCEPT ![id] = Append(@, part + 1)]
            /\ part' = part + 1
            /\ UNCHANGED stage
       ELSE /\ stage' = "invalid"
            /\ UNCHANGED <<actorEvents, part>>
    /\ UNCHANGED <<events, closed, pc, pos, failed, staged, dbVars, ctxVars,
                   ackVars>>

\* The loop over actorEvents that starts one goroutine per actor.
StartActors ==
    /\ stage = "partition"
    /\ part = Len(events)
    /\ stage' = "running"
    /\ pc' = [a \in Actor |-> "check"]
    /\ UNCHANGED <<events, part, actorEvents, closed, pos, failed, staged,
                   dbVars, ctxVars, ackVars>>

----------------------------------------------------------------------------
(* The goroutine of actor a.                                               *)

\* The head of the range loop, with the test of runCtx.Err().
NextEvent(a) ==
    /\ pc[a] = "check"
    /\ pc' = [pc EXCEPT ![a] =
                 IF Remaining(a) /\ ~RunCtxErr THEN "begin" ELSE "done"]
    /\ UNCHANGED <<mainVars, pos, failed, staged, dbVars, ctxVars, ackVars>>

\* BeginTx, then the ghost test: a ghost event updates no row.
BeginTx(a) ==
    /\ pc[a] = "begin"
    /\ ~RunCtxErr
    /\ pc' = [pc EXCEPT ![a] =
                 IF IsGhost(Current(a)) THEN "enqueue" ELSE "update"]
    /\ UNCHANGED <<mainVars, pos, failed, staged, dbVars, ctxVars, ackVars>>

\* Transactions that hold a row lock: from their UPDATE until the server
\* has settled their COMMIT or they are rolled back.
OpenTx == {Current(b) : b \in {x \in Actor : pc[x] \in {"enqueue", "commit"}}}
            \cup inflight

RowLocked(r) == \E i \in OpenTx : ~IsGhost(i) /\ events[i].EntityID = r

ApplyMutation_Autocommit(a) ==
    /\ pc[a] = "update"
    /\ ~RunCtxErr
    /\ LET row == events[Current(a)].EntityID IN
          /\ ~RowLocked(row)
          /\ staged' = [staged EXCEPT ![a] = version[row] + 1]
          /\ version' = [version EXCEPT ![row] = @ + 1]
    /\ pc' = [pc EXCEPT ![a] = "enqueue"]
    /\ UNCHANGED <<mainVars, pos, failed, inflight, deltas, ctxVars, ackVars>>

\* applyMutation: UPDATE .. SET version = version + 1 under the row lock.
\* Which of the entity's columns it sets is abstracted.
ApplyMutation(a) ==
    /\ pc[a] = "update"
    /\ ~RunCtxErr
    /\ LET row == events[Current(a)].EntityID IN
          /\ ~RowLocked(row)
          /\ staged' = [staged EXCEPT ![a] = version[row] + 1]
    /\ pc' = [pc EXCEPT ![a] = "enqueue"]
    /\ UNCHANGED <<mainVars, pos, failed, dbVars, ctxVars, ackVars>>

EnqueueInTx_OwnConnection(a) ==
    /\ pc[a] = "enqueue"
    /\ ~RunCtxErr
    /\ pc' = [pc EXCEPT ![a] = "commit"]
    /\ deltas' = deltas \cup {Current(a)}
    /\ UNCHANGED <<mainVars, pos, failed, staged, inflight, version, ctxVars,
                   ackVars>>

\* EnqueueInTx: the delta is inserted in the open transaction.
EnqueueInTx(a) ==
    /\ pc[a] = "enqueue"
    /\ ~RunCtxErr
    /\ pc' = [pc EXCEPT ![a] = "commit"]
    /\ UNCHANGED <<mainVars, pos, failed, staged, dbVars, ctxVars, ackVars>>

\* tx.Commit, its first half: COMMIT goes to the server.
SendCommit(a) ==
    /\ pc[a] = "commit"
    /\ ~RunCtxErr
    /\ pc' = [pc EXCEPT ![a] = "reply"]
    /\ inflight' = inflight \cup {Current(a)}
    /\ UNCHANGED <<mainVars, pos, failed, staged, version, deltas, ctxVars,
                   ackVars>>

\* tx.Commit, its second half: the server's answer arrives.
CommitReturns(a) ==
    /\ pc[a] = "reply"
    /\ Current(a) \in deltas
    /\ pc' = [pc EXCEPT ![a] = "ack"]
    /\ UNCHANGED <<mainVars, pos, failed, staged, dbVars, ctxVars, ackVars>>

\* A call of applyAndEnqueue returns an error, and its deferred Rollback
\* drops the open transaction: a lost connection, a refused statement, an
\* UPDATE that found no row.  A Commit that fails leaves in doubt what the
\* server made of it.
Fail(a) ==
    /\ pc' = [pc EXCEPT ![a] = "ack"]
    /\ failed' = [failed EXCEPT ![a] = TRUE]
    /\ UNCHANGED <<mainVars, pos, staged, dbVars, ctxVars, ackVars>>

DBError(a) ==
    /\ pc[a] \in {"begin", "update", "enqueue", "commit", "reply"}
    /\ Fail(a)

\* The same, because runCtx is done: database/sql gives up every call.
CtxError(a) ==
    /\ pc[a] \in {"begin", "update", "enqueue", "commit", "reply"}
    /\ RunCtxErr
    /\ Fail(a)

\* After an error the goroutine gives up; otherwise it takes its next event.
AfterAck_SkipFailed(a) ==
    /\ pc' = [pc EXCEPT ![a] = "check"]
    /\ pos' = [pos EXCEPT ![a] = @ + 1]

AfterAck(a) ==
    IF failed[a]
    THEN pc' = [pc EXCEPT ![a] = "return"] /\ UNCHANGED pos
    ELSE pc' = [pc EXCEPT ![a] = "check"] /\ pos' = [pos EXCEPT ![a] = @ + 1]

CountAck_AllAcks(a) ==
    /\ enqueued' = enqueued + 1
    /\ firstFailure' = IF failed[a] /\ firstFailure = 0 THEN Current(a)
                                                        ELSE firstFailure
    /\ cancelled' = (cancelled \/ failed[a])

\* The caller's receive loop: count a success, keep the first failure and
\* cancel the run.
CountAck(a) ==
    IF failed[a]
    THEN /\ firstFailure' = IF firstFailure = 0 THEN Current(a)
                                                ELSE firstFailure
         /\ cancelled' = TRUE
         /\ UNCHANGED enqueued
    ELSE /\ enqueued' = enqueued + 1
         /\ UNCHANGED <<firstFailure, cancelled>>

\* The rendezvous on ackCh: a's send and the caller's receive are one step.
SendAck(a) ==
    /\ pc[a] = "ack"
    /\ stage = "running"
    /\ AfterAck(a)
    /\ CountAck(a)
    /\ UNCHANGED <<mainVars, failed, staged, dbVars, ctxDone>>

\* cancel() and return, after a failed acknowledgement.
CancelAndReturn(a) ==
    /\ pc[a] = "return"
    /\ cancelled' = TRUE
    /\ pc' = [pc EXCEPT ![a] = "done"]
    /\ UNCHANGED <<mainVars, pos, failed, staged, dbVars, ctxDone, ackVars>>

----------------------------------------------------------------------------
(* The Postgres server settles a COMMIT: it publishes the row version and  *)
(* the delta at once, or rolls the transaction back.                       *)

Publish(i) ==
    /\ version' = IF IsGhost(i) THEN version
                  ELSE [version EXCEPT ![events[i].EntityID] =
                                          staged[events[i].ActorID]]
    /\ deltas' = deltas \cup {i}

ServerCommits(i) ==
    /\ i \in inflight
    /\ Publish(i)
    /\ inflight' = inflight \ {i}
    /\ UNCHANGED <<mainVars, pc, pos, failed, staged, ctxVars, ackVars>>

\* The server side of a COMMIT is lost together with its session.  The
\* caller learns of it as an error.
ServerAborts(i) ==
    /\ i \in inflight
    /\ inflight' = inflight \ {i}
    /\ \/ /\ pc[events[i].ActorID] = "reply"
          /\ Current(events[i].ActorID) = i
          /\ pc' = [pc EXCEPT ![events[i].ActorID] = "ack"]
          /\ failed' = [failed EXCEPT ![events[i].ActorID] = TRUE]
       \/ /\ pc[events[i].ActorID] # "reply"
          /\ UNCHANGED <<pc, failed>>
    /\ UNCHANGED <<mainVars, pos, staged, version, deltas, ctxVars, ackVars>>

----------------------------------------------------------------------------
(* The caller and its context.                                             *)

\* The deadline of main (two minutes) passes, or the caller is cancelled.
CtxDone ==
    /\ stage \in {"partition", "running"}
    /\ ~ctxDone
    /\ ctxDone' = TRUE
    /\ UNCHANGED <<mainVars, pc, pos, failed, staged, dbVars, cancelled,
                   ackVars>>

AllActorsDone_MissedOnError == \A a \in Actor : pc[a] = "done" /\ ~failed[a]

AllActorsDone == \A a \in Actor : pc[a] = "done"

\* wg.Wait, then close(ackCh).
CloseAcks ==
    /\ stage = "running"
    /\ ~closed
    /\ AllActorsDone
    /\ closed' = TRUE
    /\ UNCHANGED <<events, part, actorEvents, stage, pc, pos, failed, staged,
                   dbVars, ctxVars, ackVars>>

Outcome_IgnoreCtx == IF firstFailure # 0 THEN "failed" ELSE "ok"

Outcome ==
    IF firstFailure # 0 THEN "failed" ELSE IF ctxDone THEN "stopped" ELSE "ok"

AcksDrained_FirstFailure == closed \/ firstFailure # 0

\* The condition on which the receive loop ends: the channel is closed.
AcksDrained == closed

\* The receive loop ends on the closed channel; the result is reported and
\* the deferred cancel runs.
FinishStage ==
    /\ stage = "running"
    /\ AcksDrained
    /\ stage' = Outcome
    /\ cancelled' = TRUE
    /\ UNCHANGED <<events, part, actorEvents, closed, pc, pos, failed, staged,
                   dbVars, ctxDone, ackVars>>

\* runWriters has returned and the server owes no answer.
Stopped == stage \in Returned /\ inflight = {} /\ UNCHANGED vars

----------------------------------------------------------------------------
ActorStep(a) ==
    \/ NextEvent(a) \/ BeginTx(a) \/ ApplyMutation(a) \/ EnqueueInTx(a)
    \/ SendCommit(a) \/ CommitReturns(a) \/ CtxError(a) \/ SendAck(a)
    \/ CancelAndReturn(a)

Settle(i) == ServerCommits(i) \/ ServerAborts(i)

Caller == PartitionEvent \/ StartActors \/ CloseAcks \/ FinishStage

Next ==
    \/ Caller
    \/ \E a \in Actor : ActorStep(a) \/ DBError(a)
    \/ \E i \in inflight : Settle(i)
    \/ CtxDone
    \/ Stopped

Spec == Init /\ [][Next]_vars

\* The Go scheduler runs every runnable goroutine, and Postgres settles
\* every COMMIT it has received.  Errors and the deadline may never come.
FairSpec ==
    /\ Spec
    /\ WF_vars(Caller)
    /\ \A a \in Actor : WF_vars(ActorStep(a))
    /\ WF_vars(\E i \in inflight : Settle(i))

----------------------------------------------------------------------------
(* Properties.                                                             *)

Event == 1 .. Len(events)

TypeOK ==
    /\ events \in Plans
    /\ part \in 0 .. Len(events)
    /\ actorEvents \in [Actor -> Seq(Event)]
    /\ stage \in {"partition", "running"} \cup Returned
    /\ pc \in [Actor -> PCs]
    /\ pos \in [Actor -> Nat \ {0}]
    /\ failed \in [Actor -> BOOLEAN]
    /\ staged \in [Actor -> Nat]
    /\ inflight \subseteq Event
    /\ version \in [Row -> Nat]
    /\ deltas \subseteq Event
    /\ cancelled \in BOOLEAN /\ ctxDone \in BOOLEAN /\ closed \in BOOLEAN
    /\ enqueued \in Nat
    /\ firstFailure \in 0 .. Len(events)

\* Transactional outbox (README: "every application-side CRM mutation and
\* its Delta are committed in the same Postgres transaction"): at every
\* moment, so at every crash too, a row has been changed exactly as often as
\* there are deltas for it.  No update is lost, none goes unannounced.
DeltasOf(r) == {i \in deltas : ~IsGhost(i) /\ events[i].EntityID = r}

VersionCountsDeltas ==
    \A r \in Row : version[r] = 1 + Cardinality(DeltasOf(r))

\* Each actor's changes commit in the order planned and without a gap: the
\* deltas of an actor are those of the events it has got past, plus possibly
\* the current one (its COMMIT was settled, or the answer to it was lost).
Past(a) == {actorEvents[a][k] : k \in 1 .. pos[a] - 1}

CommittedInOrder ==
    \A a \in Actor :
        LET mine == {i \in deltas : events[i].ActorID = a} IN
        \/ mine = Past(a)
        \/ /\ pc[a] \in {"reply", "ack", "return", "done"}
           /\ Remaining(a)
           /\ mine = Past(a) \cup {Current(a)}

\* runWriters returns nil only if every planned event is committed, and the
\* server has no transaction left that could still add a delta: this is what
\* lets runDemo set writersDone.
OkMeansAllCommitted ==
    stage = "ok" => deltas = Event /\ inflight = {}

\* The number of committed deltas in the error message of runWriters is
\* never too high, and too low by at most one for each actor that ended with
\* an error, whose last Commit may be in doubt.  When none did, it is exact.
ReportedCountBounds ==
    stage \in Returned =>
        /\ enqueued <= Cardinality(deltas)
        /\ Cardinality(deltas)
             <= enqueued + Cardinality({a \in Actor : failed[a]})

\* When runWriters has returned, no goroutine it started is left: none runs
\* on a database its caller may close, none is stuck sending on ackCh.
NoWriterLeftBehind ==
    stage \in Returned => \A a \in Actor : pc[a] \in {"idle", "done"}

\* What the error message says: "writer stage failed after %d/%d committed
\* deltas".
ReportedIsCommitted ==
    stage = "failed" => enqueued = Cardinality(deltas)

\* The stage keeps the contract its callers rely on (WriterContract): a row
\* and its delta appear in one step, in the order of each actor; nothing but
\* COMMITs already at the server happens after runWriters has returned.
Contract == INSTANCE WriterContract WITH
    stage <- IF stage \notin Returned THEN "running"
             ELSE IF stage = "ok" THEN "ok" ELSE "error",
    doubt <- IF stage \in Returned THEN inflight ELSE {}

ImplementsContract == Contract!Spec

\* runWriters returns, whatever fails and whenever the context ends.
StageReturns == <>(stage \in Returned)
=============================================================================
