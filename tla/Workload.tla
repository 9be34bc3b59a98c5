------------------------------ MODULE Workload ------------------------------
(***************************************************************************)
(* loadConfig (main.go) and buildScenario (simulation.go): the settings    *)
(* are read from the environment, the CRM tables are filled, the target    *)
(* gets its faults and the events of the run are planned.  The faker is    *)
(* seeded and may pick anything, so its picks are nondeterministic here.   *)
(*                                                                         *)
(* Names, e-mails and amounts are left out; a value keeps its Go type, on  *)
(* which the type assertions of applyMutation depend.  An ID keeps what    *)
(* sorting it as a string depends on: the characters after its prefix.     *)
(***************************************************************************)
EXTENDS Integers, SequencesExt

CONSTANTS
    Default,       \* the defaults of the settings
    Environments,  \* the environments to start in
    Unset, Text,   \* a variable that is not set; one that is no integer
    Base, Width,   \* the number system of IDs; in the code 10, and %03d
    Earlier        \* bound: numbers of rows an earlier run may have left

Setting == <<"SIM_SEED", "USER_COUNT", "CUSTOMER_COUNT", "ORDER_COUNT",
             "MUTATION_COUNT", "WRITER_COUNT", "WORKERS_CONCURRENCY",
             "WORKERS_BATCH_SIZE", "WORKERS_MAX_ATTEMPTS">>
Names == Range(Setting)

ASSUME WorkloadAssumption ==
    /\ Default \in [Names -> Nat \ {0}] /\ Default["WRITER_COUNT"] >= 4
    /\ Environments \subseteq [Names -> Int \cup {Unset, Text}]
    /\ Base \in Nat \ {0, 1} /\ Width \in Nat \ {0}
    /\ Earlier \subseteq Nat

VARIABLES
    flavor,   \* which of the two programs: "redis" or "es"
    env,      \* the environment of the process
    config,   \* the settings read so far, in their order
    stage,    \* where loadConfig and buildScenario are
    rows,     \* the committed IDs of each CRM table
    todo,     \* the statements of reset that are left
    tx,       \* the tables as the transaction of reset sees them
    faults,   \* the failOnce and deadLetters of the target
    events    \* the plan

vars == <<flavor, env, config, stage, rows, todo, tx, faults, events>>

----------------------------------------------------------------------------
(* IDs.                                                                    *)

\* The digits of n.
numeral[n \in Nat] ==
    IF n < Base THEN <<n>> ELSE Append(numeral[n \div Base], n % Base)

\* The digits of n, padded with zeros as %03d does, but never cut.
Digits(n) ==
    LET len   == Len(numeral[n])
        zeros == IF len < Width THEN Width - len ELSE 0
    IN [i \in 1 .. zeros |-> 0] \o numeral[n]

\* "ord-dead-001", "ord-ghost-001", "cus-ghost-001": a letter follows every
\* digit in the order of strings, and "d" precedes "g".
Dead  == <<Base>>
Ghost == <<Base + 1>>

IDBefore(s, t) ==
    \/ IsStrictPrefix(s, t)
    \/ \E i \in DOMAIN s \cap DOMAIN t :
          s[i] < t[i] /\ \A j \in 1 .. i - 1 : s[j] = t[j]

\* The keys in their order: i - 1 of them are before the i-th.
sortedKeys(items) ==
    [i \in 1 .. Cardinality(items) |->
        CHOOSE id \in items : Cardinality({k \in items : IDBefore(k, id)}) = i - 1]

----------------------------------------------------------------------------
(* The tables and the mutations they take.                                 *)

Tables == {"user", "customer", "order"}

ProjectionOf == [user |-> "CRMUserView", customer |-> "CRMCustomerView",
                 order |-> "CRMOrderFanout"]

\* applyMutation: the kinds a table knows, and the Go type each asserts.
Accepts(entity) ==
    CASE entity = "user"     -> [roles |-> "[]string", name |-> "string"]
      [] entity = "customer" -> [email |-> "string", phone |-> "string",
                                 vip |-> "bool"]
      [] entity = "order"    -> [status |-> "string", total |-> "int"]

NoRows == [table \in Tables |-> {}]

Numbered(n) == {Digits(i) : i \in 1 .. n}

Users     == sortedKeys(Numbered(config["USER_COUNT"]))
Customers == sortedKeys(Numbered(config["CUSTOMER_COUNT"]))
Orders    == sortedKeys(Numbered(config["ORDER_COUNT"]) \cup {Dead})

Generated == [user |-> Range(Users), customer |-> Range(Customers),
              order |-> Range(Orders)]

Init ==
    /\ flavor \in {"redis", "es"}
    /\ env \in Environments
    /\ config = [s \in {} |-> 0]
    /\ stage = "config"
    /\ \E n \in Earlier :
          rows = [table \in Tables |-> IF table = "order" /\ n > 0
                                       THEN Numbered(n) \cup {Dead}
                                       ELSE Numbered(n)]
    /\ todo = <<>>
    /\ tx = NoRows
    /\ faults = [failOnce |-> {}, deadLetters |-> {}]
    /\ events = <<>>

----------------------------------------------------------------------------
(* loadConfig.                                                             *)

\* EnvInt and EnvUint64.  Zero stands for the error.
EnvInt(value, default) ==
    CASE value = Unset -> default
      [] value = Text  -> 0
      [] OTHER         -> IF value > 0 THEN value ELSE 0

NextSetting == Setting[Cardinality(DOMAIN config) + 1]

Usable(name, value) ==
    /\ value > 0
    /\ name = "WRITER_COUNT" => value >= 4

\* The next setting is read and checked.  An error ends the program.
LoadSetting ==
    /\ stage = "config"
    /\ LET value == EnvInt(env[NextSetting], Default[NextSetting])
       IN /\ config' = [s \in DOMAIN config \cup {NextSetting} |->
                            IF s = NextSetting THEN value ELSE config[s]]
          /\ stage' = IF ~Usable(NextSetting, value) THEN "failed"
                      ELSE IF NextSetting = Last(Setting) THEN "schema"
                      ELSE "config"
    /\ UNCHANGED <<flavor, env, rows, todo, tx, faults, events>>

----------------------------------------------------------------------------
(* buildScenario: the schema, the rows, the target.                        *)

ResetStatements ==
    << <<"delete", "order">>, <<"delete", "customer">>, <<"delete", "user">>,
       <<"insert", "user">>, <<"insert", "customer">>, <<"insert", "order">> >>

\* ensureSchema keeps tables that exist; then reset begins its transaction.
EnsureSchema ==
    /\ stage = "schema"
    /\ stage' = "reset"
    /\ todo' = ResetStatements
    /\ tx' = rows
    /\ UNCHANGED <<flavor, env, config, rows, faults, events>>

After(statement, tables) ==
    [tables EXCEPT ![statement[2]] =
        IF statement[1] = "delete" THEN {} ELSE Generated[statement[2]]]

ResetStatement_Autocommit ==
    /\ stage = "reset" /\ todo # <<>>
    /\ rows' = After(Head(todo), rows)
    /\ todo' = Tail(todo)
    /\ tx' = rows'
    /\ UNCHANGED <<flavor, env, config, stage, faults, events>>

\* One statement (an insert is one for each row) of the transaction of reset.
ResetStatement ==
    /\ stage = "reset" /\ todo # <<>>
    /\ tx' = After(Head(todo), tx)
    /\ todo' = Tail(todo)
    /\ UNCHANGED <<flavor, env, config, stage, rows, faults, events>>

ResetCommits ==
    /\ stage = "reset" /\ todo = <<>>
    /\ rows' = tx
    /\ stage' = "target"
    /\ UNCHANGED <<flavor, env, config, todo, tx, faults, events>>

RetryTable == IF flavor = "redis" THEN "order" ELSE "customer"

\* retryOrderID, retryCustomerID: the entity whose first write times out.
RetryID ==
    IF flavor = "redis" THEN Orders[1]
    ELSE IF Len(Customers) > 1 THEN Customers[2] ELSE Customers[1]

NewTarget_OtherView ==
    /\ stage = "target"
    /\ faults' = [failOnce |-> {<<ProjectionOf["user"], RetryID>>},
                  deadLetters |-> {<<ProjectionOf["order"], Dead>>}]
    /\ stage' = "plan"
    /\ UNCHANGED <<flavor, env, config, rows, todo, tx, events>>

\* newCRMTarget gets the keys "projection/id" at which it has to fail.
NewTarget ==
    /\ stage = "target"
    /\ faults' = [failOnce |-> {<<ProjectionOf[RetryTable], RetryID>>},
                  deadLetters |-> {<<ProjectionOf["order"], Dead>>}]
    /\ stage' = "plan"
    /\ UNCHANGED <<flavor, env, config, rows, todo, tx, events>>

\* A statement, the COMMIT or the target fails, or the process is killed: the
\* transaction is rolled back, the program ends.
Fail ==
    /\ stage \in {"schema", "reset", "target"}
    /\ stage' = "failed"
    /\ tx' = NoRows
    /\ UNCHANGED <<flavor, env, config, rows, todo, faults, events>>

----------------------------------------------------------------------------
(* buildScenario: the events.                                              *)

EntityCycle == <<"user", "customer", "order", "customer", "order">>

mutation_FromZero(actor, entity, id, kind, type) ==
    [Seq |-> Len(events), ActorID |-> actor, Entity |-> entity,
     EntityID |-> id, Kind |-> kind, Type |-> type,
     Projection |-> ProjectionOf[entity]]

mutation(actor, entity, id, kind, type) ==
    [Seq |-> Len(events) + 1, ActorID |-> actor, Entity |-> entity,
     EntityID |-> id, Kind |-> kind, Type |-> type,
     Projection |-> ProjectionOf[entity]]

KindOf(entity, seq) ==
    CASE entity = "user"     -> IF seq % 2 = 0 THEN "roles" ELSE "name"
      [] entity = "customer" -> <<"email", "phone", "vip">>[(seq % 3) + 1]
      [] entity = "order"    -> IF seq % 2 = 0 THEN "status" ELSE "total"

\* The type of the value next to the kind: rolesFor, statusFor, the faker.
TypeOf(entity, seq) ==
    CASE entity = "user"     -> IF seq % 2 = 0 THEN "[]string" ELSE "string"
      [] entity = "customer" -> IF seq % 3 \in {0, 1} THEN "string" ELSE "bool"
      [] entity = "order"    -> IF seq % 2 = 0 THEN "string" ELSE "int"

Pickable_All(entity) ==
    CASE entity = "user"     -> Range(Users)
      [] entity = "customer" -> Range(Customers)
      [] entity = "order"    -> Range(Orders)

\* Orders are picked by an index that stops before the last one.
Pickable(entity) ==
    CASE entity = "user"     -> Range(Users)
      [] entity = "customer" -> Range(Customers)
      [] entity = "order"    -> {Orders[i] : i \in 1 .. Len(Orders) - 1}

PlanMutation_ParityOfNext(n) ==
    /\ stage = "plan" /\ Len(events) < config["MUTATION_COUNT"]
    /\ LET seq == Len(events) + 1
           entity == EntityCycle[((seq + n) % Len(EntityCycle)) + 1]
       IN \E id \in Pickable(entity) :
             events' = Append(events,
                 mutation(seq % config["WRITER_COUNT"], entity, id,
                          KindOf(entity, seq), TypeOf(entity, seq + 1)))
    /\ UNCHANGED <<flavor, env, config, stage, rows, todo, tx, faults>>

\* The next random mutation; n and the entity are the faker's picks.
PlanMutation(n) ==
    /\ stage = "plan" /\ Len(events) < config["MUTATION_COUNT"]
    /\ LET seq == Len(events) + 1
           entity == EntityCycle[((seq + n) % Len(EntityCycle)) + 1]
       IN \E id \in Pickable(entity) :
             events' = Append(events,
                 mutation(seq % config["WRITER_COUNT"], entity, id,
                          KindOf(entity, seq), TypeOf(entity, seq)))
    /\ UNCHANGED <<flavor, env, config, stage, rows, todo, tx, faults>>

Special ==
    << IF flavor = "redis" THEN mutation(2, "order", RetryID, "total", "int")
                           ELSE mutation(2, "customer", RetryID, "phone", "string"),
       mutation(3, "order", Dead, "status", "string"),
       mutation(0, RetryTable, Ghost, "ghost", "nil") >>

\* The three special events: the timeout, the dead letter, the ghost.
PlanSpecial ==
    /\ stage = "plan"
    /\ LET k == Len(events) - config["MUTATION_COUNT"] + 1
       IN /\ k \in 1 .. 3
          /\ events' = Append(events, Special[k])
          /\ stage' = IF k = 3 THEN "ready" ELSE "plan"
    /\ UNCHANGED <<flavor, env, config, rows, todo, tx, faults>>

\* The program goes on with runWriters, or it has ended.
Stopped == stage \in {"ready", "failed"} /\ UNCHANGED vars

Next ==
    \/ LoadSetting
    \/ EnsureSchema \/ ResetStatement \/ ResetCommits \/ NewTarget \/ Fail
    \/ \E n \in 0 .. 4 : PlanMutation(n)
    \/ PlanSpecial
    \/ Stopped

Spec == Init /\ [][Next]_vars

----------------------------------------------------------------------------
(* Properties.                                                             *)

IsTables(t) == DOMAIN t = Tables /\ \A table \in Tables : \A id \in t[table] :
                                        id \in Seq(0 .. Base)
TypeOK ==
    /\ DOMAIN config \subseteq Names
    /\ stage \in {"config", "schema", "reset", "target", "plan", "ready", "failed"}
    /\ IsTables(rows) /\ IsTables(tx)
    /\ todo \in {SubSeq(ResetStatements, i, 6) : i \in 1 .. 7}
    /\ \A i \in DOMAIN events : events[i].Seq = i

\* A complete plan can be carried out: each event belongs to an actor that
\* runWriters starts, whatever WRITER_COUNT is set to; its kind and the Go
\* type of its value are those applyMutation takes for its table (another
\* type panics); its row is there, unless it is the ghost, whose is not.
PlanIsAccepted ==
    stage = "ready" =>
        \A e \in Range(events) :
            /\ e.ActorID \in 0 .. config["WRITER_COUNT"] - 1
            /\ IF e.Kind = "ghost" THEN e.EntityID \notin rows[e.Entity]
               ELSE /\ e.Kind \in DOMAIN Accepts(e.Entity)
                    /\ e.Type = Accepts(e.Entity)[e.Kind]
                    /\ e.EntityID \in rows[e.Entity]

Key(e) == <<e.Projection, e.EntityID>>

\* Of a complete plan exactly one event is rejected by the target for good,
\* the one before the last ("simulated permanent target rejection, so the job
\* reached dead-letter after max attempts" in the report), although orders are
\* picked by an index into IDs sorted as strings, which is not their numeric
\* order once the digits do not fit.
OneDeadLetter ==
    stage = "ready" =>
        {i \in DOMAIN events : Key(events[i]) \in faults.deadLetters}
            = {Len(events) - 1}

\* The entity whose temporary timeout the report announces, found by its Seq
\* (retryOrderID, retryCustomerID in output.go), is one the target fails.
IsReported(i) ==
    /\ events[i].Seq = config["MUTATION_COUNT"] + 1
    /\ \A j \in 1 .. i - 1 : events[j].Seq # config["MUTATION_COUNT"] + 1

RetryIsReported ==
    stage = "ready" =>
        \E i \in DOMAIN events : IsReported(i) /\ Key(events[i]) \in faults.failOnce

\* The CRM tables change in one step, from one whole generation of rows to
\* another; a run that fails in between leaves the earlier one's.
ResetIsAtomic == [][rows' # rows => rows' = Generated]_vars
=============================================================================
