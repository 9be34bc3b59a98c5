--------------------------- MODULE Workload_proofs ---------------------------
(***************************************************************************)
(* Theorems about loadConfig and buildScenario, for every environment,     *)
(* every default and every number system of IDs.                           *)
(***************************************************************************)
EXTENDS WorkloadIDs_proofs

----------------------------------------------------------------------------
(* The settings.                                                           *)

\* What loadConfig ensures of the settings it has read.
Checked ==
    \A s \in DOMAIN config :
       /\ config[s] \in Nat \ {0}
       /\ s = "WRITER_COUNT" => config[s] >= 4

Loaded(m) ==
    /\ DOMAIN config = {Setting[i] : i \in 1 .. m}
    /\ Cardinality(DOMAIN config) = m /\ IsFiniteSet(DOMAIN config)

ConfigInv ==
    /\ env \in [Names -> Int \cup {Unset, Text}]
    /\ stage \in {"config", "schema", "reset", "target", "plan", "ready", "failed"}
    /\ DOMAIN config \subseteq Names
    /\ stage = "config" => Checked /\ \E m \in 0 .. 8 : Loaded(m)
    /\ stage \notin {"config", "failed"} => Checked /\ DOMAIN config = Names

LEMMA NamesAre == Names = {Setting[i] : i \in 1 .. 9}
    BY DEF Names, Range, Setting

LEMMA ConfigInit == Init => ConfigInv
<1> SUFFICES ASSUME Init PROVE ConfigInv
    OBVIOUS
<1>1. DOMAIN config = {}
    BY DEF Init
<1>2. Loaded(0) /\ Checked
    BY <1>1, FS_EmptySet DEF Loaded, Checked
<1>3. QED
    BY <1>1, <1>2, WorkloadAssumption DEF Init, ConfigInv

LEMMA SettingLoaded == ConfigInv /\ LoadSetting => ConfigInv'
<1> SUFFICES ASSUME ConfigInv, LoadSetting PROVE ConfigInv'
    OBVIOUS
<1>1. PICK m \in 0 .. 8 : Loaded(m)
    BY DEF ConfigInv, LoadSetting
<1> DEFINE next  == Setting[m + 1]
           value == EnvInt(env[next], Default[next])
<1>2. next \in Names /\ m + 1 \in 1 .. 9
    BY NamesAre
<1>3. NextSetting = next
    BY <1>1 DEF NextSetting, Loaded
<1>4. /\ config' = [s \in DOMAIN config \cup {next} |->
                        IF s = next THEN value ELSE config[s]]
      /\ stage' = IF ~Usable(next, value) THEN "failed"
                  ELSE IF next = Last(Setting) THEN "schema" ELSE "config"
      /\ env' = env
    BY <1>3 DEF LoadSetting
<1>5. value \in Nat
    <2>1. /\ env[next] \in Int \cup {Unset, Text}
          /\ Default[next] \in Nat
        BY <1>2, WorkloadAssumption DEF ConfigInv
    <2>2. QED
        BY <2>1 DEF EnvInt
<1>6. /\ next \notin DOMAIN config
      /\ next = Last(Setting) <=> m = 8
    BY <1>1 DEF Loaded, Setting, Last
<1> HIDE DEF next, value
<1>7. DOMAIN config' = DOMAIN config \cup {next}
    BY <1>4
<1>8. Loaded(m + 1)'
    <2>1. DOMAIN config' = {Setting[i] : i \in 1 .. m + 1}
        BY <1>1, <1>7 DEF Loaded, next
    <2>2. QED
        BY <1>1, <1>6, <1>7, <2>1, FS_AddElement DEF Loaded
<1>9. Usable(next, value) => Checked'
    BY <1>4, <1>5, <1>7 DEF Usable, Checked, ConfigInv, LoadSetting
<1>10. DOMAIN config' \subseteq Names
    BY <1>2, <1>7 DEF ConfigInv
<1>11. m = 8 => DOMAIN config' = Names
    BY <1>8, NamesAre DEF Loaded
<1>12. QED
    BY <1>4, <1>6, <1>8, <1>9, <1>10, <1>11 DEF ConfigInv

LEMMA ConfigStep == ConfigInv /\ [Next]_vars => ConfigInv'
<1> SUFFICES ASSUME ConfigInv, [Next]_vars PROVE ConfigInv'
    OBVIOUS
<1>1. ASSUME UNCHANGED <<env, config>>, stage # "config",
             \/ stage' = "failed"
             \/ stage # "failed" /\ stage' \in {"reset", "target", "plan", "ready"}
      PROVE  ConfigInv'
    BY <1>1 DEF ConfigInv, Checked
<1>2. CASE LoadSetting
    BY <1>2, SettingLoaded
<1>3. CASE EnsureSchema \/ ResetStatement \/ ResetCommits \/ NewTarget \/ Fail
    BY <1>1, <1>3 DEF EnsureSchema, ResetStatement, ResetCommits, NewTarget, Fail
<1>4. ASSUME NEW n \in 0 .. 4, PlanMutation(n) PROVE ConfigInv'
    BY <1>1, <1>4 DEF PlanMutation
<1>5. CASE PlanSpecial
    BY <1>1, <1>5 DEF PlanSpecial
<1>6. CASE Stopped \/ UNCHANGED vars
    BY <1>6 DEF Stopped, vars, ConfigInv, Checked, Loaded
<1>7. QED
    BY <1>2, <1>3, <1>4, <1>5, <1>6 DEF Next

----------------------------------------------------------------------------
(* The reset of the tables.                                                *)

\* The first i - 1 statements of reset are done.
Rest(i) ==
    /\ todo \in Seq({"delete", "insert"} \X Tables)
    /\ Len(todo) = 7 - i
    /\ \A k \in 1 .. 7 - i : todo[k] = ResetStatements[k + i - 1]

\* How far the transaction of reset has got: what is still to be inserted
\* tells which tables have their new rows.
ResetInv ==
    /\ rows = [table \in Tables |-> rows[table]]
    /\ stage = "reset" =>
          /\ tx = [table \in Tables |-> tx[table]]
          /\ \E i \in 1 .. 7 :
                /\ Rest(i)
                /\ i >= 5 => tx["user"] = Generated["user"]
                /\ i >= 6 => tx["customer"] = Generated["customer"]
                /\ i = 7 => tx["order"] = Generated["order"]

LEMMA ResetInit == Init => ResetInv
BY DEF Init, ResetInv

LEMMA SameGenerated == config' = config => Generated' = Generated
BY DEF Generated, Users, Customers, Orders

LEMMA StatementDone == ResetInv /\ ResetStatement => ResetInv'
<1> SUFFICES ASSUME ResetInv, ResetStatement PROVE ResetInv'
    OBVIOUS
<1>1. PICK i \in 1 .. 7 :
         /\ Rest(i)
         /\ i >= 5 => tx["user"] = Generated["user"]
         /\ i >= 6 => tx["customer"] = Generated["customer"]
         /\ i = 7 => tx["order"] = Generated["order"]
    BY DEF ResetStatement, ResetInv
<1>2. i \in 1 .. 6 /\ todo # <<>>
    BY <1>1 DEF ResetStatement, Rest
<1>3. /\ todo' \in Seq({"delete", "insert"} \X Tables) /\ Len(todo') = 7 - (i + 1)
      /\ \A k \in 1 .. 7 - (i + 1) : todo'[k] = todo[k + 1]
    BY <1>1, <1>2 DEF ResetStatement, Rest
<1>4. \A k \in 1 .. 7 - (i + 1) : todo[k + 1] = ResetStatements[k + (i + 1) - 1]
    BY <1>1, <1>2 DEF Rest
<1>5. Rest(i + 1)'
    BY <1>3, <1>4 DEF Rest, ResetStatements
<1>6. Head(todo) = ResetStatements[i]
    BY <1>1, <1>2 DEF Rest
<1>7. /\ tx = [table \in Tables |-> tx[table]]
      /\ tx' = After(ResetStatements[i], tx)
      /\ Generated' = Generated
      /\ UNCHANGED <<stage, rows>>
    BY <1>6, SameGenerated DEF ResetStatement, ResetInv
<1>8. /\ tx' = [table \in Tables |-> tx'[table]]
      /\ i + 1 >= 5 => tx'["user"] = Generated["user"]
      /\ i + 1 >= 6 => tx'["customer"] = Generated["customer"]
      /\ i + 1 = 7 => tx'["order"] = Generated["order"]
    <2> DEFINE s == ResetStatements[i]
    <2>1. /\ i = 4 => s[1] = "insert" /\ s[2] = "user"
          /\ i = 5 => s[1] = "insert" /\ s[2] = "customer"
          /\ i = 6 => s[1] = "insert" /\ s[2] = "order"
          /\ s[2] \in Tables
        BY <1>2 DEF ResetStatements, Tables
    <2> HIDE DEF s
    <2>2. tx' = [tx EXCEPT ![s[2]] = IF s[1] = "delete" THEN {}
                                     ELSE Generated[s[2]]]
        BY <1>7 DEF After, s
    <2>3. DOMAIN tx = Tables
        BY <1>7
    <2>4. /\ tx'[s[2]] = IF s[1] = "delete" THEN {} ELSE Generated[s[2]]
          /\ \A table \in Tables : table # s[2] => tx'[table] = tx[table]
          /\ tx' = [table \in Tables |-> tx'[table]]
        BY <1>7, <2>1, <2>2, <2>3
    <2>5. QED
        BY <1>1, <1>2, <2>1, <2>4 DEF Tables
<1>9. i + 1 \in 1 .. 7
    BY <1>2
<1>10. QED
    BY <1>5, <1>7, <1>8, <1>9 DEF ResetInv

LEMMA ResetDone ==
    ASSUME ResetInv, ResetCommits
    PROVE  rows' = Generated
<1>1. PICK i \in 1 .. 7 :
         /\ Rest(i)
         /\ i >= 5 => tx["user"] = Generated["user"]
         /\ i >= 6 => tx["customer"] = Generated["customer"]
         /\ i = 7 => tx["order"] = Generated["order"]
    BY DEF ResetCommits, ResetInv
<1>2. i = 7
    BY <1>1 DEF ResetCommits, Rest
<1>3. \A table \in Tables : tx[table] = Generated[table]
    BY <1>1, <1>2 DEF Tables
<1>4. Generated = [table \in Tables |-> Generated[table]]
    BY DEF Generated, Tables
<1>5. tx = [table \in Tables |-> tx[table]]
    BY DEF ResetInv, ResetCommits
<1>6. QED
    BY <1>3, <1>4, <1>5 DEF ResetCommits

LEMMA ResetStep == ResetInv /\ [Next]_vars => ResetInv'
<1> SUFFICES ASSUME ResetInv, [Next]_vars PROVE ResetInv'
    OBVIOUS
<1>1. CASE LoadSetting
    BY <1>1 DEF LoadSetting, ResetInv
<1>2. CASE EnsureSchema
    <2>1. /\ tx' = rows /\ todo' = ResetStatements /\ rows' = rows
          /\ stage' = "reset"
        BY <1>2 DEF EnsureSchema
    <2>2. Rest(1)'
        BY <2>1 DEF Rest, ResetStatements, Tables
    <2>3. QED
        BY <2>1, <2>2 DEF ResetInv
<1>3. CASE ResetStatement
    BY <1>3, StatementDone
<1>4. CASE ResetCommits
    <2>1. rows' = tx /\ stage' = "target" /\ stage = "reset"
        BY <1>4 DEF ResetCommits
    <2>2. QED
        BY <2>1 DEF ResetInv
<1>5. CASE NewTarget \/ Fail
    BY <1>5 DEF NewTarget, Fail, ResetInv
<1>6. ASSUME NEW n \in 0 .. 4, PlanMutation(n) PROVE ResetInv'
    BY <1>6 DEF PlanMutation, ResetInv
<1>7. CASE PlanSpecial
    BY <1>7 DEF PlanSpecial, ResetInv
<1>8. CASE Stopped \/ UNCHANGED vars
    <2>1. UNCHANGED <<rows, stage, todo, tx, config>>
        BY <1>8 DEF Stopped, vars
    <2>2. QED
        BY <2>1, SameGenerated DEF ResetInv, Rest
<1>9. QED
    BY <1>1, <1>2, <1>3, <1>4, <1>5, <1>6, <1>7, <1>8 DEF Next

\* The CRM tables go from one whole generation of rows to another in one step,
\* wherever the transaction of reset is broken off.
THEOREM WorkloadResetIsAtomic == Spec => ResetIsAtomic
<1>1. ResetInv /\ [Next]_vars => [rows' # rows => rows' = Generated]_vars
    <2>1. [Next]_vars => rows' = rows \/ ResetCommits
        BY DEF Next, vars, LoadSetting, EnsureSchema, ResetStatement,
               NewTarget, Fail, PlanMutation, PlanSpecial, Stopped
    <2>2. QED
        BY <2>1, ResetDone
<1>2. QED
    BY <1>1, ResetInit, ResetStep, PTL DEF Spec, ResetIsAtomic

----------------------------------------------------------------------------
(* The IDs that are generated, and the ones that are picked.               *)

Ready == Checked /\ DOMAIN config = Names

LEMMA Counts ==
    Ready => \A s \in Names : /\ config[s] \in Nat \ {0}
                              /\ s = "WRITER_COUNT" => config[s] >= 4
    BY DEF Ready, Checked

LEMMA SettingsRead ==
    ASSUME Ready
    PROVE  /\ config["USER_COUNT"] \in Nat \ {0}
           /\ config["CUSTOMER_COUNT"] \in Nat \ {0}
           /\ config["ORDER_COUNT"] \in Nat \ {0}
           /\ config["MUTATION_COUNT"] \in Nat \ {0}
           /\ config["WRITER_COUNT"] \in Nat /\ config["WRITER_COUNT"] >= 4
<1>1. {"USER_COUNT", "CUSTOMER_COUNT", "ORDER_COUNT", "MUTATION_COUNT",
       "WRITER_COUNT"} \subseteq Names
    BY DEF Names, Range, Setting
<1>2. QED
    BY <1>1, Counts

\* The rows of a table without the dead letter are sorted, and not empty.
LEMMA NumberedKeys ==
    ASSUME NEW n \in Nat \ {0}
    PROVE  /\ sortedKeys(Numbered(n)) \in Seq(Numbered(n))
           /\ Len(sortedKeys(Numbered(n))) >= 1
<1>1. /\ Numbered(n) \in SUBSET ID /\ IsFiniteSet(Numbered(n))
      /\ Numbered(n) # {}
    BY NumberedIDs
<1>2. Cardinality(Numbered(n)) \in Nat \ {0}
    BY <1>1, FS_EmptySet, FS_CardinalityType
<1>3. QED
    BY <1>1, <1>2, SortedKeys

\* The IDs of the three tables, and the order that is sorted last.
LEMMA Keys ==
    ASSUME Ready
    PROVE  /\ Users \in Seq(Seq(Digit)) /\ Len(Users) >= 1
           /\ Customers \in Seq(Seq(Digit)) /\ Len(Customers) >= 1
           /\ Orders \in Seq(Seq(Digit) \cup {Dead}) /\ Len(Orders) >= 2
           /\ Orders[Len(Orders)] = Dead
           /\ \A i \in 1 .. Len(Orders) - 1 : Orders[i] \in Seq(Digit)
<1>1. \A n \in Nat : Numbered(n) \subseteq Seq(Digit)
    BY NumberedIDs
<1>2. ASSUME NEW n \in Nat \ {0}, NEW s \in Seq(Numbered(n))
      PROVE  s \in Seq(Seq(Digit))
    BY <1>1, <1>2
<1>3. /\ Users \in Seq(Seq(Digit)) /\ Len(Users) >= 1
      /\ Customers \in Seq(Seq(Digit)) /\ Len(Customers) >= 1
    BY <1>2, SettingsRead, NumberedKeys DEF Users, Customers
<1> DEFINE n == config["ORDER_COUNT"]
<1>4. n \in Nat \ {0} /\ Orders = sortedKeys(Numbered(n) \cup {Dead})
    BY SettingsRead DEF Orders
<1> HIDE DEF n
<1>5. /\ Orders \in Seq(Numbered(n) \cup {Dead}) /\ Len(Orders) >= 2
      /\ Orders[Len(Orders)] = Dead
      /\ \A i \in 1 .. Len(Orders) - 1 : Orders[i] \in Numbered(n)
    BY <1>4, DeadIsLast
<1>6. Orders \in Seq(Seq(Digit) \cup {Dead})
    BY <1>1, <1>4, <1>5
<1>7. QED
    BY <1>1, <1>3, <1>4, <1>5, <1>6

\* What is generated, what is picked of it, and the entity that times out.
LEMMA Picks ==
    ASSUME Ready
    PROVE  /\ Generated \in [Tables -> SUBSET Seq(0 .. Base)]
           /\ \A t \in Tables : Ghost \notin Generated[t]
           /\ Dead \in Generated["order"]
           /\ \A t \in Tables : Pickable(t) \subseteq Generated[t]
           /\ Dead \notin Pickable("order")
           /\ RetryTable \in {"customer", "order"}
           /\ RetryID \in Generated[RetryTable]
           /\ RetryTable = "order" => RetryID # Dead
<1>1. /\ Seq(Digit) \subseteq Seq(0 .. Base) /\ Dead \in Seq(0 .. Base)
      /\ Ghost \notin Seq(Digit) /\ Dead \notin Seq(Digit)
      /\ Ghost # Dead
    <2>1. /\ Dead \in Seq({Base}) /\ Len(Dead) = 1 /\ Dead[1] = Base
          /\ Ghost \in Seq({Base + 1}) /\ Len(Ghost) = 1 /\ Ghost[1] = Base + 1
        BY BaseType DEF Dead, Ghost
    <2>2. Base \notin Digit /\ Base + 1 \notin Digit /\ Digit \subseteq 0 .. Base
        BY BaseType DEF Digit
    <2>3. \A s \in Seq(Digit) : 1 <= Len(s) => s[1] \in Digit
        OBVIOUS
    <2>4. Ghost \notin Seq(Digit) /\ Dead \notin Seq(Digit)
        BY <2>1, <2>2, <2>3
    <2>5. Seq(Digit) \subseteq Seq(0 .. Base)
        BY BaseType DEF Digit
    <2>6. Dead \in Seq(0 .. Base) /\ Ghost # Dead
        BY <2>1, BaseType
    <2>7. QED
        BY <2>4, <2>5, <2>6
<1>2. /\ Generated["user"] = Range(Users)
      /\ Generated["customer"] = Range(Customers)
      /\ Generated["order"] = Range(Orders)
      /\ Generated = [t \in Tables |-> Generated[t]]
    BY DEF Generated, Tables
<1>3. /\ Pickable("user") = Range(Users)
      /\ Pickable("customer") = Range(Customers)
      /\ Pickable("order") = {Orders[i] : i \in 1 .. Len(Orders) - 1}
    BY Zenon DEF Pickable
<1>4. /\ \A x \in Range(Users) : x \in Seq(Digit)
      /\ \A x \in Range(Customers) : x \in Seq(Digit)
      /\ \A x \in Range(Orders) : x \in Seq(Digit) \/ x = Dead
    BY Keys DEF Range
<1>5. /\ \A i \in 1 .. Len(Customers) : Customers[i] \in Range(Customers)
      /\ \A i \in 1 .. Len(Orders) : Orders[i] \in Range(Orders)
    BY Keys DEF Range
<1>8. /\ Len(Orders) \in Nat /\ 1 \in 1 .. Len(Orders) - 1
      /\ 1 .. Len(Orders) - 1 \subseteq 1 .. Len(Orders)
      /\ Len(Customers) \in Nat /\ 1 \in 1 .. Len(Customers)
      /\ Len(Customers) > 1 => 2 \in 1 .. Len(Customers)
    BY Keys
<1>9. /\ Pickable("order") \subseteq Range(Orders)
      /\ \A x \in Pickable("order") : x \in Seq(Digit)
    BY <1>3, <1>5, <1>8, Keys
<1>10. Dead \in Range(Orders)
    BY <1>5, Keys
<1>6. RetryTable \in {"customer", "order"}
    BY DEF RetryTable
<1>7. RetryID \in Generated[RetryTable] /\ (RetryTable = "order" => RetryID # Dead)
    <2>1. CASE flavor = "redis"
        <3>1. RetryTable = "order" /\ RetryID = Orders[1]
            BY <2>1 DEF RetryTable, RetryID
        <3>2. Orders[1] \in Seq(Digit) /\ Orders[1] \in Generated["order"]
            BY <1>2, <1>5, <1>8, Keys
        <3>3. QED
            BY <1>1, <3>1, <3>2
    <2>2. CASE flavor # "redis"
        <3>1. RetryTable = "customer"
            BY <2>2 DEF RetryTable
        <3>2. \/ RetryID = Customers[1]
              \/ RetryID = Customers[2] /\ Len(Customers) > 1
            BY <2>2 DEF RetryID
        <3>3. RetryID \in Generated["customer"]
            BY <1>2, <1>5, <1>8, <3>2
        <3>4. QED
            BY <3>1, <3>3
    <2>3. QED
        BY <2>1, <2>2
<1>11. QED
    BY <1>1, <1>2, <1>3, <1>4, <1>6, <1>7, <1>9, <1>10 DEF Tables

----------------------------------------------------------------------------
(* The mutations.                                                          *)

\* The kind of a mutation and the type of its value are chosen by two
\* operators; both follow the seq, so that the table takes them.
LEMMA KindsMatch ==
    ASSUME NEW entity \in Tables, NEW seq \in Nat
    PROVE  /\ KindOf(entity, seq) \in DOMAIN Accepts(entity)
           /\ TypeOf(entity, seq) = Accepts(entity)[KindOf(entity, seq)]
           /\ KindOf(entity, seq) # "ghost"
<1>1. CASE entity = "user"
    <2>1. /\ KindOf("user", seq) = IF seq % 2 = 0 THEN "roles" ELSE "name"
          /\ TypeOf("user", seq) = IF seq % 2 = 0 THEN "[]string" ELSE "string"
          /\ Accepts("user") = [roles |-> "[]string", name |-> "string"]
        BY Zenon DEF KindOf, TypeOf, Accepts
    <2>2. QED
        BY <1>1, <2>1
<1>2. CASE entity = "customer"
    <2>1. /\ KindOf("customer", seq) = <<"email", "phone", "vip">>[(seq % 3) + 1]
          /\ TypeOf("customer", seq) = IF seq % 3 \in {0, 1} THEN "string" ELSE "bool"
          /\ Accepts("customer") = [email |-> "string", phone |-> "string",
                                    vip |-> "bool"]
        BY Zenon DEF KindOf, TypeOf, Accepts
    <2>2. seq % 3 \in {0, 1, 2}
        OBVIOUS
    <2>3. QED
        BY <1>2, <2>1, <2>2
<1>3. CASE entity = "order"
    <2>1. /\ KindOf("order", seq) = IF seq % 2 = 0 THEN "status" ELSE "total"
          /\ TypeOf("order", seq) = IF seq % 2 = 0 THEN "string" ELSE "int"
          /\ Accepts("order") = [status |-> "string", total |-> "int"]
        BY Zenon DEF KindOf, TypeOf, Accepts
    <2>2. QED
        BY <1>3, <2>1
<1>4. QED
    BY <1>1, <1>2, <1>3 DEF Tables

\* The kinds and types of the special events.
LEMMA KindsOfTables ==
    /\ "total" \in DOMAIN Accepts("order") /\ "status" \in DOMAIN Accepts("order")
    /\ Accepts("order")["total"] = "int" /\ Accepts("order")["status"] = "string"
    /\ "phone" \in DOMAIN Accepts("customer")
    /\ Accepts("customer")["phone"] = "string"
<1>1. /\ Accepts("order") = [status |-> "string", total |-> "int"]
      /\ Accepts("customer") = [email |-> "string", phone |-> "string",
                                vip |-> "bool"]
    BY Zenon DEF Accepts
<1>2. QED
    BY <1>1

Total == config["MUTATION_COUNT"]

\* A random mutation, and the k-th of the three that the report announces.
Acceptable(e) ==
    /\ e.ActorID \in 0 .. config["WRITER_COUNT"] - 1
    /\ e.Entity \in Tables
    /\ e.EntityID \in Pickable(e.Entity)
    /\ e.Projection = ProjectionOf[e.Entity]
    /\ e.Kind # "ghost" /\ e.Kind \in DOMAIN Accepts(e.Entity)
    /\ e.Type = Accepts(e.Entity)[e.Kind]

Announced(e, k) ==
    /\ e.ActorID \in {0, 2, 3}
    /\ e.Projection = ProjectionOf[e.Entity]
    /\ k = 1 => /\ e.Entity = RetryTable /\ e.EntityID = RetryID
                /\ e.Kind # "ghost" /\ e.Kind \in DOMAIN Accepts(e.Entity)
                /\ e.Type = Accepts(e.Entity)[e.Kind]
    /\ k = 2 => /\ e.Entity = "order" /\ e.EntityID = Dead
                /\ e.Kind = "status" /\ e.Type = "string"
    /\ k = 3 => /\ e.Entity = RetryTable /\ e.EntityID = Ghost
                /\ e.Kind = "ghost"

Planned(i) ==
    /\ events[i].Seq = i
    /\ i <= Total => Acceptable(events[i])
    /\ i > Total => Announced(events[i], i - Total)

\* The plan so far: its random mutations, then the special ones.
PlanInv ==
    /\ stage \in {"target", "plan", "ready"} => rows = Generated
    /\ events \in Seq(Range(events))
    /\ stage \notin {"plan", "ready"} => events = <<>>
    /\ stage \in {"plan", "ready"} =>
          /\ faults = [failOnce |-> {<<ProjectionOf[RetryTable], RetryID>>},
                       deadLetters |-> {<<ProjectionOf["order"], Dead>>}]
          /\ \A i \in 1 .. Len(events) : Planned(i)
    /\ stage = "plan" => Len(events) <= Total + 2
    /\ stage = "ready" => Len(events) = Total + 3

\* The plan depends on the settings and the flavor only.
LEMMA SamePlan ==
    ASSUME UNCHANGED <<flavor, config>>
    PROVE  /\ Generated' = Generated
           /\ RetryTable' = RetryTable /\ RetryID' = RetryID /\ Total' = Total
           /\ \A e : Acceptable(e)' <=> Acceptable(e)
           /\ \A e, k : Announced(e, k)' <=> Announced(e, k)
<1>1. Users' = Users /\ Customers' = Customers /\ Orders' = Orders
    BY DEF Users, Customers, Orders
<1>2. /\ Generated' = Generated
      /\ RetryTable' = RetryTable /\ RetryID' = RetryID /\ Total' = Total
    BY <1>1 DEF Generated, RetryTable, RetryID, Total
<1>3. \A t : Pickable(t)' = Pickable(t)
    BY <1>1, Zenon DEF Pickable
<1>4. \A e : Acceptable(e)' <=> Acceptable(e)
    BY <1>3 DEF Acceptable
<1>5. \A e, k : Announced(e, k)' <=> Announced(e, k)
    BY <1>2 DEF Announced
<1>6. QED
    BY <1>2, <1>4, <1>5

LEMMA OwnRange ==
    ASSUME NEW S, NEW s \in Seq(S) PROVE s \in Seq(Range(s))
<1>1. \A i \in 1 .. Len(s) : s[i] \in Range(s)
    BY DEF Range
<1>2. QED
    BY <1>1

LEMMA EmptyPlan == <<>> \in Seq(Range(<<>>)) /\ Len(<<>>) = 0
<1>1. <<>> \in Seq({}) /\ Len(<<>>) = 0
    OBVIOUS
<1>2. QED
    BY <1>1, OwnRange

LEMMA PlanInit == Init => PlanInv
BY EmptyPlan DEF Init, PlanInv

\* An event that fits its place extends the plan.
LEMMA PlanGrows ==
    ASSUME PlanInv, stage = "plan", stage' \in {"plan", "ready"},
           UNCHANGED <<flavor, config, rows, faults>>,
           NEW e, events' = Append(events, e),
           e.Seq = Len(events) + 1,
           Total \in Nat,
           Len(events) + 1 <= Total => Acceptable(e),
           Len(events) + 1 > Total => Announced(e, Len(events) + 1 - Total),
           stage' = "plan" => Len(events) + 1 <= Total + 2,
           stage' = "ready" => Len(events) + 1 = Total + 3
    PROVE  PlanInv'
<1> DEFINE n == Len(events)
<1>1. n \in Nat /\ \A i \in 1 .. n : Planned(i)
    BY DEF PlanInv
<1>2. events \in Seq(Range(events) \cup {e}) /\ events \in Seq(Range(events))
    <2>1. events \in Seq(Range(events))
        BY DEF PlanInv
    <2>2. QED
        BY <2>1
<1>3. /\ events' \in Seq(Range(events) \cup {e})
      /\ Len(events') = n + 1
      /\ events'[n + 1] = e
      /\ \A i \in 1 .. n : events'[i] = events[i]
    BY <1>2
<1> HIDE DEF n
<1>4. ASSUME NEW i \in 1 .. n + 1 PROVE Planned(i)'
    <2>1. /\ events'[i].Seq = i
          /\ i <= Total => Acceptable(events'[i])
          /\ i > Total => Announced(events'[i], i - Total)
        <3>1. CASE i = n + 1
            BY <1>3, <3>1 DEF n
        <3>2. CASE i \in 1 .. n
            <4>1. events'[i] = events[i] /\ Planned(i)
                BY <1>1, <1>3, <3>2
            <4>2. QED
                BY <4>1 DEF Planned
        <3>3. i = n + 1 \/ i \in 1 .. n
            BY <1>1
        <3>4. QED
            BY <3>1, <3>2, <3>3
    <2>2. QED
        BY <2>1, SamePlan DEF Planned
<1>5. /\ Generated' = Generated /\ RetryTable' = RetryTable
      /\ RetryID' = RetryID /\ Total' = Total
    BY SamePlan
<1>6. /\ rows' = Generated
      /\ faults' = [failOnce |-> {<<ProjectionOf[RetryTable], RetryID>>},
                    deadLetters |-> {<<ProjectionOf["order"], Dead>>}]
    BY DEF PlanInv
<1>7. /\ Len(events') = n + 1
      /\ events' \in Seq(Range(events'))
      /\ \A i \in 1 .. Len(events') : Planned(i)'
      /\ stage' = "plan" => n + 1 <= Total + 2
      /\ stage' = "ready" => n + 1 = Total + 3
    BY <1>1, <1>3, <1>4, OwnRange DEF n
<1>8. QED
    BY <1>5, <1>6, <1>7 DEF PlanInv

\* The next random mutation is acceptable, whatever the faker picks.
LEMMA RandomFits ==
    ASSUME PlanInv, Ready, NEW n \in 0 .. 4, PlanMutation(n)
    PROVE  PlanInv'
<1> DEFINE seq == Len(events) + 1
           entity == EntityCycle[((seq + n) % Len(EntityCycle)) + 1]
<1>1. Len(events) \in Nat /\ seq \in Nat
    BY DEF PlanInv
<1>2. entity \in Tables
    <2>1. Len(EntityCycle) = 5 /\ \A i \in 1 .. 5 : EntityCycle[i] \in Tables
        BY DEF EntityCycle, Tables
    <2>2. ((seq + n) % 5) + 1 \in 1 .. 5
        BY <1>1
    <2>3. QED
        BY <2>1, <2>2
<1>3. PICK id \in Pickable(entity) :
         events' = Append(events,
             mutation(seq % config["WRITER_COUNT"], entity, id,
                      KindOf(entity, seq), TypeOf(entity, seq)))
    BY DEF PlanMutation
<1> HIDE DEF seq, entity
<1> DEFINE e == mutation(seq % config["WRITER_COUNT"], entity, id,
                         KindOf(entity, seq), TypeOf(entity, seq))
<1>4. /\ e.Seq = seq /\ e.ActorID = seq % config["WRITER_COUNT"]
      /\ e.Entity = entity /\ e.EntityID = id /\ e.Kind = KindOf(entity, seq)
      /\ e.Type = TypeOf(entity, seq) /\ e.Projection = ProjectionOf[entity]
    BY DEF mutation, seq
<1> HIDE DEF e
<1>5. seq % config["WRITER_COUNT"] \in 0 .. config["WRITER_COUNT"] - 1
    BY <1>1, SettingsRead
<1>6. Acceptable(e)
    BY <1>1, <1>2, <1>4, <1>5, KindsMatch DEF Acceptable
<1>7. /\ stage = "plan" /\ seq <= Total /\ Total \in Nat
      /\ UNCHANGED <<flavor, config, stage, rows, faults>>
    BY <1>1, SettingsRead DEF PlanMutation, Total, seq
<1>8. QED
    BY <1>1, <1>3, <1>4, <1>6, <1>7, PlanGrows DEF seq, e

\* The three special events follow the random ones in their order.
LEMMA SpecialFits ==
    ASSUME PlanInv, Ready, PlanSpecial
    PROVE  PlanInv'
<1> DEFINE k == Len(events) - config["MUTATION_COUNT"] + 1
           e == Special[k]
<1>1. /\ stage = "plan" /\ k \in 1 .. 3 /\ events' = Append(events, e)
      /\ stage' = IF k = 3 THEN "ready" ELSE "plan"
      /\ UNCHANGED <<flavor, config, rows, faults>>
    BY DEF PlanSpecial
<1>2. /\ Len(events) \in Nat /\ Total \in Nat /\ k = Len(events) - Total + 1
      /\ Len(events) + 1 = Total + k
    BY SettingsRead DEF PlanInv, Total
<1>3. /\ Special[1] = IF flavor = "redis"
                      THEN mutation(2, "order", RetryID, "total", "int")
                      ELSE mutation(2, "customer", RetryID, "phone", "string")
      /\ Special[2] = mutation(3, "order", Dead, "status", "string")
      /\ Special[3] = mutation(0, RetryTable, Ghost, "ghost", "nil")
    BY DEF Special
<1>4. Announced(Special[1], 1)
    BY <1>3, KindsOfTables DEF Announced, mutation, RetryTable
<1>5. Announced(Special[2], 2)
    BY <1>3 DEF Announced, mutation
<1>6. Announced(Special[3], 3)
    BY <1>3 DEF Announced, mutation
<1>7. \A j \in 1 .. 3 : Special[j].Seq = Len(events) + 1
    <2>1. /\ Special[1].Seq = Len(events) + 1 /\ Special[2].Seq = Len(events) + 1
          /\ Special[3].Seq = Len(events) + 1
        BY <1>3 DEF mutation
    <2>2. QED
        BY <2>1
<1>8. /\ e.Seq = Len(events) + 1
      /\ Announced(e, k)
    BY <1>1, <1>4, <1>5, <1>6, <1>7
<1> HIDE DEF k, e
<1>9. QED
    BY <1>1, <1>2, <1>8, PlanGrows

LEMMA PlanStep ==
    ConfigInv /\ ResetInv /\ PlanInv /\ [Next]_vars => PlanInv'
<1> SUFFICES ASSUME ConfigInv, ResetInv, PlanInv, [Next]_vars PROVE PlanInv'
    OBVIOUS
<1>1. ASSUME events = <<>>, events' = <<>>,
             stage' \in {"config", "schema", "reset", "failed"}
      PROVE  PlanInv'
    BY <1>1 DEF PlanInv
<1>2. CASE LoadSetting \/ EnsureSchema \/ ResetStatement \/ Fail
    BY <1>1, <1>2 DEF LoadSetting, EnsureSchema, ResetStatement, Fail, PlanInv
<1>3. CASE ResetCommits
    <2>1. /\ rows' = Generated /\ Generated' = Generated
          /\ events' = <<>> /\ stage' = "target"
        BY <1>3, ResetDone, SameGenerated DEF ResetCommits, PlanInv
    <2>2. QED
        BY <2>1 DEF PlanInv
<1>4. CASE NewTarget
    <2>1. /\ stage = "target" /\ stage' = "plan"
          /\ UNCHANGED <<flavor, config, rows, events>>
          /\ faults' = [failOnce |-> {<<ProjectionOf[RetryTable], RetryID>>},
                        deadLetters |-> {<<ProjectionOf["order"], Dead>>}]
        BY <1>4 DEF NewTarget
    <2>2. Ready /\ events = <<>> /\ rows = Generated
        BY <2>1 DEF ConfigInv, Ready, PlanInv
    <2>3. Total \in Nat
        BY <2>2, SettingsRead DEF Total
    <2>4. /\ Generated' = Generated /\ RetryTable' = RetryTable
          /\ RetryID' = RetryID /\ Total' = Total
        BY <2>1, SamePlan
    <2>5. QED
        BY <2>1, <2>2, <2>3, <2>4 DEF PlanInv
<1>5. ASSUME NEW n \in 0 .. 4, PlanMutation(n) PROVE PlanInv'
    <2>1. Ready
        BY <1>5 DEF PlanMutation, ConfigInv, Ready
    <2>2. QED
        BY <1>5, <2>1, RandomFits
<1>6. CASE PlanSpecial
    <2>1. Ready
        BY <1>6 DEF PlanSpecial, ConfigInv, Ready
    <2>2. QED
        BY <1>6, <2>1, SpecialFits
<1>7. CASE Stopped \/ UNCHANGED vars
    <2>1. UNCHANGED <<flavor, config, stage, rows, faults, events>>
        BY <1>7 DEF Stopped, vars
    <2>2. /\ Generated' = Generated /\ RetryTable' = RetryTable
          /\ RetryID' = RetryID /\ Total' = Total
          /\ \A i : Planned(i)' <=> Planned(i)
        BY <2>1, SamePlan DEF Planned
    <2>3. QED
        BY <2>1, <2>2 DEF PlanInv
<1>8. QED
    BY <1>2, <1>3, <1>4, <1>5, <1>6, <1>7 DEF Next

----------------------------------------------------------------------------
(* The types.                                                              *)

\* The rows are tables of IDs, in the transaction too, and what is left of
\* reset is the end of its statements.
TablesInv ==
    /\ IsTables(rows) /\ IsTables(tx)
    /\ \E i \in 1 .. 7 : Rest(i)

LEMMA IDTypes ==
    /\ Seq(Digit) \subseteq Seq(0 .. Base) /\ Dead \in Seq(0 .. Base)
    /\ IsTables(NoRows)
    BY BaseType DEF Digit, Dead, IsTables, NoRows

LEMMA TablesInit == Init => TablesInv
<1> SUFFICES ASSUME Init PROVE TablesInv
    OBVIOUS
<1>1. PICK n \in Earlier :
         rows = [table \in Tables |-> IF table = "order" /\ n > 0
                                      THEN Numbered(n) \cup {Dead}
                                      ELSE Numbered(n)]
    BY DEF Init
<1>2. n \in Nat
    BY WorkloadAssumption
<1>3. \A id \in Numbered(n) \cup {Dead} : id \in Seq(0 .. Base)
    BY <1>2, NumberedIDs, IDTypes
<1>4. IsTables(rows)
    BY <1>1, <1>3 DEF IsTables
<1>5. Rest(7) /\ tx = NoRows
    BY DEF Init, Rest
<1>6. QED
    BY <1>4, <1>5, IDTypes DEF TablesInv

LEMMA TablesStep == ConfigInv /\ TablesInv /\ [Next]_vars => TablesInv'
<1> SUFFICES ASSUME ConfigInv, TablesInv, [Next]_vars PROVE TablesInv'
    OBVIOUS
<1>1. CASE UNCHANGED <<rows, todo, tx>>
    BY <1>1 DEF TablesInv, IsTables, Rest
<1>2. CASE EnsureSchema
    <2>1. /\ tx' = rows /\ todo' = ResetStatements /\ rows' = rows
        BY <1>2 DEF EnsureSchema
    <2>2. Rest(1)'
        BY <2>1 DEF Rest, ResetStatements, Tables
    <2>3. QED
        BY <2>1, <2>2 DEF TablesInv, IsTables
<1>3. CASE ResetStatement
    <2>1. PICK i \in 1 .. 7 : Rest(i)
        BY DEF TablesInv
    <2>2. i \in 1 .. 6 /\ todo # <<>>
        BY <1>3, <2>1 DEF ResetStatement, Rest
    <2>3. /\ todo' \in Seq({"delete", "insert"} \X Tables)
          /\ Len(todo') = 7 - (i + 1)
          /\ \A k \in 1 .. 7 - (i + 1) : todo'[k] = todo[k + 1]
        BY <1>3, <2>1, <2>2 DEF ResetStatement, Rest
    <2>4. \A k \in 1 .. 7 - (i + 1) : todo[k + 1] = ResetStatements[k + (i + 1) - 1]
        BY <2>1, <2>2 DEF Rest
    <2>5. Rest(i + 1)' /\ i + 1 \in 1 .. 7
        BY <2>2, <2>3, <2>4 DEF Rest, ResetStatements
    <2>6. Ready
        BY <1>3 DEF ResetStatement, ConfigInv, Ready
    <2>7. /\ rows' = rows
          /\ tx' = [tx EXCEPT ![Head(todo)[2]] =
                       IF Head(todo)[1] = "delete" THEN {}
                       ELSE Generated[Head(todo)[2]]]
          /\ Head(todo)[2] \in Tables
        BY <1>3, <2>1, <2>2 DEF ResetStatement, After, Rest
    <2> DEFINE new == IF Head(todo)[1] = "delete" THEN {}
                      ELSE Generated[Head(todo)[2]]
    <2>8. \A id \in new : id \in Seq(0 .. Base)
        BY <2>6, <2>7, Picks
    <2> HIDE DEF new
    <2>9. IsTables(tx')
        BY <2>7, <2>8 DEF TablesInv, IsTables, new
    <2>10. IsTables(rows')
        BY <2>7 DEF TablesInv
    <2>11. QED
        BY <2>5, <2>9, <2>10 DEF TablesInv
<1>4. CASE ResetCommits
    BY <1>4 DEF ResetCommits, TablesInv, IsTables, Rest
<1>5. CASE Fail
    <2>1. tx' = NoRows /\ UNCHANGED <<rows, todo>>
        BY <1>5 DEF Fail
    <2>2. IsTables(tx') /\ IsTables(rows')
        BY <2>1, IDTypes DEF TablesInv
    <2>3. QED
        BY <2>1, <2>2 DEF TablesInv, Rest
<1>6. QED
    BY <1>1, <1>2, <1>3, <1>4, <1>5
    DEF Next, LoadSetting, NewTarget, PlanMutation, PlanSpecial, Stopped, vars

----------------------------------------------------------------------------
(* The properties.                                                         *)

WorkloadInv == ConfigInv /\ ResetInv /\ PlanInv /\ TablesInv

LEMMA WorkloadInvariant == Spec => []WorkloadInv
<1>1. Init => WorkloadInv
    BY ConfigInit, ResetInit, PlanInit, TablesInit DEF WorkloadInv
<1>2. WorkloadInv /\ [Next]_vars => WorkloadInv'
    BY ConfigStep, ResetStep, PlanStep, TablesStep DEF WorkloadInv
<1>3. QED
    BY <1>1, <1>2, PTL DEF Spec

LEMMA RestOf ==
    ASSUME NEW S, NEW s \in Seq(S), Len(s) = 6, NEW i \in 1 .. 7
    PROVE  SubSeq(s, i, 6) = [k \in 1 .. 7 - i |-> s[k + i - 1]]
    OBVIOUS

LEMMA RestIsSubSeq ==
    ASSUME NEW i \in 1 .. 7, Rest(i)
    PROVE  todo = SubSeq(ResetStatements, i, 6)
<1>1. todo = [k \in 1 .. 7 - i |-> ResetStatements[k + i - 1]]
    BY DEF Rest
<1>2. /\ ResetStatements \in Seq({"delete", "insert"} \X Tables)
      /\ Len(ResetStatements) = 6
    BY DEF ResetStatements, Tables
<1>3. QED
    BY <1>1, <1>2, RestOf

\* The IDs of the tables, the settings, what is left of reset and the numbers
\* of the events are of their types.
THEOREM WorkloadTypeCorrect == Spec => []TypeOK
<1>1. WorkloadInv => TypeOK
    <2> SUFFICES ASSUME WorkloadInv PROVE TypeOK
        OBVIOUS
    <2>1. \A i \in DOMAIN events : events[i].Seq = i
        BY DEF WorkloadInv, ConfigInv, PlanInv, Planned
    <2>2. todo \in {SubSeq(ResetStatements, i, 6) : i \in 1 .. 7}
        BY RestIsSubSeq DEF WorkloadInv, TablesInv
    <2>3. QED
        BY <2>1, <2>2 DEF TypeOK, WorkloadInv, ConfigInv, TablesInv
<1>2. QED
    BY <1>1, WorkloadInvariant, PTL

\* What holds of each event of a complete plan.
LEMMA Complete ==
    ASSUME WorkloadInv, stage = "ready"
    PROVE  /\ Ready /\ Total \in Nat
           /\ events \in Seq(Range(events)) /\ Len(events) = Total + 3
           /\ rows = Generated
           /\ faults = [failOnce |-> {<<ProjectionOf[RetryTable], RetryID>>},
                        deadLetters |-> {<<ProjectionOf["order"], Dead>>}]
           /\ \A i \in 1 .. Total : Acceptable(events[i])
           /\ Announced(events[Total + 1], 1)
           /\ Announced(events[Total + 2], 2)
           /\ Announced(events[Total + 3], 3)
           /\ \A i \in 1 .. Total + 3 : events[i].Seq = i
<1>1. Ready
    BY DEF WorkloadInv, ConfigInv, Ready
<1>2. Total \in Nat
    BY <1>1, SettingsRead DEF Total
<1>3. /\ Len(events) = Total + 3
      /\ \A i \in 1 .. Total + 3 : Planned(i)
      /\ events \in Seq(Range(events)) /\ rows = Generated
      /\ faults = [failOnce |-> {<<ProjectionOf[RetryTable], RetryID>>},
                   deadLetters |-> {<<ProjectionOf["order"], Dead>>}]
    BY DEF WorkloadInv, PlanInv
<1>4. \A i \in 1 .. Total : Acceptable(events[i])
    BY <1>2, <1>3 DEF Planned
<1>5. \A k \in 1 .. 3 : Announced(events[Total + k], k)
    <2> SUFFICES ASSUME NEW k \in 1 .. 3 PROVE Announced(events[Total + k], k)
        OBVIOUS
    <2> DEFINE i == Total + k
    <2>1. i \in 1 .. Total + 3 /\ i > Total /\ i - Total = k
        BY <1>2
    <2> HIDE DEF i
    <2>2. Planned(i)
        BY <1>3, <2>1
    <2>3. QED
        BY <2>1, <2>2 DEF Planned, i
<1>6. QED
    BY <1>1, <1>2, <1>3, <1>4, <1>5 DEF Planned

\* runWriters can carry out every event of a complete plan: there is an actor
\* for it, and applyMutation takes its kind, its value and its row.
THEOREM WorkloadPlanIsAccepted == Spec => []PlanIsAccepted
<1>1. WorkloadInv => PlanIsAccepted
    <2> SUFFICES ASSUME WorkloadInv, stage = "ready", NEW e \in Range(events)
                 PROVE  /\ e.ActorID \in 0 .. config["WRITER_COUNT"] - 1
                        /\ IF e.Kind = "ghost" THEN e.EntityID \notin rows[e.Entity]
                           ELSE /\ e.Kind \in DOMAIN Accepts(e.Entity)
                                /\ e.Type = Accepts(e.Entity)[e.Kind]
                                /\ e.EntityID \in rows[e.Entity]
        BY DEF PlanIsAccepted
    <2>1. PICK i \in 1 .. Total + 3 : e = events[i]
        BY Complete DEF Range
    <2>2. /\ config["WRITER_COUNT"] \in Nat /\ config["WRITER_COUNT"] >= 4
          /\ Total \in Nat /\ rows = Generated
        BY Complete, SettingsRead
    <2>3. CASE i <= Total
        <3>1. Acceptable(e)
            BY <2>1, <2>2, <2>3, Complete
        <3>2. QED
            BY <2>2, <3>1, Complete, Picks DEF Acceptable
    <2>4. CASE i = Total + 1
        <3>1. Announced(e, 1)
            BY <2>1, <2>4, Complete
        <3>2. QED
            BY <2>2, <3>1, Complete, Picks DEF Announced
    <2>5. CASE i = Total + 2
        <3>1. Announced(e, 2)
            BY <2>1, <2>5, Complete
        <3>2. QED
            BY <2>2, <3>1, Complete, Picks, KindsOfTables DEF Announced
    <2>6. CASE i = Total + 3
        <3>1. Announced(e, 3)
            BY <2>1, <2>6, Complete
        <3>2. RetryTable \in Tables
            BY Complete, Picks DEF Tables
        <3>3. QED
            BY <2>2, <3>1, <3>2, Complete, Picks DEF Announced
    <2>7. QED
        BY <2>2, <2>3, <2>4, <2>5, <2>6
<1>2. QED
    BY <1>1, WorkloadInvariant, PTL

LEMMA ProjectionsDiffer ==
    /\ ProjectionOf["user"] # ProjectionOf["order"]
    /\ ProjectionOf["customer"] # ProjectionOf["order"]
    BY DEF ProjectionOf

\* The target rejects for good the one event before the last, however the IDs
\* are sorted: no random mutation picks the dead order, since it is the last.
THEOREM WorkloadOneDeadLetter == Spec => []OneDeadLetter
<1>1. WorkloadInv => OneDeadLetter
    <2> SUFFICES ASSUME WorkloadInv, stage = "ready"
                 PROVE  {i \in DOMAIN events : Key(events[i]) \in faults.deadLetters}
                            = {Len(events) - 1}
        BY DEF OneDeadLetter
    <2>1. /\ Total \in Nat /\ Len(events) = Total + 3
          /\ DOMAIN events = 1 .. Total + 3
          /\ faults.deadLetters = {<<ProjectionOf["order"], Dead>>}
        BY Complete
    <2>2. ASSUME NEW i \in 1 .. Total
          PROVE  Key(events[i]) # <<ProjectionOf["order"], Dead>>
        <3>1. Acceptable(events[i])
            BY Complete
        <3>2. QED
            BY <3>1, Complete, Picks, ProjectionsDiffer DEF Acceptable, Key, Tables
    <2>3. Key(events[Total + 1]) # <<ProjectionOf["order"], Dead>>
        BY Complete, Picks, ProjectionsDiffer DEF Announced, Key
    <2>4. Key(events[Total + 2]) = <<ProjectionOf["order"], Dead>>
        BY Complete DEF Announced, Key
    <2>5. Key(events[Total + 3]) # <<ProjectionOf["order"], Dead>>
        BY Complete, SpecialIDs DEF Announced, Key
    <2>6. \A i \in 1 .. Total + 3 : \/ i \in 1 .. Total \/ i = Total + 1
                                    \/ i = Total + 2 \/ i = Total + 3
        BY <2>1
    <2>7. \A i \in 1 .. Total + 3 :
             Key(events[i]) = <<ProjectionOf["order"], Dead>> <=> i = Total + 2
        BY <2>1, <2>2, <2>3, <2>4, <2>5, <2>6
    <2>8. Len(events) - 1 = Total + 2 /\ Total + 2 \in 1 .. Total + 3
        BY <2>1
    <2>9. QED
        BY <2>1, <2>7, <2>8
<1>2. QED
    BY <1>1, WorkloadInvariant, PTL

\* The report names, as the one that timed out, the entity of the event with
\* the number after the last random one: the target does fail that entity.
THEOREM WorkloadRetryIsReported == Spec => []RetryIsReported
<1>1. WorkloadInv => RetryIsReported
    <2> SUFFICES ASSUME WorkloadInv, stage = "ready"
                 PROVE  \E i \in DOMAIN events :
                           IsReported(i) /\ Key(events[i]) \in faults.failOnce
        BY DEF RetryIsReported
    <2>1. Total \in Nat /\ Total + 1 \in DOMAIN events
        BY Complete
    <2>2. /\ events[Total + 1].Seq = Total + 1
          /\ \A j \in 1 .. (Total + 1) - 1 : events[j].Seq # Total + 1
        <3>1. Total + 1 \in 1 .. Total + 3
            BY <2>1
        <3>2. \A j \in 1 .. (Total + 1) - 1 : j \in 1 .. Total + 3 /\ j # Total + 1
            BY <2>1
        <3>3. QED
            BY <3>1, <3>2, Complete
    <2>3. IsReported(Total + 1)
        BY <2>2 DEF IsReported, Total
    <2>4. Key(events[Total + 1]) \in faults.failOnce
        BY Complete DEF Announced, Key
    <2>5. QED
        BY <2>1, <2>3, <2>4
<1>2. QED
    BY <1>1, WorkloadInvariant, PTL
=============================================================================
