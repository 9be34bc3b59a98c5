------------------------- MODULE WorkloadIDs_proofs -------------------------
(***************************************************************************)
(* What Workload's proofs need of the IDs, for every Base and Width: the   *)
(* digits of a number, the order of strings and the sorted keys.  The      *)
(* digits are defined by recursion; what they are is proved from the least *)
(* number for which it could be false.                                     *)
(***************************************************************************)
EXTENDS Workload, WellFoundedInduction, FiniteSetTheorems, TLAPS

----------------------------------------------------------------------------
(* The least number.                                                       *)

LEMMA SmallerPair == \A x, y \in Nat : <<y, x>> \in OpToRel(<, Nat) <=> y < x
<1> SUFFICES ASSUME NEW x \in Nat, NEW y \in Nat
             PROVE  <<y, x>> \in OpToRel(<, Nat) <=> y < x
    OBVIOUS
<1>1. OpToRel(<, Nat) = {p \in Nat \X Nat : p[1] < p[2]}
    BY DEF OpToRel
<1>2. <<y, x>> \in {p \in Nat \X Nat : p[1] < p[2]} <=> y < x
    OBVIOUS
<1>3. QED
    BY <1>1, <1>2

LEMMA LeastNumber ==
    ASSUME NEW T, T \subseteq Nat, T # {}
    PROVE  \E x \in T : \A y \in T : x <= y
<1>1. \E R : IsWellFoundedOn(R, Nat) /\ \A x, y \in Nat : <<y, x>> \in R <=> y < x
    BY NatLessThanWellFounded, SmallerPair
<1>2. PICK R : /\ IsWellFoundedOn(R, Nat)
               /\ \A x, y \in Nat : <<y, x>> \in R <=> y < x
    BY <1>1
<1>3. PICK x \in T : \A y \in T : ~ (<<y, x>> \in R)
    BY <1>2, WFMin
<1>4. \A y \in T : ~ (y < x)
    BY <1>2, <1>3
<1>5. QED
    BY <1>3, <1>4

----------------------------------------------------------------------------
(* The digits of a number.                                                 *)

Digit == 0 .. Base - 1

\* The rule of the recursion, and a function on the numbers up to m that
\* obeys it.
Rule(f, n) == IF n < Base THEN <<n>> ELSE Append(f[n \div Base], n % Base)

NumeralUpTo(f, m) ==
    /\ f \in [0 .. m -> Seq(Digit)]
    /\ \A n \in 0 .. m : f[n] = Rule(f, n)

LEMMA Division ==
    ASSUME NEW n \in Nat
    PROVE  /\ n < Base => n \in Digit
           /\ n % Base \in Digit
           /\ n >= Base => n \div Base \in Nat /\ n \div Base < n
    BY WorkloadAssumption DEF Digit

LEMMA BaseType == Base \in Nat /\ Base > 1
    BY WorkloadAssumption

\* The rule looks at smaller numbers only, and adds a digit.
LEMMA RuleDepends ==
    ASSUME NEW n \in Nat, NEW f, NEW g,
           \A i \in 0 .. n - 1 : f[i] = g[i]
    PROVE  Rule(f, n) = Rule(g, n)
<1>1. CASE n < Base
    BY <1>1 DEF Rule
<1>2. CASE n >= Base
    <2>1. n \div Base \in 0 .. n - 1
        BY <1>2, Division
    <2>2. f[n \div Base] = g[n \div Base]
        BY <2>1
    <2>3. QED
        BY <2>2 DEF Rule
<1>3. QED
    BY <1>1, <1>2, BaseType

LEMMA RuleType ==
    ASSUME NEW n \in Nat, NEW f, \A i \in 0 .. n - 1 : f[i] \in Seq(Digit)
    PROVE  Rule(f, n) \in Seq(Digit)
<1>1. CASE n < Base
    <2>1. n \in Digit
        BY <1>1, Division
    <2>2. Rule(f, n) = <<n>>
        BY <1>1 DEF Rule
    <2>3. QED
        BY <2>1, <2>2
<1>2. CASE n >= Base
    <2>1. n \div Base \in 0 .. n - 1 /\ n % Base \in Digit
        BY <1>2, Division
    <2>2. f[n \div Base] \in Seq(Digit)
        BY <2>1
    <2>3. ~ (n < Base)
        BY <1>2, BaseType
    <2>4. Rule(f, n) = Append(f[n \div Base], n % Base)
        BY <2>3 DEF Rule
    <2>5. QED
        BY <2>1, <2>2, <2>4
<1>3. QED
    BY <1>1, <1>2, BaseType

LEMMA NumeralExists ==
    ASSUME NEW m \in Nat PROVE \E f : NumeralUpTo(f, m)
<1> DEFINE T == {k \in Nat : ~ \E f : NumeralUpTo(f, k)}
<1> SUFFICES ASSUME T # {} PROVE FALSE
    OBVIOUS
<1>1. PICK k \in T : \A i \in T : k <= i
    BY LeastNumber
<1>2. PICK g : \A n \in 0 .. k - 1 : g[n] \in Seq(Digit) /\ g[n] = Rule(g, n)
    <2>1. CASE k = 0
        BY <2>1
    <2>2. CASE k # 0
        <3>1. k - 1 \in Nat /\ k - 1 \notin T
            BY <1>1, <2>2
        <3>2. QED
            BY <3>1 DEF NumeralUpTo
    <2>3. QED
        BY <2>1, <2>2
<1> DEFINE f == [n \in 0 .. k |-> IF n = k THEN Rule(g, k) ELSE g[n]]
<1>3. Rule(g, k) \in Seq(Digit)
    BY <1>2, RuleType
<1>4. f \in [0 .. k -> Seq(Digit)]
    BY <1>2, <1>3
<1>5. \A n \in 0 .. k - 1 : f[n] = g[n]
    OBVIOUS
<1>6. f[k] = Rule(g, k)
    OBVIOUS
<1> HIDE DEF f
<1>7. \A n \in 0 .. k : Rule(f, n) = Rule(g, n)
    BY <1>5, RuleDepends
<1>8. \A n \in 0 .. k : n = k \/ n \in 0 .. k - 1
    OBVIOUS
<1>9. \A n \in 0 .. k : f[n] = Rule(f, n)
    BY <1>2, <1>5, <1>6, <1>7, <1>8
<1>10. NumeralUpTo(f, k)
    BY <1>4, <1>9 DEF NumeralUpTo
<1>11. QED
    BY <1>10

LEMMA NumeralUnique ==
    ASSUME NEW m \in Nat, NEW p \in Nat, NEW f, NEW g,
           NumeralUpTo(f, m), NumeralUpTo(g, p),
           NEW n \in Nat, n <= m, n <= p
    PROVE  f[n] = g[n]
<1> DEFINE T == {k \in 0 .. n : f[k] # g[k]}
<1> SUFFICES ASSUME T # {} PROVE FALSE
    OBVIOUS
<1>0. T \subseteq Nat
    OBVIOUS
<1>1. PICK k \in T : \A i \in T : k <= i
    BY <1>0, LeastNumber
<1>2. \A i \in 0 .. k - 1 : f[i] = g[i]
    BY <1>1
<1>3. Rule(f, k) = Rule(g, k)
    BY <1>2, RuleDepends
<1>4. f[k] = g[k]
    BY <1>1, <1>3 DEF NumeralUpTo
<1>5. QED
    BY <1>1, <1>4

\* numeral is the function its recursion describes.
LEMMA NumeralDef == \A n \in Nat : numeral[n] = Rule(numeral, n)
<1> DEFINE upTo(m) == CHOOSE f : NumeralUpTo(f, m)
           h       == [n \in Nat |-> upTo(n)[n]]
<1>1. \A m \in Nat : NumeralUpTo(upTo(m), m)
    BY NumeralExists
<1> HIDE DEF upTo
<1>2. ASSUME NEW n \in Nat PROVE h[n] = Rule(h, n)
    <2>1. \A i \in 0 .. n - 1 : upTo(n)[i] = h[i]
        BY <1>1, NumeralUnique
    <2>2. Rule(upTo(n), n) = Rule(h, n)
        BY <2>1, RuleDepends
    <2>3. QED
        BY <1>1, <2>2 DEF NumeralUpTo
<1> HIDE DEF h
<1>3. h = [n \in Nat |-> Rule(h, n)]
    BY <1>2 DEF h
<1>4. \E f : f = [n \in Nat |-> Rule(f, n)]
    BY <1>3
<1>5. numeral = CHOOSE f : f = [n \in Nat |-> Rule(f, n)]
    BY DEF numeral, Rule
<1>6. numeral = [n \in Nat |-> Rule(numeral, n)]
    BY <1>4, <1>5
<1>7. QED
    BY <1>6

LEMMA NumeralType == \A n \in Nat : numeral[n] \in Seq(Digit)
<1> DEFINE T == {k \in Nat : numeral[k] \notin Seq(Digit)}
<1> SUFFICES ASSUME T # {} PROVE FALSE
    OBVIOUS
<1>1. PICK k \in T : \A i \in T : k <= i
    BY LeastNumber
<1>2. \A i \in 0 .. k - 1 : numeral[i] \in Seq(Digit)
    BY <1>1
<1>3. numeral[k] \in Seq(Digit)
    BY <1>1, <1>2, NumeralDef, RuleType
<1>4. QED
    BY <1>1, <1>3

LEMMA DigitsType == \A n \in Nat : Digits(n) \in Seq(Digit)
<1> SUFFICES ASSUME NEW n \in Nat PROVE Digits(n) \in Seq(Digit)
    OBVIOUS
<1> DEFINE zeros == IF Len(numeral[n]) < Width THEN Width - Len(numeral[n]) ELSE 0
<1>1. numeral[n] \in Seq(Digit) /\ Len(numeral[n]) \in Nat
    BY NumeralType
<1>2. zeros \in Nat
    BY <1>1, WorkloadAssumption
<1>3. 0 \in Digit
    BY WorkloadAssumption DEF Digit
<1> HIDE DEF zeros
<1>4. [i \in 1 .. zeros |-> 0] \in Seq(Digit)
    BY <1>2, <1>3
<1>5. Digits(n) = [i \in 1 .. zeros |-> 0] \o numeral[n]
    BY DEF Digits, zeros
<1>6. QED
    BY <1>1, <1>4, <1>5

----------------------------------------------------------------------------
(* The order of strings.                                                   *)

ID == Seq(0 .. Base + 1)

\* The first k - 1 characters agree; then s ends, or has the smaller one.
Splits(s, t, k) ==
    /\ k \in 1 .. Len(t) /\ k <= Len(s) + 1
    /\ \A j \in 1 .. k - 1 : s[j] = t[j]
    /\ k <= Len(s) => s[k] < t[k]

LEMMA BeforeSplits ==
    ASSUME NEW s \in ID, NEW t \in ID
    PROVE  IDBefore(s, t) <=> \E k \in Nat : Splits(s, t, k)
<1>1. ASSUME IsStrictPrefix(s, t) PROVE \E k \in Nat : Splits(s, t, k)
    <2>1. /\ Len(s) \in Nat /\ Len(t) \in Nat /\ Len(s) <= Len(t)
          /\ SubSeq(s, 1, Len(s)) = SubSeq(t, 1, Len(s)) /\ s # t
        BY <1>1 DEF IsStrictPrefix, IsPrefix, ID
    <2>2. \A j \in 1 .. Len(s) : s[j] = t[j]
        BY <2>1 DEF ID
    <2>3. Len(s) # Len(t)
        BY <2>1, <2>2 DEF ID
    <2>4. Splits(s, t, Len(s) + 1)
        BY <2>1, <2>2, <2>3 DEF Splits
    <2>5. QED
        BY <2>1, <2>4
<1>2. ASSUME NEW k \in Nat, Splits(s, t, k), k = Len(s) + 1
      PROVE  IsStrictPrefix(s, t)
    <2>1. /\ Len(s) \in Nat /\ Len(t) \in Nat /\ Len(s) < Len(t)
          /\ \A j \in 1 .. Len(s) : s[j] = t[j]
        BY <1>2 DEF Splits, ID
    <2>2. SubSeq(s, 1, Len(s)) = SubSeq(t, 1, Len(s))
        BY <2>1 DEF ID
    <2>3. QED
        BY <2>1, <2>2 DEF IsStrictPrefix, IsPrefix
<1>3. ASSUME NEW k \in DOMAIN s \cap DOMAIN t,
             s[k] < t[k], \A j \in 1 .. k - 1 : s[j] = t[j]
      PROVE  k \in Nat /\ Splits(s, t, k)
    BY <1>3 DEF Splits, ID
<1>4. ASSUME NEW k \in Nat, Splits(s, t, k), k # Len(s) + 1
      PROVE  /\ k \in DOMAIN s \cap DOMAIN t
             /\ s[k] < t[k] /\ \A j \in 1 .. k - 1 : s[j] = t[j]
    BY <1>4 DEF Splits, ID
<1>5. QED
    BY <1>1, <1>2, <1>3, <1>4 DEF IDBefore

LEMMA BeforeIrreflexive == \A s \in ID : ~IDBefore(s, s)
<1> SUFFICES ASSUME NEW s \in ID PROVE ~IDBefore(s, s)
    OBVIOUS
<1>1. ASSUME NEW k \in Nat, Splits(s, s, k) PROVE FALSE
    <2>1. k \in 1 .. Len(s) /\ s[k] < s[k]
        BY <1>1 DEF Splits
    <2>2. s[k] \in Nat
        BY <2>1, BaseType DEF ID
    <2>3. QED
        BY <2>1, <2>2
<1>2. QED
    BY <1>1, BeforeSplits

LEMMA BeforeTransitive ==
    ASSUME NEW s \in ID, NEW t \in ID, NEW u \in ID,
           IDBefore(s, t), IDBefore(t, u)
    PROVE  IDBefore(s, u)
<1>1. PICK k \in Nat : Splits(s, t, k)
    BY BeforeSplits
<1>2. PICK l \in Nat : Splits(t, u, l)
    BY BeforeSplits
<1>3. /\ Len(s) \in Nat /\ Len(t) \in Nat /\ Len(u) \in Nat
      /\ \A i \in 1 .. Len(s) : s[i] \in Nat
      /\ \A i \in 1 .. Len(t) : t[i] \in Nat
      /\ \A i \in 1 .. Len(u) : u[i] \in Nat
    BY BaseType DEF ID
<1>4. CASE k <= l
    <2>1. Splits(s, u, k)
        BY <1>1, <1>2, <1>3, <1>4 DEF Splits
    <2>2. QED
        BY <2>1, BeforeSplits
<1>5. CASE l < k
    <2>1. Splits(s, u, l)
        BY <1>1, <1>2, <1>3, <1>5 DEF Splits
    <2>2. QED
        BY <2>1, BeforeSplits
<1>6. QED
    BY <1>4, <1>5

LEMMA BeforeTotal ==
    ASSUME NEW s \in ID, NEW t \in ID, s # t
    PROVE  IDBefore(s, t) \/ IDBefore(t, s)
<1> DEFINE T == {i \in Nat : /\ i \in 1 .. Len(s) /\ i \in 1 .. Len(t)
                             /\ s[i] # t[i]}
<1>1. /\ Len(s) \in Nat /\ Len(t) \in Nat
      /\ \A i \in 1 .. Len(s) : s[i] \in Nat
      /\ \A i \in 1 .. Len(t) : t[i] \in Nat
    BY BaseType DEF ID
<1>2. CASE T = {}
    <2>1. \A i \in 1 .. Len(s) : i \in 1 .. Len(t) => s[i] = t[i]
        BY <1>1, <1>2
    <2>2. Len(s) # Len(t)
        BY <2>1 DEF ID
    <2>3. CASE Len(s) < Len(t)
        <3>1. Splits(s, t, Len(s) + 1)
            BY <1>1, <2>1, <2>3 DEF Splits
        <3>2. QED
            BY <1>1, <3>1, BeforeSplits
    <2>4. CASE Len(t) < Len(s)
        <3>1. Splits(t, s, Len(t) + 1)
            BY <1>1, <2>1, <2>4 DEF Splits
        <3>2. QED
            BY <1>1, <3>1, BeforeSplits
    <2>5. QED
        BY <1>1, <2>2, <2>3, <2>4
<1>3. CASE T # {}
    <2>1. T \subseteq Nat
        OBVIOUS
    <2>2. PICK k \in T : \A i \in T : k <= i
        BY <1>3, <2>1, LeastNumber
    <2>3. /\ k \in Nat /\ k \in 1 .. Len(s) /\ k \in 1 .. Len(t) /\ s[k] # t[k]
          /\ \A j \in 1 .. k - 1 : s[j] = t[j]
        BY <1>1, <2>2
    <2>4. Splits(s, t, k) \/ Splits(t, s, k)
        BY <1>1, <2>3 DEF Splits
    <2>5. QED
        BY <2>3, <2>4, BeforeSplits
<1>4. QED
    BY <1>2, <1>3

----------------------------------------------------------------------------
(* Sorted keys.                                                            *)

Below(S, x) == {k \in S : IDBefore(k, x)}
Rank(S, x)  == Cardinality(Below(S, x))

LEMMA RankType ==
    ASSUME NEW S \in SUBSET ID, IsFiniteSet(S), NEW x \in S
    PROVE  /\ IsFiniteSet(Below(S, x))
           /\ Rank(S, x) \in 0 .. Cardinality(S) - 1
<1>1. IsFiniteSet(S \ {x}) /\ Cardinality(S \ {x}) = Cardinality(S) - 1
    BY FS_RemoveElement
<1>2. Below(S, x) \subseteq S \ {x}
    BY BeforeIrreflexive DEF Below
<1>3. /\ IsFiniteSet(Below(S, x))
      /\ Cardinality(Below(S, x)) <= Cardinality(S) - 1
    BY <1>1, <1>2, FS_Subset
<1>4. QED
    BY <1>3, FS_CardinalityType DEF Rank

LEMMA RankGrows ==
    ASSUME NEW S \in SUBSET ID, IsFiniteSet(S), NEW x \in S, NEW y \in S,
           IDBefore(x, y)
    PROVE  Rank(S, x) < Rank(S, y)
<1>1. Below(S, x) \subseteq Below(S, y)
    BY BeforeTransitive DEF Below
<1>2. x \in Below(S, y) /\ x \notin Below(S, x)
    BY BeforeIrreflexive DEF Below
<1>3. Rank(S, x) <= Rank(S, y) /\ Rank(S, x) # Rank(S, y)
    BY <1>1, <1>2, RankType, FS_Subset DEF Rank
<1>4. Rank(S, x) \in Nat /\ Rank(S, y) \in Nat
    BY RankType, FS_CardinalityType DEF Rank
<1>5. QED
    BY <1>3, <1>4

LEMMA RankInjective ==
    ASSUME NEW S \in SUBSET ID, IsFiniteSet(S), NEW x \in S, NEW y \in S,
           Rank(S, x) = Rank(S, y)
    PROVE  x = y
<1>1. Rank(S, x) \in Nat /\ Rank(S, y) \in Nat
    BY RankType, FS_CardinalityType DEF Rank
<1>2. ~IDBefore(x, y) /\ ~IDBefore(y, x)
    BY <1>1, RankGrows
<1>3. QED
    BY <1>2, BeforeTotal

\* Every number of predecessors occurs, since no two keys share one.
LEMMA RankSurjective ==
    ASSUME NEW S \in SUBSET ID, IsFiniteSet(S), NEW i \in 1 .. Cardinality(S)
    PROVE  \E x \in S : Rank(S, x) = i - 1
<1> DEFINE n == Cardinality(S)
           f == [x \in S |-> Rank(S, x) + 1]
<1>1. n \in Nat
    BY FS_CardinalityType
<1>2. f \in [S -> 1 .. n]
    BY <1>1, RankType
<1>3. \A x, y \in S : f[x] = f[y] => x = y
    BY <1>1, RankType, RankInjective
<1>4. f \in Injection(S, 1 .. n)
    BY <1>2, <1>3 DEF Injection, IsInjective
<1>5. IsFiniteSet(1 .. n) /\ Cardinality(1 .. n) = n
    BY <1>1, FS_Interval
<1>6. f \in Surjection(S, 1 .. n)
    BY <1>4, <1>5, FS_Injection
<1>7. PICK x \in S : f[x] = i
    BY <1>6 DEF Surjection
<1>8. QED
    BY <1>1, <1>7, RankType

\* sortedKeys is a list of exactly the keys it is given, in their order.
LEMMA SortedKeys ==
    ASSUME NEW S \in SUBSET ID, IsFiniteSet(S)
    PROVE  /\ sortedKeys(S) \in Seq(S)
           /\ Len(sortedKeys(S)) = Cardinality(S)
           /\ \A i \in 1 .. Cardinality(S) : Rank(S, sortedKeys(S)[i]) = i - 1
           /\ \A x \in S : /\ Rank(S, x) + 1 \in 1 .. Cardinality(S)
                           /\ sortedKeys(S)[Rank(S, x) + 1] = x
<1> DEFINE n   == Cardinality(S)
           key == sortedKeys(S)
<1>1. n \in Nat
    BY FS_CardinalityType
<1>2. key = [i \in 1 .. n |-> CHOOSE x \in S : Rank(S, x) = i - 1]
    BY DEF sortedKeys, Rank, Below
<1> HIDE DEF key
<1>3. \A i \in 1 .. n : key[i] \in S /\ Rank(S, key[i]) = i - 1
    BY <1>2, RankSurjective
<1>4. key \in Seq(S) /\ Len(key) = n
    BY <1>1, <1>2, <1>3
<1>5. ASSUME NEW x \in S
      PROVE  Rank(S, x) + 1 \in 1 .. n /\ key[Rank(S, x) + 1] = x
    <2>1. Rank(S, x) + 1 \in 1 .. n
        BY <1>1, RankType
    <2>2. Rank(S, key[Rank(S, x) + 1]) = Rank(S, x)
        BY <1>1, <1>3, <2>1, RankType
    <2>3. QED
        BY <1>3, <2>1, <2>2, RankInjective
<1>6. QED
    BY <1>3, <1>4, <1>5 DEF key

----------------------------------------------------------------------------
(* The IDs of the tables.                                                  *)

LEMMA NumberedIDs ==
    ASSUME NEW n \in Nat
    PROVE  /\ IsFiniteSet(Numbered(n))
           /\ Numbered(n) \subseteq Seq(Digit) /\ Numbered(n) \subseteq ID
           /\ Dead \notin Numbered(n) /\ Ghost \notin Numbered(n)
           /\ n > 0 => Numbered(n) # {}
<1> DEFINE f == [i \in 1 .. n |-> Digits(i)]
<1>1. f \in Surjection(1 .. n, Numbered(n))
    BY DEF Surjection, Numbered
<1>2. IsFiniteSet(1 .. n)
    BY FS_Interval
<1>3. IsFiniteSet(Numbered(n))
    BY <1>1, <1>2, FS_Surjection
<1>4. Numbered(n) \subseteq Seq(Digit)
    BY DigitsType DEF Numbered
<1>5. Seq(Digit) \subseteq ID
    BY BaseType DEF Digit, ID
<1>6. \A s \in Seq(Digit) : s # Dead /\ s # Ghost
    BY BaseType DEF Digit, Dead, Ghost
<1>7. n > 0 => Digits(1) \in Numbered(n)
    BY DEF Numbered
<1>8. QED
    BY <1>3, <1>4, <1>5, <1>6, <1>7

LEMMA SpecialIDs == Dead \in ID /\ Ghost \in ID /\ Dead # Ghost
    BY BaseType DEF Dead, Ghost, ID

\* Every number is before "dead".
LEMMA NumberBeforeDead ==
    ASSUME NEW s \in Seq(Digit) PROVE IDBefore(s, Dead)
<1>1. s \in ID /\ Dead \in ID /\ Len(Dead) = 1 /\ Dead[1] = Base
    BY BaseType DEF Digit, Dead, ID
<1>2. 1 <= Len(s) => s[1] < Base
    BY BaseType DEF Digit
<1>3. Splits(s, Dead, 1)
    BY <1>1, <1>2 DEF Splits
<1>4. QED
    BY <1>1, <1>3, BeforeSplits

\* The orders sorted: the dead one is the last, and the last only.
LEMMA DeadIsLast ==
    ASSUME NEW n \in Nat \ {0}
    PROVE  LET S   == Numbered(n) \cup {Dead}
               key == sortedKeys(S)
           IN  /\ key \in Seq(S) /\ Len(key) >= 2
               /\ key[Len(key)] = Dead
               /\ \A i \in 1 .. Len(key) - 1 : key[i] \in Numbered(n)
               /\ \A x \in S : \E i \in 1 .. Len(key) : key[i] = x
<1> DEFINE S   == Numbered(n) \cup {Dead}
           key == sortedKeys(S)
<1>1. /\ IsFiniteSet(S) /\ S \in SUBSET ID /\ Dead \in S
      /\ Cardinality(S) = Cardinality(Numbered(n)) + 1
      /\ Cardinality(Numbered(n)) \in Nat \ {0}
    BY NumberedIDs, SpecialIDs, FS_AddElement, FS_CardinalityType, FS_EmptySet
<1>2. Below(S, Dead) = Numbered(n)
    BY NumberedIDs, NumberBeforeDead, BeforeIrreflexive, SpecialIDs DEF Below
<1>3. Rank(S, Dead) = Cardinality(S) - 1
    BY <1>1, <1>2 DEF Rank
<1> HIDE DEF S
<1>4. /\ key \in Seq(S) /\ Len(key) = Cardinality(S)
      /\ \A i \in 1 .. Cardinality(S) : Rank(S, key[i]) = i - 1
      /\ \A x \in S : /\ Rank(S, x) + 1 \in 1 .. Cardinality(S)
                      /\ key[Rank(S, x) + 1] = x
    BY <1>1, SortedKeys
<1> HIDE DEF key
<1>5. key[Len(key)] = Dead
    <2>1. Rank(S, Dead) + 1 = Len(key)
        BY <1>1, <1>3, <1>4
    <2>2. QED
        BY <1>1, <1>4, <2>1
<1>6. ASSUME NEW i \in 1 .. Len(key) - 1 PROVE key[i] \in Numbered(n)
    <2>1. key[i] \in S /\ Rank(S, key[i]) = i - 1
        BY <1>1, <1>4
    <2>2. key[i] # Dead
        BY <1>1, <1>3, <1>4, <2>1
    <2>3. QED
        BY <2>1, <2>2 DEF S
<1>7. \A x \in S : \E i \in 1 .. Len(key) : key[i] = x
    BY <1>4
<1>8. key \in Seq(S) /\ Len(key) >= 2
    BY <1>1, <1>4
<1>9. QED
    BY <1>5, <1>6, <1>7, <1>8 DEF S, key
=============================================================================
