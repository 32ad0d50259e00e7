-------------------------- MODULE BackendsProofs ---------------------------
(***************************************************************************)
(* Theorems about the action graph of the local executor, for every set of *)
(* targets, rules and stages and every set of references between them.     *)
(*                                                                         *)
(* What discovery must have found when its last pass adds nothing is the   *)
(* heart of it: the makers of all items it looked at (FoundAll).  The      *)
(* edges are those to makers that are nodes, so that a maker which was not *)
(* discovered would be an edge that is silently missing.                   *)
(*                                                                         *)
(* The last part is the converse, that discovery took in nothing which     *)
(* does not follow from the root.  It takes the walk of the Ninja backend  *)
(* as two sets, the calls still to come and the actions whose statements   *)
(* are being written, and compares what the two builds run and how they    *)
(* end.                                                                    *)
(***************************************************************************)
EXTENDS Backends, FiniteSetTheorems, FunctionTheorems, WellFoundedInduction, TLAPS

Ready == phase \in {"discovered", "connected", "built", "stalled"}

\* every stage found is the input of a run target found
StagesUsed == \A s \in stages : \E t \in wanted : s \in StagesOf(t)

FoundAll ==
  /\ NamedRules(PassItems) \subseteq rules
  /\ NamedTargets(PassItems) \subseteq wanted
  /\ \A t \in wanted : /\ ConsumedRules(t) \cup DepRules(t) \subseteq rules
                        /\ StagesOf(t) \subseteq stages

IInv ==
  /\ NativeTypeOK
  /\ phase \notin {"authored", "refused"} => Valid
  /\ StagesUsed
  /\ Ready => FoundAll
  /\ phase = "authored" => stages = {}
  /\ phase \in {"authored", "refused", "discover", "discovered", "unsupported"} =>
       nodes = {} /\ edges = {} /\ done = {}
  /\ NamedFirst

-----------------------------------------------------------------------------
(***************************************************************************)
(* What is grown.  Grown is a recursive function; that there is one, what  *)
(* it holds and that it is closed are proved by induction on the rounds,   *)
(* where the set of the numbers of which something holds takes the place   *)
(* of the predicate.                                                       *)
(***************************************************************************)

\* induction, with the set of the numbers that have the property
LEMMA Inductive ==
  ASSUME NEW B, 0 \in B, \A n \in Nat : n \in B => n + 1 \in B
  PROVE Nat \subseteq B
<1> DEFINE T == {0..(n - 1) : n \in Nat \ B}
           F == FiniteSubsetsOf(Nat)
           R == StrictSubsetOrdering(Nat)
<1>1. SUFFICES ASSUME T # {} PROVE FALSE
  OBVIOUS
<1>2. T \subseteq F
  <2>1. \A n \in Nat : 0..(n - 1) \subseteq Nat /\ IsFiniteSet(0..(n - 1))
    BY FS_Interval
  <2> QED BY <2>1 DEF FiniteSubsetsOf
<1>3. IsWellFoundedOn(R, F)
  BY FS_StrictSubsetOrderingWellFounded
<1>4. PICK x \in T : \A y \in T : <<y, x>> \notin R
  <2> HIDE DEF R, F, T
  <2> QED BY <1>1, <1>2, <1>3, WFMin
<1>5. PICK n \in Nat \ B : x = 0..(n - 1)
  OBVIOUS
<1>6. n # 0 /\ n - 1 \in Nat \ B
  <2>1. n # 0 /\ n - 1 \in Nat /\ (n - 1) + 1 = n
    OBVIOUS
  <2> QED BY <2>1
<1> DEFINE y == 0..((n - 1) - 1)
<1>7. y \in T
  BY <1>6
<1>8. n - 1 \in x /\ n - 1 \notin y /\ y \subseteq x /\ x \subseteq Nat
  BY <1>5, <1>6
<1>9. <<y, x>> \in R
  <2> HIDE DEF y
  <2> QED BY <1>8 DEF StrictSubsetOrdering
<1> QED BY <1>4, <1>7, <1>9

Round(next, R) == R \cup UNION {next[x] : x \in R}
Rounds(h, S, next, n) ==
  h = [k \in 0..n |-> IF k = 0 THEN S ELSE Round(next, h[k - 1])]

\* the function behind Grown exists
LEMMA RoundsExist ==
  ASSUME NEW S, NEW next, NEW n \in Nat
  PROVE \E h : Rounds(h, S, next, n)
<1> DEFINE B == {m \in Nat : \E h : Rounds(h, S, next, m)}
<1>1. 0 \in B
  <2>1. Rounds([k \in 0..0 |-> S], S, next, 0)
    BY DEF Rounds
  <2> QED BY <2>1
<1>2. ASSUME NEW m \in Nat, m \in B PROVE m + 1 \in B
  <2>1. PICK h : Rounds(h, S, next, m)
    BY <1>2
  <2> DEFINE g == [k \in 0..(m + 1) |-> IF k = m + 1 THEN Round(next, h[m]) ELSE h[k]]
  <2>2. \A k \in 0..m : h[k] = IF k = 0 THEN S ELSE Round(next, h[k - 1])
    BY <2>1 DEF Rounds
  <2>3. ASSUME NEW k \in 0..(m + 1)
        PROVE g[k] = IF k = 0 THEN S ELSE Round(next, g[k - 1])
    <3>1. CASE k = 0
      BY <2>2, <3>1
    <3>2. CASE k = m + 1
      <4>1. k # 0 /\ k - 1 = m /\ m \in 0..(m + 1) /\ m # m + 1
        BY <3>2
      <4>2. g[k - 1] = h[m]
        BY <4>1
      <4> QED BY <3>2, <4>1, <4>2
    <3>3. CASE k # 0 /\ k # m + 1
      <4>1. k \in 0..m /\ k - 1 \in 0..m /\ k - 1 \in 0..(m + 1) /\ k - 1 # m + 1
        BY <3>3
      <4>2. g[k] = h[k] /\ g[k - 1] = h[k - 1]
        BY <3>3, <4>1
      <4> QED BY <2>2, <3>3, <4>1, <4>2
    <3> QED BY <3>1, <3>2, <3>3
  <2>4. Rounds(g, S, next, m + 1)
    <3>1. g = [k \in 0..(m + 1) |-> g[k]]
      OBVIOUS
    <3> HIDE DEF g
    <3> QED BY <2>3, <3>1 DEF Rounds
  <2> HIDE DEF g
  <2> QED BY <2>4
<1>3. Nat \subseteq B
  <2> HIDE DEF B
  <2> QED BY <1>1, <1>2, Inductive
<1> QED BY <1>3

\* Grown, round by round
LEMMA GrownRounds ==
  ASSUME NEW S, NEW next, NEW n \in Nat
  PROVE \E h : /\ Rounds(h, S, next, n)
               /\ h[0] = S /\ Grown(S, next, n) = h[n]
               /\ \A k \in 0..(n - 1) : h[k + 1] = Round(next, h[k])
<1> DEFINE h == CHOOSE f : Rounds(f, S, next, n)
<1>1. Rounds(h, S, next, n)
  BY RoundsExist
<1>2. Grown(S, next, n) = h[n]
  BY DEF Grown, Rounds, Round
<1> HIDE DEF h
<1>3. \A k \in 0..n : h[k] = IF k = 0 THEN S ELSE Round(next, h[k - 1])
  BY <1>1 DEF Rounds
<1>4. h[0] = S
  BY <1>3
<1>5. \A k \in 0..(n - 1) : h[k + 1] = Round(next, h[k])
  <2>1. \A k \in 0..(n - 1) : k + 1 \in 0..n /\ k + 1 # 0 /\ (k + 1) - 1 = k
    OBVIOUS
  <2> QED BY <1>3, <2>1
<1> QED BY <1>1, <1>2, <1>4, <1>5

\* what is grown holds S, and no more than any set that holds S and is closed
LEMMA GrownLeast ==
  ASSUME NEW S, NEW next, NEW n \in Nat
  PROVE /\ S \subseteq Grown(S, next, n)
        /\ \A C : S \subseteq C /\ (\A x \in C : next[x] \subseteq C)
                 => Grown(S, next, n) \subseteq C
<1>1. PICK h : /\ h[0] = S /\ Grown(S, next, n) = h[n]
               /\ \A k \in 0..(n - 1) : h[k + 1] = Round(next, h[k])
  BY GrownRounds
<1>2. S \subseteq h[n]
  <2> DEFINE B == {k \in Nat : k <= n => S \subseteq h[k]}
  <2>1. 0 \in B
    BY <1>1
  <2>2. ASSUME NEW k \in Nat, k \in B PROVE k + 1 \in B
    <3>1. SUFFICES ASSUME k + 1 <= n PROVE S \subseteq h[k + 1]
      OBVIOUS
    <3>2. k \in 0..(n - 1) /\ k <= n
      BY <3>1
    <3>3. S \subseteq h[k] /\ h[k + 1] = Round(next, h[k])
      BY <1>1, <2>2, <3>2
    <3> QED BY <3>3 DEF Round
  <2>3. Nat \subseteq B
    <3> HIDE DEF B
    <3> QED BY <2>1, <2>2, Inductive
  <2> QED BY <2>3
<1>3. ASSUME NEW C, S \subseteq C, \A x \in C : next[x] \subseteq C
      PROVE h[n] \subseteq C
  <2> DEFINE B == {k \in Nat : k <= n => h[k] \subseteq C}
  <2>1. 0 \in B
    BY <1>1, <1>3
  <2>2. ASSUME NEW k \in Nat, k \in B PROVE k + 1 \in B
    <3>1. SUFFICES ASSUME k + 1 <= n PROVE h[k + 1] \subseteq C
      OBVIOUS
    <3>2. k \in 0..(n - 1) /\ k <= n
      BY <3>1
    <3>3. h[k] \subseteq C /\ h[k + 1] = Round(next, h[k])
      BY <1>1, <2>2, <3>2
    <3> QED BY <1>3, <3>3 DEF Round
  <2>3. Nat \subseteq B
    <3> HIDE DEF B
    <3> QED BY <2>1, <2>2, Inductive
  <2> QED BY <2>3
<1> QED BY <1>1, <1>2, <1>3

\* a set that grows by the same rule for as many rounds as there are members
\* to add ends as one that the rule does not change
LEMMA RoundsEnd ==
  ASSUME NEW U, IsFiniteSet(U), NEW F \in [SUBSET U -> SUBSET U], NEW h,
         h[0] \subseteq U,
         \A k \in 0..(Cardinality(U) - 1) : h[k + 1] = F[h[k]],
         \A k \in 0..Cardinality(U) : h[k] \subseteq U => h[k] \subseteq F[h[k]]
  PROVE h[Cardinality(U)] \subseteq U /\ F[h[Cardinality(U)]] = h[Cardinality(U)]
<1> DEFINE n == Cardinality(U)
<1>0. n \in Nat
  BY FS_CardinalityType
<1>1. \A k \in 0..(n - 1) : h[k + 1] = F[h[k]]
  OBVIOUS
<1> HIDE DEF n
<1>2. \A k \in 0..n : h[k] \subseteq U
  <2> DEFINE B == {k \in Nat : k <= n => h[k] \subseteq U}
  <2>1. 0 \in B
    OBVIOUS
  <2>2. ASSUME NEW k \in Nat, k \in B PROVE k + 1 \in B
    <3>1. SUFFICES ASSUME k + 1 <= n PROVE h[k + 1] \subseteq U
      OBVIOUS
    <3>2. k \in 0..(n - 1) /\ k <= n
      BY <1>0, <3>1
    <3>3. h[k] \in SUBSET U /\ h[k + 1] = F[h[k]]
      BY <1>1, <2>2, <3>2
    <3> QED BY <3>3
  <2>3. Nat \subseteq B
    <3> HIDE DEF B
    <3> QED BY <2>1, <2>2, Inductive
  <2> QED BY <1>0, <2>3
\* once a round adds nothing, no later one does
<1>3. ASSUME NEW m \in 0..n, F[h[m]] = h[m]
      PROVE h[n] = h[m]
  <2> DEFINE B == {k \in Nat : m + k <= n => h[m + k] = h[m]}
  <2>1. 0 \in B
    BY <1>0
  <2>2. ASSUME NEW k \in Nat, k \in B PROVE k + 1 \in B
    <3>1. SUFFICES ASSUME m + (k + 1) <= n PROVE h[m + (k + 1)] = h[m]
      OBVIOUS
    <3>2. m + k \in 0..(n - 1) /\ m + k <= n /\ m + (k + 1) = (m + k) + 1
      BY <1>0, <3>1
    <3>3. h[m + k] = h[m] /\ h[(m + k) + 1] = F[h[m + k]]
      BY <1>1, <2>2, <3>2
    <3> QED BY <1>3, <3>2, <3>3
  <2>3. Nat \subseteq B
    <3> HIDE DEF B
    <3> QED BY <2>1, <2>2, Inductive
  <2>4. n - m \in Nat /\ m + (n - m) = n
    BY <1>0
  <2>5. m + (n - m) <= n
    BY <1>0, <2>4
  <2> QED BY <2>3, <2>4, <2>5
\* until then every round adds a member, of which there are n
<1>4. \E m \in 0..n : F[h[m]] = h[m]
  <2>1. SUFFICES ASSUME \A m \in 0..n : F[h[m]] # h[m]
                 PROVE FALSE
    OBVIOUS
  <2> DEFINE B == {k \in Nat : k <= n => Cardinality(h[k]) >= k}
  <2>2. \A k \in 0..n : IsFiniteSet(h[k]) /\ Cardinality(h[k]) \in Nat
    BY <1>2, FS_Subset, FS_CardinalityType
  <2>3. ASSUME NEW k \in 0..n
        PROVE /\ F[h[k]] \subseteq U
              /\ Cardinality(F[h[k]]) \in Nat
              /\ Cardinality(F[h[k]]) > Cardinality(h[k])
    <3> DEFINE T == F[h[k]]
    <3>1. T \subseteq U /\ h[k] \subseteq T
      <4>1. h[k] \in SUBSET U
        BY <1>2
      <4> QED BY <4>1 DEF n
    <3>2. T # h[k]
      BY <2>1
    <3>3. IsFiniteSet(T) /\ Cardinality(T) \in Nat
      BY <3>1, FS_Subset, FS_CardinalityType
    <3> HIDE DEF T
    <3>4. Cardinality(h[k]) <= Cardinality(T) /\ Cardinality(T) # Cardinality(h[k])
      BY <3>1, <3>2, <3>3, FS_Subset
    <3>5. Cardinality(T) > Cardinality(h[k])
      BY <2>2, <3>3, <3>4
    <3> QED BY <3>1, <3>3, <3>5 DEF T
  <2>4. 0 \in B
    BY <1>0, <2>2
  <2>5. ASSUME NEW k \in Nat, k \in B PROVE k + 1 \in B
    <3>1. SUFFICES ASSUME k + 1 <= n PROVE Cardinality(h[k + 1]) >= k + 1
      OBVIOUS
    <3>2. k \in 0..(n - 1) /\ k \in 0..n /\ k <= n
      BY <1>0, <3>1
    <3>3. Cardinality(h[k]) >= k /\ h[k + 1] = F[h[k]]
      BY <1>1, <2>5, <3>2
    <3>4. Cardinality(h[k + 1]) > Cardinality(h[k]) /\ Cardinality(h[k + 1]) \in Nat
      BY <2>3, <3>2, <3>3
    <3> QED BY <2>2, <3>2, <3>3, <3>4
  <2>6. Nat \subseteq B
    <3> HIDE DEF B
    <3> QED BY <2>4, <2>5, Inductive
  <2>7. n \in 0..n /\ Cardinality(h[n]) >= n
    BY <1>0, <2>6
  <2> DEFINE T == F[h[n]]
  <2>8. T \subseteq U /\ Cardinality(T) \in Nat /\ Cardinality(T) > Cardinality(h[n])
    BY <2>3, <2>7
  <2> HIDE DEF T
  <2>9. Cardinality(T) <= n
    BY <2>8, FS_Subset DEF n
  <2> QED BY <1>0, <2>2, <2>7, <2>8, <2>9
<1>5. PICK m \in 0..n : F[h[m]] = h[m]
  BY <1>4
<1>6. h[n] \subseteq U /\ F[h[n]] = h[n]
  BY <1>0, <1>2, <1>3, <1>5
<1> QED BY <1>6 DEF n

\* with as many rounds as there are members to add, it is closed
LEMMA GrownClosed ==
  ASSUME NEW U, IsFiniteSet(U), NEW S \in SUBSET U, NEW next,
         \A x \in U : next[x] \subseteq U
  PROVE LET G == Grown(S, next, Cardinality(U)) IN
        G \subseteq U /\ \A x \in G : next[x] \subseteq G
<1> DEFINE n == Cardinality(U)
           F == [R \in SUBSET U |-> Round(next, R)]
<1>0. n \in Nat
  BY FS_CardinalityType
<1>1. PICK h : /\ h[0] = S /\ Grown(S, next, n) = h[n]
               /\ \A k \in 0..(n - 1) : h[k + 1] = Round(next, h[k])
  BY <1>0, GrownRounds
<1>2. F \in [SUBSET U -> SUBSET U] /\ \A R \in SUBSET U : F[R] = Round(next, R)
  BY DEF Round
<1>3. \A k \in 0..n : h[k] \subseteq U
  <2> DEFINE B == {k \in Nat : k <= n => h[k] \subseteq U}
  <2> HIDE DEF n, F
  <2>1. 0 \in B
    BY <1>1
  <2>2. ASSUME NEW k \in Nat, k \in B PROVE k + 1 \in B
    <3>1. SUFFICES ASSUME k + 1 <= n PROVE h[k + 1] \subseteq U
      OBVIOUS
    <3>2. k \in 0..(n - 1) /\ k <= n
      BY <1>0, <3>1
    <3>3. h[k] \subseteq U /\ h[k + 1] = Round(next, h[k])
      BY <1>1, <2>2, <3>2
    <3> QED BY <3>3 DEF Round
  <2>3. Nat \subseteq B
    <3> HIDE DEF B
    <3> QED BY <2>1, <2>2, Inductive
  <2> QED BY <1>0, <2>3
<1>4. h[n] \subseteq U /\ F[h[n]] = h[n]
  <2>1. \A k \in 0..(n - 1) : h[k + 1] = F[h[k]]
    <3>1. \A k \in 0..(n - 1) : k \in 0..n
      BY <1>0
    <3> HIDE DEF F, n
    <3> QED BY <1>1, <1>2, <1>3, <3>1
  <2>2. \A k \in 0..n : h[k] \subseteq U => h[k] \subseteq F[h[k]]
    BY <1>2 DEF Round
  <2> HIDE DEF F
  <2> QED BY <1>1, <1>2, <2>1, <2>2, RoundsEnd
<1>5. Round(next, h[n]) = h[n]
  BY <1>2, <1>4
<1>6. \A x \in h[n] : next[x] \subseteq h[n]
  BY <1>5 DEF Round
<1> HIDE DEF n
<1> QED BY <1>1, <1>4, <1>6 DEF n

RanRound(S, waits, R) == {a \in S : waits[a] \subseteq R}
RanByRound(h, S, waits, n) ==
  /\ h[0] = {} /\ Ran(S, waits, n) = h[n]
  /\ \A k \in 0..(n - 1) : h[k + 1] = RanRound(S, waits, h[k])
RanRounds(h, S, waits, n) ==
  h = [k \in 0..n |-> IF k = 0 THEN {} ELSE RanRound(S, waits, h[k - 1])]

\* the function behind Ran exists
LEMMA RanExists ==
  ASSUME NEW S, NEW waits, NEW n \in Nat
  PROVE \E h : RanRounds(h, S, waits, n)
<1> DEFINE B == {m \in Nat : \E h : RanRounds(h, S, waits, m)}
<1>1. 0 \in B
  <2>1. RanRounds([k \in 0..0 |-> {}], S, waits, 0)
    BY DEF RanRounds
  <2> QED BY <2>1
<1>2. ASSUME NEW m \in Nat, m \in B PROVE m + 1 \in B
  <2>1. PICK h : RanRounds(h, S, waits, m)
    BY <1>2
  <2> DEFINE g == [k \in 0..(m + 1) |-> IF k = m + 1 THEN RanRound(S, waits, h[m]) ELSE h[k]]
  <2>2. \A k \in 0..m : h[k] = IF k = 0 THEN {} ELSE RanRound(S, waits, h[k - 1])
    BY <2>1 DEF RanRounds
  <2>3. ASSUME NEW k \in 0..(m + 1)
        PROVE g[k] = IF k = 0 THEN {} ELSE RanRound(S, waits, g[k - 1])
    <3>1. CASE k = 0
      BY <2>2, <3>1
    <3>2. CASE k = m + 1
      <4>1. k # 0 /\ k - 1 = m /\ m \in 0..(m + 1) /\ m # m + 1
        BY <3>2
      <4>2. g[k - 1] = h[m]
        BY <4>1
      <4> QED BY <3>2, <4>1, <4>2
    <3>3. CASE k # 0 /\ k # m + 1
      <4>1. k \in 0..m /\ k - 1 \in 0..m /\ k - 1 \in 0..(m + 1) /\ k - 1 # m + 1
        BY <3>3
      <4>2. g[k] = h[k] /\ g[k - 1] = h[k - 1]
        BY <3>3, <4>1
      <4> QED BY <2>2, <3>3, <4>1, <4>2
    <3> QED BY <3>1, <3>2, <3>3
  <2>4. RanRounds(g, S, waits, m + 1)
    <3>1. g = [k \in 0..(m + 1) |-> g[k]]
      OBVIOUS
    <3> HIDE DEF g
    <3> QED BY <2>3, <3>1 DEF RanRounds
  <2> HIDE DEF g
  <2> QED BY <2>4
<1>3. Nat \subseteq B
  <2> HIDE DEF B
  <2> QED BY <1>1, <1>2, Inductive
<1> QED BY <1>3

\* Ran, round by round
LEMMA RanByRounds ==
  ASSUME NEW S, NEW waits, NEW n \in Nat
  PROVE \E h : RanByRound(h, S, waits, n)
<1> DEFINE h == CHOOSE f : RanRounds(f, S, waits, n)
<1>1. RanRounds(h, S, waits, n)
  BY RanExists
<1>2. Ran(S, waits, n) = h[n]
  BY DEF Ran, RanRounds, RanRound
<1> HIDE DEF h
<1>3. \A k \in 0..n : h[k] = IF k = 0 THEN {} ELSE RanRound(S, waits, h[k - 1])
  BY <1>1 DEF RanRounds
<1>4. h[0] = {}
  BY <1>3
<1>5. \A k \in 0..(n - 1) : h[k + 1] = RanRound(S, waits, h[k])
  <2>1. \A k \in 0..(n - 1) : k + 1 \in 0..n /\ k + 1 # 0 /\ (k + 1) - 1 = k
    OBVIOUS
  <2> QED BY <1>3, <2>1
<1> QED BY <1>2, <1>4, <1>5 DEF RanByRound

\* nothing else runs
LEMMA RanWithin ==
  ASSUME NEW S, NEW waits, NEW n \in Nat
  PROVE Ran(S, waits, n) \subseteq S
<1>0. PICK h : RanByRound(h, S, waits, n)
  BY RanByRounds
<1>1. /\ h[0] = {} /\ Ran(S, waits, n) = h[n]
      /\ \A k \in 0..(n - 1) : h[k + 1] = RanRound(S, waits, h[k])
  BY <1>0 DEF RanByRound
<1>2. CASE n = 0
  BY <1>1, <1>2
<1>3. CASE n # 0
  <2>1. n - 1 \in 0..(n - 1) /\ (n - 1) + 1 = n
    BY <1>3
  <2> QED BY <1>1, <2>1 DEF RanRound
<1> QED BY <1>2, <1>3

\* with a round for each member, what has run is the least set that holds
\* whatever waits only for what it holds
LEMMA RanLeast ==
  ASSUME NEW S, IsFiniteSet(S), NEW waits
  PROVE LET R == Ran(S, waits, Cardinality(S)) IN
        /\ R \subseteq S
        /\ \A a \in S : waits[a] \subseteq R => a \in R
        /\ \A C : (\A a \in S : waits[a] \subseteq C => a \in C) => R \subseteq C
<1> DEFINE n == Cardinality(S)
           F == [R \in SUBSET S |-> RanRound(S, waits, R)]
<1>0. n \in Nat
  BY FS_CardinalityType
<1>01. PICK h : RanByRound(h, S, waits, n)
  BY <1>0, RanByRounds
<1>1. /\ h[0] = {} /\ Ran(S, waits, n) = h[n]
      /\ \A k \in 0..(n - 1) : h[k + 1] = RanRound(S, waits, h[k])
  BY <1>01 DEF RanByRound
<1>2. F \in [SUBSET S -> SUBSET S] /\ \A R \in SUBSET S : F[R] = RanRound(S, waits, R)
  BY DEF RanRound
\* what has run has run in later rounds too
<1>3. \A k \in 0..n : h[k] \subseteq S /\ h[k] \subseteq RanRound(S, waits, h[k])
  <2> DEFINE B == {k \in Nat : k <= n => h[k] \subseteq S /\ h[k] \subseteq RanRound(S, waits, h[k])}
  <2> HIDE DEF n, F
  <2>1. 0 \in B
    BY <1>1
  <2>2. ASSUME NEW k \in Nat, k \in B PROVE k + 1 \in B
    <3>1. SUFFICES ASSUME k + 1 <= n
                   PROVE h[k + 1] \subseteq S /\ h[k + 1] \subseteq RanRound(S, waits, h[k + 1])
      OBVIOUS
    <3>2. k \in 0..(n - 1) /\ k <= n
      BY <1>0, <3>1
    <3>3. h[k] \subseteq h[k + 1] /\ h[k + 1] = RanRound(S, waits, h[k])
      BY <1>1, <2>2, <3>2
    <3> QED BY <3>3 DEF RanRound
  <2>3. Nat \subseteq B
    <3> HIDE DEF B
    <3> QED BY <2>1, <2>2, Inductive
  <2> QED BY <1>0, <2>3
<1>4. h[n] \subseteq S /\ F[h[n]] = h[n]
  <2>1. \A k \in 0..(n - 1) : h[k + 1] = F[h[k]]
    <3>1. \A k \in 0..(n - 1) : k \in 0..n
      BY <1>0
    <3> HIDE DEF F, n
    <3> QED BY <1>1, <1>2, <1>3, <3>1
  <2>2. \A k \in 0..n : h[k] \subseteq S => h[k] \subseteq F[h[k]]
    BY <1>2, <1>3
  <2> HIDE DEF F
  <2> QED BY <1>1, <1>2, <2>1, <2>2, RoundsEnd
<1>5. RanRound(S, waits, h[n]) = h[n]
  BY <1>2, <1>4
<1> HIDE DEF F, n
<1>6. ASSUME NEW C, \A a \in S : waits[a] \subseteq C => a \in C
      PROVE h[n] \subseteq C
  <2> DEFINE B == {k \in Nat : k <= n => h[k] \subseteq C}
  <2>1. 0 \in B
    BY <1>1
  <2>2. ASSUME NEW k \in Nat, k \in B PROVE k + 1 \in B
    <3>1. SUFFICES ASSUME k + 1 <= n PROVE h[k + 1] \subseteq C
      OBVIOUS
    <3>2. k \in 0..(n - 1) /\ k <= n
      BY <1>0, <3>1
    <3>3. h[k] \subseteq C /\ h[k + 1] = RanRound(S, waits, h[k])
      BY <1>1, <2>2, <3>2
    <3> QED BY <1>6, <3>3 DEF RanRound
  <2>3. Nat \subseteq B
    <3> HIDE DEF B
    <3> QED BY <2>1, <2>2, Inductive
  <2> QED BY <1>0, <2>3
<1> QED BY <1>1, <1>4, <1>5, <1>6 DEF RanRound, n

-----------------------------------------------------------------------------
(* The initial state and the steps.                                        *)

LEMMA Initially == NativeInit => IInv
  BY DEF NativeInit, IInv, NativeTypeOK, Phases, StagesUsed, Ready, Connected, NamedFirst

\* the rules and the stages that are found exist
LEMMA FoundExist ==
  ASSUME Valid
  PROVE /\ NamedRules(PassItems) \subseteq Genrules
        /\ \A t : ConsumedRules(t) \cup DepRules(t) \subseteq Genrules
        /\ \A t : StagesOf(t) \subseteq Stages
<1> USE DEF Valid, WellFormed
<1>1. \A o, f : \A i \in Items(o, f) : i.is = "path" => i.of \in Genrules
  BY DEF Items
<1>2. \A o, f : \A i \in Items(o, f) : i.is = "stage_dir" => i.of \in Stages
  BY DEF Items
<1>3. \A i \in PassItems : i.is = "path" => i.of \in Genrules
  BY <1>1 DEF PassItems, TargetItems, GenruleItems, CompileUsage, LinkUsage, RunItems, Tokens
<1>4. NamedRules(PassItems) \subseteq Genrules
  BY <1>3 DEF NamedRules, Rules
<1>5. \A t : ConsumedRules(t) \cup DepRules(t) \subseteq Genrules
  BY <1>1 DEF ConsumedRules, DepRules, Rules
<1>6. \A t : StagesOf(t) \subseteq Stages
  BY <1>2 DEF StagesOf
<1> QED BY <1>4, <1>5, <1>6

-----------------------------------------------------------------------------
(* No step changes the references, nor what depends on them only.          *)

LEMMA SameUsage ==
  ASSUME UNCHANGED refs
  PROVE /\ \A o, f : Items(o, f)' = Items(o, f) /\ Labels(o, f)' = Labels(o, f)
        /\ \A t : CompileUsage(t)' = CompileUsage(t) /\ LinkUsage(t)' = LinkUsage(t)
<1>1. \A o, f : Items(o, f)' = Items(o, f)
  BY DEF Items
<1>2. \A o, f : Labels(o, f)' = Labels(o, f)
  BY <1>1 DEF Labels
<1>3. \A t : LinkDeps(t)' = LinkDeps(t) /\ PublicDeps(t)' = PublicDeps(t)
  BY <1>2 DEF LinkDeps, DepLabels, PublicDeps
<1>4. [x \in Targets |-> PublicDeps(x)]' = [x \in Targets |-> PublicDeps(x)]
  BY <1>3
<1>5. \A t : UsageOwners(t)' = UsageOwners(t)
  BY <1>3, <1>4 DEF UsageOwners
<1>6. \A t : CompileUsage(t)' = CompileUsage(t) /\ LinkUsage(t)' = LinkUsage(t)
  BY <1>1, <1>5 DEF CompileUsage, LinkUsage
<1> QED BY <1>1, <1>2, <1>6

LEMMA SameItems ==
  ASSUME UNCHANGED refs
  PROVE /\ \A t : ConsumedRules(t)' = ConsumedRules(t) /\ StagesOf(t)' = StagesOf(t)
                 /\ DepRules(t)' = DepRules(t)
        /\ \A t : TargetItems(t)' = TargetItems(t)
        /\ \A g : GenruleItems(g)' = GenruleItems(g)
<1>1. \A o, f : Items(o, f)' = Items(o, f)
  BY SameUsage
<1>2. \A t : ConsumedRules(t)' = ConsumedRules(t)
  BY <1>1 DEF ConsumedRules, Rules
<1>3. \A t : StagesOf(t)' = StagesOf(t)
  BY <1>1 DEF StagesOf
<1>4. \A t : RunItems(t)' = RunItems(t)
  BY <1>1, <1>3 DEF RunItems, Tokens
<1>5. \A t : TargetItems(t)' = TargetItems(t)
  BY <1>1, <1>4, SameUsage DEF TargetItems, Tokens
<1>6. \A g : GenruleItems(g)' = GenruleItems(g)
  BY <1>1 DEF GenruleItems
<1>7. \A t : DepRules(t)' = DepRules(t)
  BY SameUsage DEF DepRules, DepLabels
<1> QED BY <1>2, <1>3, <1>5, <1>6, <1>7

LEMMA SameValid ==
  ASSUME UNCHANGED refs
  PROVE Valid' <=> Valid
<1>1. \A o, f : Items(o, f)' = Items(o, f) /\ Labels(o, f)' = Labels(o, f)
  BY SameUsage
<1>2. \A t : ConsumerContext(t)' <=> ConsumerContext(t)
  BY DEF ConsumerContext
<1>3. \A g : ValidGenrule(g)' <=> ValidGenrule(g)
  BY <1>1 DEF ValidGenrule
<1>4. \A s : ValidStage(s)' <=> ValidStage(s)
  BY <1>1 DEF ValidStage
<1>5. \A t : ValidTarget(t)' <=> ValidTarget(t)
  BY <1>1, <1>2 DEF ValidTarget, ValidObjects
<1> QED BY <1>3, <1>4, <1>5 DEF Valid

-----------------------------------------------------------------------------
(* The steps.                                                              *)

LEMMA StartStep ==
  ASSUME IInv, Start
  PROVE IInv'
<1> USE DEF found, graph
<1>1. UNCHANGED refs /\ phase = "authored" /\ stages = {} /\ stages' = {}
  BY DEF Start, IInv
<1>2. phase' \in {"refused", "cycle", "discover"} /\ (phase' # "refused" => Valid)
  BY DEF Start
<1>3. NativeTypeOK'
  BY <1>2 DEF IInv, NativeTypeOK, Start, Phases
<1>4. Valid' <=> Valid
  BY <1>1, SameValid
<1>5. StagesUsed'
  BY <1>1 DEF StagesUsed
<1>6. nodes' = {} /\ edges' = {} /\ done' = {}
  BY DEF Start, IInv
<1> QED BY <1>1, <1>2, <1>3, <1>4, <1>5, <1>6 DEF IInv, Ready, Connected, NamedFirst

LEMMA PassStep ==
  ASSUME IInv, Pass
  PROVE IInv'
<1> USE DEF found, graph
<1>1. UNCHANGED refs /\ phase = "discover" /\ Valid
  BY DEF Pass, IInv
<1>2. phase' \in {"cycle", "discovered", "discover"} /\ (phase' = "discovered" => found' = found)
  BY DEF Pass
<1>3. nodes' = {} /\ edges' = {} /\ done' = {}
  BY <1>1 DEF Pass, IInv
<1>4. NativeTypeOK'
  <2>1. rules' \subseteq Genrules /\ stages' \subseteq Stages
    BY <1>1, FoundExist DEF Pass, IInv, NativeTypeOK
  <2> QED BY <1>2, <1>3, <2>1 DEF NativeTypeOK, Phases
<1>5. StagesUsed'
  <2>1. \A t : StagesOf(t)' = StagesOf(t)
    BY <1>1, SameItems
  <2>2. wanted \subseteq wanted'
    BY DEF Pass
  <2>3. \A s \in stages' : \E t \in wanted : s \in StagesOf(t)
    BY DEF Pass, IInv, StagesUsed
  <2> QED BY <2>1, <2>2, <2>3 DEF StagesUsed
<1>6. ASSUME phase' = "discovered" PROVE FoundAll'
  <2>1. found' = found
    BY <1>2, <1>6
  <2>2. NamedRules(PassItems) \subseteq rules
    BY <2>1 DEF Pass
  <2>3. NamedTargets(PassItems) \subseteq wanted
    BY <2>1 DEF Pass, Closure
  <2>4. \A t \in wanted : /\ ConsumedRules(t) \cup DepRules(t) \subseteq rules
                           /\ StagesOf(t) \subseteq stages
    BY <2>1 DEF Pass
  <2>5. PassItems' = PassItems
    <3>1. /\ \A t : TargetItems(t)' = TargetItems(t)
          /\ \A g : GenruleItems(g)' = GenruleItems(g)
      BY <1>1, SameItems
    <3> QED BY <2>1, <3>1 DEF PassItems
  <2>6. \A t : /\ ConsumedRules(t)' = ConsumedRules(t) /\ StagesOf(t)' = StagesOf(t)
               /\ DepRules(t)' = DepRules(t)
    BY <1>1, SameItems
  <2> QED BY <2>1, <2>2, <2>3, <2>4, <2>5, <2>6 DEF FoundAll, NamedRules, NamedTargets
<1>7. Valid'
  BY <1>1, SameValid
<1> QED BY <1>2, <1>3, <1>4, <1>5, <1>6, <1>7 DEF IInv, Ready, Connected, NamedFirst

-----------------------------------------------------------------------------
(* The makers of what was named are nodes.                                 *)

\* a token or a path that discovery looked at
LEMMA MakerFound ==
  ASSUME FoundAll, NEW i \in PassItems, i.is = "path" => i.of \in Genrules,
         \/ i.is = "token" /\ HasArtifact(i.of)
         \/ i.is = "path"
  PROVE Maker(i) \in AllNodes
<1>1. CASE i.of \in Targets
  <2>1. i.is = "token" /\ i.of \in wanted
    BY <1>1, NamesAssumption DEF FoundAll, NamedTargets, Tokens
  <2>2. Maker(i) = Final(i.of)
    BY <1>1, <2>1 DEF Maker
  <2>3. Final(i.of) \in TargetNodes(i.of)
    BY DEF TargetNodes
  <2> QED BY <2>1, <2>2, <2>3 DEF AllNodes
<1>2. CASE i.of \notin Targets
  <2>1. i.of \in rules
    BY <1>2 DEF FoundAll, NamedRules, Tokens, Rules, HasArtifact
  <2>2. Maker(i) = Rule(i.of)
    BY <1>2 DEF Maker
  <2> QED BY <2>1, <2>2 DEF AllNodes
<1> QED BY <1>1, <1>2

\* an item of a field, as validation lets it through
LEMMA ItemShapes ==
  ASSUME Valid
  PROVE /\ \A o, f : \A i \in Items(o, f) : /\ i.is = "path" => i.of \in Genrules
                                            /\ i.is = "stage_dir" => i.of \in Stages
        /\ \A o : \A f \in {"sources", "headers", "pch"} : \A i \in Items(o, f) : i.is = "path"
        /\ \A o : \A f \in {"tool", "inputs", "args", "files", "link_inputs", "run_inputs",
                            "run_command", "compile_usage", "link_usage"} :
             \A i \in Items(o, f) : /\ i.is = "token" => HasArtifact(i.of)
                                    /\ i.is \in {"token", "path", "stage_dir", "plain"}
        /\ \A o : \A f \in {"tool", "inputs", "args", "files", "link_inputs",
                            "compile_usage", "link_usage"} :
             \A i \in Items(o, f) : i.is # "stage_dir"
<1>1. \A o, f : \A i \in Items(o, f) : \E r \in refs : r.owner = o /\ r.field = f /\ r.item = i /\ WellFormed(r)
  BY DEF Valid, Items
<1>2. \A o, f : \A i \in Items(o, f) :
        o \in CASE f \in {"tool", "inputs", "args"} -> Genrules
                [] f = "files" -> Stages
                [] OTHER -> Targets
  BY <1>1 DEF WellFormed
<1>3. \A o : \A f \in {"tool", "inputs", "args"} : \A i \in Items(o, f) : i.is = "token" => HasArtifact(i.of)
  BY <1>2 DEF Valid, ValidGenrule, ValidTool, TokenAllowed, HasArtifact, Consumers
<1>4. \A o : \A i \in Items(o, "files") : i.is = "token" => HasArtifact(i.of)
  BY <1>2 DEF Valid, ValidStage, TokenAllowed
<1>5. \A o : \A f \in {"link_inputs", "run_inputs", "run_command", "compile_usage", "link_usage"} :
        \A i \in Items(o, f) : i.is = "token" => HasArtifact(i.of)
  BY <1>2 DEF Valid, ValidTarget, TokenAllowed
<1>6. \A o, f : \A i \in Items(o, f) :
        /\ i.is = "path" => i.of \in Genrules
        /\ i.is = "stage_dir" => i.of \in Stages /\ f \in {"run_inputs", "run_command"}
        /\ f \in {"sources", "headers", "pch"} => i.is = "path"
        /\ i.is = "label" => f \in {"deps", "private_deps", "objects"}
        /\ i.is \in {"label", "token", "stage_dir", "path", "plain"}
  BY <1>1 DEF WellFormed
<1> QED BY <1>3, <1>4, <1>5, <1>6

\* usage of both kinds consists of items of those two fields
LEMMA UsageShapes ==
  ASSUME Valid
  PROVE \A t : \A i \in CompileUsage(t) \cup LinkUsage(t) :
          /\ i.is = "path" => i.of \in Genrules
          /\ i.is = "token" => HasArtifact(i.of)
          /\ i.is \in {"token", "path", "plain"}
  BY ItemShapes DEF CompileUsage, LinkUsage

LEMMA RulesFound ==
  ASSUME FoundAll, NEW t \in wanted, NEW g \in ConsumedRules(t) \cup DepRules(t)
  PROVE Rule(g) \in AllNodes
  BY DEF FoundAll, AllNodes

LEMMA PathMakers ==
  ASSUME NEW S, \A i \in S : i.is = "path" /\ i.of \in Genrules
  PROVE Makers(S) = {Rule(g) : g \in Rules(S)}
<1>1. \A i \in S : Maker(i) = Rule(i.of)
  BY NamesAssumption DEF Maker
<1> QED BY <1>1 DEF Makers, Rules

LEMMA MakersFound ==
  ASSUME FoundAll, NEW S \in SUBSET PassItems,
         \A i \in S : /\ i.is \in {"token", "path", "plain"}
                      /\ i.is = "path" => i.of \in Genrules
                      /\ i.is = "token" => HasArtifact(i.of)
  PROVE Makers(S) \subseteq AllNodes
  BY MakerFound DEF Makers

LEMMA NodeShapes ==
  ASSUME NEW a \in AllNodes
  PROVE /\ a.act = "rule" => a.of \in rules
        /\ a.act = "stage" => a.of \in stages
        /\ a.act = "pch" => a.of \in wanted
        /\ a.act = "compile" => a.of \in wanted /\ a \in CompileActions(a.of) /\ IsCompiled(a.of)
        /\ a.act = "final" => a.of \in wanted
<1>1. CASE \E g \in rules : a = Rule(g)
  BY <1>1 DEF Rule, Action
<1>2. CASE \E s \in stages : a = Stage(s)
  BY <1>2 DEF Stage, Action
<1>3. ASSUME NEW t \in wanted, a \in TargetNodes(t)
      PROVE /\ a.of = t
            /\ \/ a.act \in {"final", "pch"}
               \/ a.act = "compile" /\ a \in CompileActions(t) /\ IsCompiled(t)
  <2>1. CASE a = Final(t)
    <3>1. a.of = t /\ a.act = "final"
      BY <2>1 DEF Final, Action
    <3> QED BY <3>1
  <2>2. CASE a = Pch(t)
    <3>1. a.of = t /\ a.act = "pch"
      BY <2>2 DEF Pch, Action
    <3> QED BY <3>1
  <2>3. CASE IsCompiled(t) /\ a \in CompileActions(t)
    <3>1. \E o, s : a = Compile(t, o, s)
      BY <2>3 DEF CompileActions, OwnActions
    <3>2. a.of = t /\ a.act = "compile"
      BY <3>1 DEF Compile
    <3> QED BY <2>3, <3>2
  <2> QED BY <1>3, <2>1, <2>2, <2>3 DEF TargetNodes
<1> QED BY <1>1, <1>2, <1>3 DEF AllNodes

LEMMA RuleReads ==
  ASSUME Valid, FoundAll, NEW a \in AllNodes, a.act = "rule"
  PROVE NamedReads(a) \subseteq Waits(a) \cap AllNodes
<1>1. a.of \in rules
  BY NodeShapes
<1>2. GenruleItems(a.of) \subseteq PassItems
  BY <1>1 DEF PassItems
<1>3. \A i \in GenruleItems(a.of) : /\ i.is \in {"token", "path", "plain"}
                                    /\ i.is = "path" => i.of \in Genrules
                                    /\ i.is = "token" => HasArtifact(i.of)
  BY ItemShapes DEF GenruleItems
<1> DEFINE S == {i \in GenruleItems(a.of) : i.is = "path" => i.of # a.of}
<1>4. Makers(S) \subseteq AllNodes
  BY <1>2, <1>3, MakersFound
<1>5. NamedReads(a) = Makers(S) /\ Waits(a) = Makers(S)
  BY DEF NamedReads, Waits, GenruleWaits
<1> QED BY <1>4, <1>5

LEMMA StageReads ==
  ASSUME Valid, FoundAll, StagesUsed, NEW a \in AllNodes, a.act = "stage"
  PROVE NamedReads(a) \subseteq Waits(a) \cap AllNodes
<1>1. PICK t \in wanted : a.of \in StagesOf(t)
  BY NodeShapes DEF StagesUsed
<1>2. Items(a.of, "files") \subseteq RunItems(t)
  BY <1>1 DEF RunItems, StagesOf
<1>3. RunItems(t) \subseteq TargetItems(t)
  BY DEF TargetItems
<1>4. TargetItems(t) \subseteq PassItems
  BY <1>1 DEF PassItems
<1>5. Items(a.of, "files") \subseteq PassItems
  BY <1>2, <1>3, <1>4
<1>6. Makers(Items(a.of, "files")) \subseteq AllNodes
  BY <1>5, ItemShapes, MakersFound
<1> QED BY <1>6 DEF NamedReads, Waits

LEMMA UsageFound ==
  ASSUME Valid, FoundAll, NEW t \in wanted
  PROVE Makers(CompileUsage(t)) \subseteq AllNodes /\ Makers(LinkUsage(t)) \subseteq AllNodes
<1>0. TargetItems(t) \subseteq PassItems
  BY DEF PassItems
<1>1. CompileUsage(t) \subseteq PassItems /\ LinkUsage(t) \subseteq PassItems
  BY <1>0 DEF TargetItems
<1> QED BY <1>1, UsageShapes, MakersFound

\* the rules a target consumes through fields that only take paths
LEMMA SourcesFound ==
  ASSUME Valid, FoundAll, NEW t \in wanted, NEW f \in {"sources", "headers", "pch"}
  PROVE /\ Makers(Items(t, f)) = {Rule(g) : g \in Rules(Items(t, f))}
        /\ Makers(Items(t, f)) \subseteq AllNodes
<1>1. Makers(Items(t, f)) = {Rule(g) : g \in Rules(Items(t, f))}
  BY ItemShapes, PathMakers
<1>2. Rules(Items(t, f)) \subseteq ConsumedRules(t)
  BY DEF ConsumedRules, Rules
<1> QED BY <1>1, <1>2, RulesFound

LEMMA PchReads1 ==
  ASSUME Valid, FoundAll, NEW a \in AllNodes, a.act = "pch"
  PROVE NamedReads(a) \subseteq Waits(a) \cap AllNodes
<1>1. a.of \in wanted
  BY NodeShapes
<1>2. Makers(Items(a.of, "pch")) \subseteq AllNodes /\ Makers(CompileUsage(a.of)) \subseteq AllNodes
  BY <1>1, SourcesFound, UsageFound
<1>3. Makers(Items(a.of, "pch") \cup CompileUsage(a.of)) \subseteq AllNodes
  BY <1>2 DEF Makers
<1> QED BY <1>3 DEF NamedReads, Waits, PchWaits

\* the index of a source is a number: the list of sources is finite
LEMMA IndexType ==
  ASSUME NEW t, NEW x
  PROVE Index(t, x) \in Nat
<1> DEFINE B == {i \in 1..Len(Listed) :
                   Listed[i] \in Sources(t) /\ \E j \in 1..Len(Listed) : i < j /\ Listed[j] = x}
<1>1. IsFiniteSet(1..Len(Listed))
  BY ListedAssumption, FS_Interval
<1>2. B \subseteq 1..Len(Listed)
  OBVIOUS
<1>3. IsFiniteSet(B)
  BY <1>1, <1>2, FS_Subset
<1>4. Cardinality(B) \in Nat
  BY <1>3, FS_CardinalityType
<1> QED BY <1>4 DEF Index, CountBefore

\* an action of a target for a source of its own, and what it makes of it
LEMMA OwnShapes ==
  ASSUME Valid, FoundAll, NEW a \in AllNodes, a.act = "compile", a.owner = a.of
  PROVE /\ a.of \in wanted /\ ~ConsumerContext(a.of)
        /\ a = Compile(a.of, a.of, a.src)
        /\ CompiledWith(a.of, a.of, a.src) \subseteq CompiledSources(a.of)
        /\ CompileActions(a.of) \subseteq AllNodes
<1> DEFINE t == a.of
<1>1. t \in wanted /\ a \in CompileActions(t) /\ IsCompiled(t)
  BY NodeShapes
<1>2. t \notin BorrowedFrom(t)
  <2>1. SUFFICES ASSUME t \in Labels(t, "objects"), ConsumerContext(t)
                 PROVE FALSE
    BY DEF BorrowedFrom
  <2>2. Items(t, "objects") # {} /\ Kind[t] = "objectlib"
    BY <2>1 DEF Labels, ConsumerContext
  <2>3. t \in Targets
    BY <2>2 DEF Items, Valid, WellFormed
  <2>4. Kind[t] \in Consumers
    BY <2>2, <2>3 DEF Valid, ValidTarget, ValidObjects
  <2> QED BY <2>2, <2>4 DEF Consumers
<1>3. a \notin UNION {{Compile(t, o, s) : s \in CompiledSources(o)} : o \in BorrowedFrom(t)}
  BY <1>2 DEF Compile
<1>4. ~ConsumerContext(t) /\ a \in OwnActions(t)
  BY <1>1, <1>3 DEF CompileActions
<1>5. PICK s \in CompiledSources(t) : a = Compile(t, t, s)
  BY <1>4 DEF OwnActions
<1>6. a.src = s
  BY <1>5 DEF Compile
<1>7. CompiledWith(t, t, s) \subseteq CompiledSources(t)
  BY DEF CompiledWith, Batch, CompiledSources
<1>8. CompileActions(t) \subseteq AllNodes
  BY <1>1 DEF AllNodes, TargetNodes
<1> QED BY <1>1, <1>4, <1>5, <1>6, <1>7, <1>8

\* the sources that are compiled, and what makes them
LEMMA SourceMakers ==
  ASSUME Valid, FoundAll, NEW t \in wanted, NEW S \in SUBSET CompiledSources(t)
  PROVE Makers(S) \subseteq {Rule(g) : g \in CompileRules(t)} \cap AllNodes
<1>1. ASSUME NEW s \in S, s.is # "plain"
      PROVE Maker(s) \in {Rule(g) : g \in CompileRules(t)} \cap AllNodes
  <2>1. s \in Items(t, "sources") /\ s.out \in {"c", "m"}
    BY <1>1 DEF CompiledSources, Implementations, Interfaces, Sources, Plain
  <2>2. s.is = "path" /\ s.of \in Genrules
    BY <2>1, ItemShapes
  <2>3. Maker(s) = Rule(s.of)
    BY <2>2, NamesAssumption DEF Maker
  <2>4. s.of \in CompileRules(t)
    BY <2>1, <2>2 DEF CompileRules, Rules
  <2>5. Maker(s) \in Makers(Items(t, "sources"))
    BY <2>1, <2>2 DEF Makers
  <2>6. Maker(s) \in AllNodes
    BY <2>5, SourcesFound
  <2> QED BY <2>3, <2>4, <2>6
<1> QED BY <1>1 DEF Makers

\* the interfaces that a source of the target itself takes
LEMMA BmiWaits ==
  ASSUME Valid, FoundAll, NEW a \in AllNodes, a.act = "compile", a.owner = a.of
  PROVE BmiReads(a.of, a.of, a.src) \subseteq ModuleWaits(a.of, a.of, a.src) \cap AllNodes
<1> DEFINE t == a.of
           s == a.src
<1>1. ~ConsumerContext(t) /\ CompileActions(t) \subseteq AllNodes
  BY OwnShapes
<1>2. SUFFICES ASSUME NEW d \in Interfaces(t), Modules(t),
                      s.out = "m" => Index(t, d) < Index(t, s)
               PROVE Compile(t, t, d) \in ModuleWaits(t, t, s)
  BY <1>1 DEF BmiReads, SourceAt, ModuleWaits
<1>3. d \in CompiledSources(t) /\ d.out = "m"
  BY DEF Interfaces, CompiledSources
<1>4. EmitsObject(t, d)
  BY <1>3 DEF EmitsObject
<1>5. Compile(t, t, d) \in CompileActions(t)
  BY <1>1, <1>3, <1>4 DEF CompileActions, OwnActions
<1>6. Index(t, d) \in Nat /\ Index(t, s) \in Nat
  BY IndexType
<1>7. s.out = "m" => ~(Index(t, s) < Index(t, d))
  BY <1>2, <1>6
<1>8. s # d
  BY <1>2, <1>3, <1>6
<1>9. /\ Compile(t, t, d).src = d /\ Compile(t, t, d).owner = t
      /\ Compile(t, t, s).src = s
  BY DEF Compile
<1>10. Compile(t, t, d) # Compile(t, t, s)
  BY <1>8, <1>9
<1> QED BY <1>2, <1>3, <1>5, <1>7, <1>9, <1>10 DEF ModuleWaits

LEMMA CompileReads1 ==
  ASSUME Valid, FoundAll, NEW a \in AllNodes, a.act = "compile", a.owner = a.of
  PROVE NamedReads(a) \subseteq Waits(a) \cap AllNodes
<1> DEFINE t == a.of
           W == CompiledWith(t, t, a.src)
<1>1. t \in wanted
  BY NodeShapes
<1>2. W \subseteq CompiledSources(t)
  BY OwnShapes
<1>3. Makers(W) \subseteq {Rule(g) : g \in CompileRules(t)} \cap AllNodes
  BY <1>1, <1>2, SourceMakers
<1>4. Makers(Headers(t)) \subseteq {Rule(g) : g \in CompileRules(t)} \cap AllNodes
  <2>1. Makers(Headers(t)) = {Rule(g) : g \in Rules(Headers(t))} /\ Makers(Headers(t)) \subseteq AllNodes
    BY <1>1, SourcesFound DEF Headers
  <2>2. Rules(Headers(t)) \subseteq CompileRules(t)
    BY DEF CompileRules, Rules
  <2> QED BY <2>1, <2>2
<1>5. Makers(CompileUsage(t)) \subseteq AllNodes
  BY <1>1, UsageFound
<1>6. BmiReads(t, t, a.src) \subseteq ModuleWaits(t, t, a.src) \cap AllNodes
  BY BmiWaits
<1>7. NamedReads(a) = Makers(W) \cup Makers(Headers(t)) \cup Makers(CompileUsage(t))
                        \cup BmiReads(t, t, a.src)
  <2>1. NamedReads(a) = Makers(W \cup Headers(t) \cup CompileUsage(t)) \cup BmiReads(t, t, a.src)
    BY DEF NamedReads
  <2>2. Makers(W \cup Headers(t) \cup CompileUsage(t))
          = Makers(W) \cup Makers(Headers(t)) \cup Makers(CompileUsage(t))
    BY DEF Makers
  <2> QED BY <2>1, <2>2
<1>8. Waits(a) = CompileWaits(t, t, a.src)
  BY DEF Waits
<1> QED BY <1>3, <1>4, <1>5, <1>6, <1>7, <1>8 DEF CompileWaits

LEMMA RunReads1 ==
  ASSUME Valid, FoundAll, NEW a \in AllNodes, a.act = "final", Kind[a.of] = "run_target"
  PROVE NamedReads(a) \subseteq Waits(a) \cap AllNodes
<1> DEFINE t == a.of
           C == Tokens(Items(t, "run_command"))
           I == Items(t, "run_inputs")
           D == {i \in I : i.is = "stage_dir"}
<1>1. t \in wanted
  BY NodeShapes
<1>2. C \cup (I \ D) \subseteq PassItems
  <2>1. C \subseteq RunItems(t) /\ I \ D \subseteq RunItems(t)
    BY DEF RunItems
  <2>2. RunItems(t) \subseteq TargetItems(t)
    BY DEF TargetItems
  <2>3. TargetItems(t) \subseteq PassItems
    BY <1>1 DEF PassItems
  <2> QED BY <2>1, <2>2, <2>3
<1>3. Makers(C \cup (I \ D)) \subseteq AllNodes
  <2>1. \A i \in C \cup (I \ D) : /\ i.is \in {"token", "path", "plain"}
                                  /\ i.is = "path" => i.of \in Genrules
                                  /\ i.is = "token" => HasArtifact(i.of)
    BY ItemShapes DEF Tokens
  <2> QED BY <1>2, <2>1, MakersFound
<1>4. Makers(D) \subseteq AllNodes
  <2>1. StagesOf(t) = {i.of : i \in D}
    BY DEF StagesOf
  <2>2. StagesOf(t) \subseteq stages
    BY <1>1 DEF FoundAll
  <2>3. \A i \in D : i.of \in stages
    BY <2>1, <2>2
  <2>4. \A i \in D : Maker(i) = Stage(i.of)
    BY ItemShapes, NamesAssumption DEF Maker
  <2> QED BY <2>3, <2>4 DEF Makers, AllNodes
<1>5. NamedReads(a) = Makers(C \cup I)
  BY DEF NamedReads, Consumers
<1>6. Makers(C \cup I) \subseteq AllNodes
  BY <1>3, <1>4 DEF Makers
<1>7. Makers(C \cup I) \subseteq RunWaits(t)
  BY DEF RunWaits, Makers, Tokens
<1>8. Waits(a) = FinalWaits(t)
  BY DEF Waits
<1> QED BY <1>5, <1>6, <1>7, <1>8 DEF FinalWaits

LEMMA LinkReads1 ==
  ASSUME Valid, FoundAll, NEW a \in AllNodes, a.act = "final", Kind[a.of] \in Consumers
  PROVE NamedReads(a) \subseteq Waits(a) \cap AllNodes
<1> DEFINE t == a.of
           O == {s \in Sources(t) : s.out = "o"}
           L == Items(t, "link_inputs")
<1>1. t \in wanted
  BY NodeShapes
<1>2. IsCompiled(t) /\ Kind[t] # "run_target"
  BY DEF IsCompiled, Compiled, Consumers
<1>3. CompileActions(t) \subseteq AllNodes
  BY <1>1, <1>2 DEF AllNodes, TargetNodes
<1>4. Makers(O) \subseteq {Rule(g) : g \in ConsumedRules(t)}
  <2>1. O \subseteq Items(t, "sources")
    BY <1>2 DEF Sources, Plain
  <2>2. Rules(O) \subseteq ConsumedRules(t)
    BY <2>1 DEF ConsumedRules, Rules
  <2>3. \A i \in O : i.is = "path" /\ i.of \in Genrules
    BY <2>1, ItemShapes
  <2>4. Makers(O) = {Rule(g) : g \in Rules(O)}
    BY <2>3, PathMakers
  <2> QED BY <2>2, <2>4
<1>5. {Rule(g) : g \in ConsumedRules(t)} \subseteq AllNodes
  BY <1>1, RulesFound
<1>6. Makers(L) \subseteq AllNodes
  <2>1. Makers(Tokens(L)) \subseteq AllNodes
    <3>1. Tokens(L) \subseteq TargetItems(t)
      BY DEF TargetItems
    <3>2. Tokens(L) \subseteq PassItems
      BY <1>1, <3>1 DEF PassItems
    <3>3. \A i \in Tokens(L) : i.is = "token" /\ HasArtifact(i.of)
      BY ItemShapes DEF Tokens
    <3> QED BY <3>2, <3>3, MakersFound
  <2>2. Makers(Paths(L)) \subseteq AllNodes
    <3>1. Makers(Paths(L)) = {Rule(g) : g \in Rules(Paths(L))}
      BY ItemShapes, PathMakers DEF Paths
    <3>2. Rules(Paths(L)) \subseteq ConsumedRules(t)
      BY DEF ConsumedRules, Rules, Paths
    <3> QED BY <1>5, <3>1, <3>2
  <2>3. \A i \in L : i.is \in {"token", "path", "plain"}
    BY ItemShapes
  <2> QED BY <2>1, <2>2, <2>3 DEF Makers, Tokens, Paths
<1>7. Makers(LinkUsage(t)) \subseteq AllNodes
  BY <1>1, UsageFound
<1>8. NamedReads(a) = CompileActions(t) \cup Makers(O) \cup Makers(L) \cup Makers(LinkUsage(t))
  <2>1. NamedReads(a) = CompileActions(t) \cup Makers(O \cup L \cup LinkUsage(t))
    BY <1>2 DEF NamedReads
  <2>2. Makers(O \cup L \cup LinkUsage(t)) = Makers(O) \cup Makers(L) \cup Makers(LinkUsage(t))
    BY DEF Makers
  <2> QED BY <2>1, <2>2
<1>9. NamedReads(a) \subseteq LinkWaits(t)
  <2>1. Makers(LinkUsage(t) \cup L) = Makers(LinkUsage(t)) \cup Makers(L)
    BY DEF Makers
  <2> QED BY <1>2, <1>4, <1>8, <2>1 DEF LinkWaits
<1>10. Waits(a) = FinalWaits(t)
  BY DEF Waits
<1>11. NamedReads(a) \subseteq AllNodes
  BY <1>3, <1>4, <1>5, <1>6, <1>7, <1>8
<1> QED BY <1>9, <1>10, <1>11 DEF FinalWaits

LEMMA ReadsFound ==
  ASSUME Valid, FoundAll, StagesUsed, NEW a \in AllNodes
  PROVE NamedReads(a) \subseteq Waits(a) \cap AllNodes
<1>1. CASE a.act = "rule"
  BY <1>1, RuleReads
<1>2. CASE a.act = "stage"
  BY <1>2, StageReads
<1>3. CASE a.act = "pch"
  BY <1>3, PchReads1
<1>4. CASE a.act = "compile" /\ a.owner = a.of
  BY <1>4, CompileReads1
<1>5. CASE a.act = "final" /\ Kind[a.of] = "run_target"
  BY <1>5, RunReads1
<1>6. CASE a.act = "final" /\ Kind[a.of] \in Consumers
  BY <1>6, LinkReads1
<1> QED BY <1>1, <1>2, <1>3, <1>4, <1>5, <1>6 DEF NamedReads

-----------------------------------------------------------------------------
(* The last two steps, and the theorems.                                   *)

LEMMA SameCompiles ==
  ASSUME UNCHANGED refs
  PROVE /\ \A t : ConsumerContext(t)' <=> ConsumerContext(t)
        /\ \A t : (HasPch(t)' <=> HasPch(t)) /\ (Modules(t)' <=> Modules(t))
                 /\ (Unity(t)' <=> Unity(t))
        /\ \A t : Sources(t)' = Sources(t) /\ Interfaces(t)' = Interfaces(t)
        /\ \A t, s : Index(t, s)' = Index(t, s)
        /\ \A t : CompileActions(t)' = CompileActions(t)
        /\ \A t, o, s : CompiledWith(t, o, s)' = CompiledWith(t, o, s)
        /\ \A t, o, s : BmiReads(t, o, s)' = BmiReads(t, o, s)
        /\ \A t : CompiledSources(t)' = CompiledSources(t)
        /\ \A t, s : EmitsObject(t, s)' <=> EmitsObject(t, s)
<1>1. \A o, f : Items(o, f)' = Items(o, f) /\ Labels(o, f)' = Labels(o, f)
  BY SameUsage
<1>2. \A t : ConsumerContext(t)' <=> ConsumerContext(t)
  BY DEF ConsumerContext
<1>3. \A t : Sources(t)' = Sources(t)
  BY <1>1 DEF Sources
<1>4. /\ \A t : Implementations(t)' = Implementations(t)
      /\ \A t : Interfaces(t)' = Interfaces(t)
      /\ \A t : CompiledSources(t)' = CompiledSources(t)
  BY <1>3 DEF CompiledSources, Implementations, Interfaces
<1>5. \A t : BorrowedFrom(t)' = BorrowedFrom(t)
  BY <1>1, <1>2 DEF BorrowedFrom
<1>6. /\ \A t : (Unity(t)' <=> Unity(t)) /\ (Modules(t)' <=> Modules(t))
      /\ \A t : HasPch(t)' <=> HasPch(t)
  BY <1>1 DEF Unity, Modules, HasPch
<1>7. \A t, s : CountBefore(Implementations(t), s)' = CountBefore(Implementations(t), s)
  BY <1>4 DEF CountBefore
<1>8. \A t, s : EmitsObject(t, s)' <=> EmitsObject(t, s)
  BY <1>6, <1>7 DEF EmitsObject
<1>9. \A t : OwnActions(t)' = OwnActions(t)
  BY <1>4, <1>8 DEF OwnActions
<1>10. \A t : CompileActions(t)' = CompileActions(t)
  BY <1>2, <1>4, <1>5, <1>9 DEF CompileActions
<1>11. \A t, s : Batch(t, s)' = Batch(t, s)
  BY <1>4, <1>7 DEF Batch, BatchOf
<1>12. \A t, o, s : CompiledWith(t, o, s)' = CompiledWith(t, o, s)
  BY <1>6, <1>11 DEF CompiledWith
<1>13. \A t, s : Index(t, s)' = Index(t, s)
  BY <1>3 DEF Index, CountBefore
<1>14. \A t, o, s : SourceAt(t, o, s)' = SourceAt(t, o, s)
  BY <1>4, <1>13 DEF SourceAt
<1>15. \A t, o, s : BmiReads(t, o, s)' = BmiReads(t, o, s)
  BY <1>4, <1>6, <1>13, <1>14 DEF BmiReads
<1> QED BY <1>2, <1>3, <1>4, <1>6, <1>8, <1>10, <1>12, <1>13, <1>15

LEMMA SameReads ==
  ASSUME UNCHANGED refs
  PROVE \A a : NamedReads(a)' = NamedReads(a)
<1>1. /\ \A o, f : Items(o, f)' = Items(o, f)
      /\ \A t : CompileUsage(t)' = CompileUsage(t) /\ LinkUsage(t)' = LinkUsage(t)
  BY SameUsage
<1>2. /\ \A t : Sources(t)' = Sources(t)
      /\ \A t : CompileActions(t)' = CompileActions(t)
      /\ \A t, o, s : CompiledWith(t, o, s)' = CompiledWith(t, o, s)
      /\ \A t, o, s : BmiReads(t, o, s)' = BmiReads(t, o, s)
  BY SameCompiles
<1>3. \A g : GenruleItems(g)' = GenruleItems(g)
  BY SameItems
<1>4. \A t : Headers(t)' = Headers(t)
  BY <1>1 DEF Headers
<1> QED BY <1>1, <1>2, <1>3, <1>4 DEF NamedReads

LEMMA SameFound ==
  ASSUME UNCHANGED <<refs, found>>
  PROVE (FoundAll' <=> FoundAll) /\ (StagesUsed' <=> StagesUsed)
<1> USE DEF found
<1>1. /\ \A t : ConsumedRules(t)' = ConsumedRules(t) /\ StagesOf(t)' = StagesOf(t)
               /\ DepRules(t)' = DepRules(t)
      /\ \A t : TargetItems(t)' = TargetItems(t)
      /\ \A g : GenruleItems(g)' = GenruleItems(g)
  BY SameItems
<1>2. PassItems' = PassItems
  BY <1>1 DEF PassItems
<1>3. StagesUsed' <=> StagesUsed
  BY <1>1 DEF StagesUsed
<1>4. FoundAll' <=> FoundAll
  BY <1>1, <1>2 DEF FoundAll, NamedRules, NamedTargets
<1> QED BY <1>3, <1>4

LEMMA ConnectStep ==
  ASSUME IInv, Connect
  PROVE IInv'
<1> USE DEF found, graph
<1>1. /\ phase = "discovered" /\ Valid /\ FoundAll /\ StagesUsed /\ UNCHANGED <<refs, found, done>>
      /\ nodes = {} /\ edges = {} /\ done = {} /\ NativeTypeOK
  BY DEF Connect, IInv, Ready
<1>2. StagesUsed' /\ FoundAll' /\ Valid'
  BY <1>1, SameFound, SameValid
<1>3. CASE phase' = "unsupported" /\ UNCHANGED graph
  BY <1>1, <1>2, <1>3 DEF IInv, NativeTypeOK, Phases, Ready, Connected, NamedFirst
<1>4. ASSUME nodes' = AllNodes, edges' = UNION {EdgesInto(a, AllNodes) : a \in AllNodes},
             phase' = IF \E e \in edges' : e[1] = e[2] THEN "cycle" ELSE "connected"
      PROVE IInv'
  <2>1. phase' \in {"cycle", "connected"} /\ done' = {}
    BY <1>1, <1>4
  <2>2. \A a \in nodes' : Waits(a) \cap AllNodes \subseteq Before(edges', a)
    <3>1. ASSUME NEW a \in AllNodes, NEW b \in Waits(a) \cap AllNodes
          PROVE b \in Before(edges', a)
      <4>1. <<b, a>> \in EdgesInto(a, AllNodes)
        BY DEF EdgesInto
      <4>2. <<b, a>> \in edges'
        BY <1>4, <4>1
      <4>3. \E e \in {x \in edges' : x[2] = a} : e[1] = b
        BY <4>2
      <4> QED BY <4>3 DEF Before
    <3> QED BY <1>4, <3>1
  <2>3. \A a \in nodes' : NamedReads(a)' \subseteq Before(edges', a)
    BY <1>1, <1>4, <2>2, ReadsFound, SameReads
  <2>4. NamedFirst'
    <3>1. phase' = "connected" => \A e \in edges' : e[1] # e[2]
      BY <1>4
    <3> QED BY <2>1, <2>3, <3>1 DEF NamedFirst, Connected
  <2>5. NativeTypeOK'
    <3>1. edges' \subseteq nodes' \X nodes'
      BY <1>4 DEF EdgesInto
    <3> QED BY <1>1, <2>1, <3>1 DEF NativeTypeOK, Phases
  <2> QED BY <1>2, <2>1, <2>4, <2>5 DEF IInv, Ready
<1> QED BY <1>3, <1>4 DEF Connect

LEMMA ExecuteStep ==
  ASSUME IInv, Execute
  PROVE IInv'
<1> USE DEF found, graph
<1>1. /\ phase = "connected" /\ Connected
      /\ Valid /\ FoundAll /\ StagesUsed /\ NamedFirst /\ NativeTypeOK
  BY DEF Execute, IInv, Ready, Connected
<1>2. phase' \in {"built", "stalled"} /\ UNCHANGED <<refs, found, nodes, edges>>
  BY DEF Execute
<1>3. Valid' /\ FoundAll' /\ StagesUsed'
  BY <1>1, <1>2, SameFound, SameValid
<1>4. NativeTypeOK'
  BY <1>1, <1>2 DEF NativeTypeOK, Phases
<1>5. NamedFirst'
  <2>1. \A a : NamedReads(a)' = NamedReads(a)
    BY <1>2, SameReads
  <2>2. \A a \in nodes : NamedReads(a) \subseteq Before(edges, a)
    BY <1>1 DEF NamedFirst
  <2>3. \A e \in edges : e[1] # e[2]
    BY <1>1 DEF NamedFirst
  <2> QED BY <1>2, <2>1, <2>2, <2>3 DEF NamedFirst
<1> QED BY <1>2, <1>3, <1>4, <1>5 DEF IInv, Ready

LEMMA StutterStep ==
  ASSUME IInv, UNCHANGED <<refs, root, nativeVars>>
  PROVE IInv'
<1> USE DEF nativeVars, found, graph
<1>1. Valid' <=> Valid
  BY SameValid
<1>2. (FoundAll' <=> FoundAll) /\ (StagesUsed' <=> StagesUsed)
  BY SameFound
<1>3. NativeTypeOK'
  BY DEF IInv, NativeTypeOK
<1>4. NamedFirst'
  BY SameReads DEF IInv, NamedFirst, Connected
<1> QED BY <1>1, <1>2, <1>3, <1>4 DEF IInv, Ready

-----------------------------------------------------------------------------
(* The graph that is connected is all that was discovered.                 *)

LEMMA LeastClosed ==
  ASSUME NEW S \in SUBSET Targets, NEW next, \A x \in Targets : next[x] \subseteq Targets
  PROVE /\ S \subseteq Least(S, next) /\ Least(S, next) \subseteq Targets
        /\ \A x \in Least(S, next) : next[x] \subseteq Least(S, next)
<1>1. IsFiniteSet(Targets) /\ Cardinality(Targets) \in Nat
  BY NamesAssumption, FS_CardinalityType
<1>2. S \subseteq Least(S, next)
  BY <1>1, GrownLeast DEF Least
<1>3. /\ Least(S, next) \subseteq Targets
      /\ \A x \in Least(S, next) : next[x] \subseteq Least(S, next)
  BY <1>1, GrownClosed DEF Least
<1> QED BY <1>2, <1>3

\* a target is in its closure, with what each target there refers to
LEMMA ClosureClosed ==
  ASSUME NEW t \in Targets
  PROVE /\ t \in Closure(t) /\ Closure(t) \subseteq Targets
        /\ \A u \in Closure(t) : Next1(u) \subseteq Closure(t)
<1> DEFINE next == [x \in Targets |-> Next1(x)]
           L == Least(Next1(t), next)
<1>1. \A x : Next1(x) \subseteq Targets
  BY DEF Next1
<1>2. \A x \in Targets : next[x] = Next1(x)
  OBVIOUS
<1>3. Next1(t) \subseteq L /\ L \subseteq Targets /\ \A x \in L : next[x] \subseteq L
  <2> HIDE DEF next
  <2> QED BY <1>1, <1>2, LeastClosed
<1>4. \A x \in L : Next1(x) \subseteq L
  BY <1>2, <1>3
<1>5. Closure(t) = {t} \cup L
  BY DEF Closure
<1> HIDE DEF L
<1> QED BY <1>3, <1>4, <1>5

\* what is discovered comes with all that it refers to
Whole ==
  /\ root \in Roots /\ IsFiniteSet(refs)
  /\ wanted \subseteq Targets /\ \A t \in wanted : Next1(t) \subseteq wanted

\* the action graph is the one that scheduler_build_nodes makes
Wired ==
  Connected =>
    /\ nodes = AllNodes
    /\ edges = UNION {EdgesInto(a, AllNodes) : a \in AllNodes}
    /\ \A t \in wanted : IsCompiled(t) => ValidStrategies(t)

GInv ==
  /\ IInv /\ Whole /\ Wired
  /\ verdict # "emit" => Ended /\ phase # "refused"

LEMMA GInitially == Init => GInv
<1> SUFFICES ASSUME Init PROVE GInv
  OBVIOUS
<1>1. IInv
  BY Initially DEF Init
<1>2. Whole
  BY AuthoredAssumption DEF Init, NativeInit, Whole
<1>3. Wired
  BY DEF Init, NativeInit, Wired, Connected
<1> QED BY <1>1, <1>2, <1>3 DEF GInv, Init, NinjaInit

LEMMA SameNext1 ==
  ASSUME UNCHANGED refs
  PROVE \A t : Next1(t)' = Next1(t)
  BY SameUsage DEF Next1, DepLabels

LEMMA StillWhole ==
  ASSUME Whole, UNCHANGED <<refs, root, wanted>>
  PROVE Whole'
  BY SameNext1 DEF Whole

LEMMA MoreWhole ==
  ASSUME Whole, UNCHANGED <<refs, root>>,
         NEW N \in SUBSET Targets, wanted' = wanted \cup UNION {Closure(t) : t \in N}
  PROVE Whole'
<1>1. \A t : Next1(t)' = Next1(t)
  BY SameNext1
<1>2. wanted' \subseteq Targets
  BY ClosureClosed DEF Whole
<1>3. \A t \in wanted' : Next1(t) \subseteq wanted'
  BY ClosureClosed DEF Whole
<1> QED BY <1>1, <1>2, <1>3 DEF Whole

LEMMA WholeStep ==
  ASSUME Whole, NativeNext
  PROVE Whole'
<1> USE DEF found, graph
<1>1. CASE UNCHANGED <<refs, root, wanted>>
  BY <1>1, StillWhole
<1>2. CASE Start
  <2>1. CASE wanted' = Closure(root) /\ root \notin Genrules
    <3>1. root \in Targets
      BY <2>1, RootsAssumption DEF Whole
    <3>2. UNCHANGED <<refs, root>>
      BY <1>2 DEF Start
    <3>3. /\ \A t : Next1(t)' = Next1(t)
          /\ wanted' \subseteq Targets /\ \A t \in wanted' : Next1(t) \subseteq wanted'
      BY <2>1, <3>1, <3>2, SameNext1, ClosureClosed
    <3> QED BY <3>2, <3>3 DEF Whole
  <2> QED BY <1>1, <1>2, <2>1 DEF Start
<1>3. CASE Pass
  <2>1. NamedTargets(PassItems) \subseteq Targets
    BY DEF NamedTargets
  <2> QED BY <1>3, <2>1, MoreWhole DEF Pass
<1>4. CASE Connect
  BY <1>1, <1>4 DEF Connect
<1>5. CASE Execute
  BY <1>1, <1>5 DEF Execute
<1> QED BY <1>2, <1>3, <1>4, <1>5 DEF NativeNext

\* the nodes and the edges depend on the references and on what is found
LEMMA SameGraph ==
  ASSUME UNCHANGED <<refs, found>>
  PROVE /\ AllNodes' = AllNodes
        /\ \A a : Waits(a)' = Waits(a)
        /\ \A t : ValidStrategies(t)' <=> ValidStrategies(t)
<1> USE DEF found
<1>1. /\ \A o, f : Items(o, f)' = Items(o, f) /\ Labels(o, f)' = Labels(o, f)
      /\ \A t : CompileUsage(t)' = CompileUsage(t) /\ LinkUsage(t)' = LinkUsage(t)
      /\ \A t : ConsumedRules(t)' = ConsumedRules(t) /\ DepRules(t)' = DepRules(t)
      /\ \A g : GenruleItems(g)' = GenruleItems(g)
  BY SameUsage, SameItems
<1>2. /\ \A t : ConsumerContext(t)' <=> ConsumerContext(t)
      /\ \A t : (HasPch(t)' <=> HasPch(t)) /\ (Modules(t)' <=> Modules(t))
               /\ (Unity(t)' <=> Unity(t))
      /\ \A t : Interfaces(t)' = Interfaces(t)
      /\ \A t, s : Index(t, s)' = Index(t, s)
      /\ \A t : CompileActions(t)' = CompileActions(t)
  BY SameCompiles
<1>3. \A t : TargetNodes(t)' = TargetNodes(t)
  BY <1>2 DEF TargetNodes
<1>4. AllNodes' = AllNodes
  BY <1>3 DEF AllNodes
<1>5. \A g : GenruleWaits(g)' = GenruleWaits(g)
  BY <1>1 DEF GenruleWaits
<1>6. \A t, o, s : CompileWaits(t, o, s)' = CompileWaits(t, o, s)
  <2>1. \A t : CompileRules(t)' = CompileRules(t)
    BY <1>1 DEF CompileRules, Headers
  <2>2. \A t, o, s : ModuleWaits(t, o, s)' = ModuleWaits(t, o, s)
    BY <1>2 DEF ModuleWaits
  <2> QED BY <1>1, <1>2, <2>1, <2>2 DEF CompileWaits
<1>7. \A t : PchWaits(t)' = PchWaits(t)
  BY <1>1 DEF PchWaits
<1>8. \A t : FinalWaits(t)' = FinalWaits(t)
  <2>1. \A t : DepWaits(t)' = DepWaits(t)
    BY <1>1 DEF DepWaits, DepLabels
  <2>2. \A t : RunWaits(t)' = RunWaits(t)
    BY <1>1 DEF RunWaits
  <2>3. \A t : LinkWaits(t)' = LinkWaits(t)
    BY <1>1, <1>2 DEF LinkWaits
  <2> QED BY <2>1, <2>2, <2>3 DEF FinalWaits
<1>9. \A a : Waits(a)' = Waits(a)
  BY <1>1, <1>5, <1>6, <1>7, <1>8 DEF Waits
<1>10. \A t : ValidStrategies(t)' <=> ValidStrategies(t)
  BY <1>2 DEF ValidStrategies
<1> QED BY <1>4, <1>9, <1>10

\* a graph that is wired stays so while references and discovery do
LEMMA SameWired ==
  ASSUME UNCHANGED <<refs, found, graph>>, Wired, Connected' => Connected
  PROVE Wired'
<1> USE DEF found, graph
<1>1. /\ AllNodes' = AllNodes
      /\ \A a : Waits(a)' = Waits(a)
      /\ \A t : ValidStrategies(t)' <=> ValidStrategies(t)
  BY SameGraph
<1>2. \A a : EdgesInto(a, AllNodes)' = EdgesInto(a, AllNodes)
  BY <1>1 DEF EdgesInto
<1>3. (UNION {EdgesInto(a, AllNodes) : a \in AllNodes})'
        = UNION {EdgesInto(a, AllNodes) : a \in AllNodes}
  BY <1>1, <1>2
<1>4. SUFFICES ASSUME Connected'
               PROVE /\ nodes' = AllNodes'
                     /\ edges' = (UNION {EdgesInto(a, AllNodes) : a \in AllNodes})'
                     /\ \A t \in wanted' : IsCompiled(t) => ValidStrategies(t)'
  BY DEF Wired, IsCompiled
<1>5. /\ nodes = AllNodes
      /\ edges = UNION {EdgesInto(a, AllNodes) : a \in AllNodes}
      /\ \A t \in wanted : IsCompiled(t) => ValidStrategies(t)
  BY <1>4 DEF Wired
<1> QED BY <1>1, <1>3, <1>5

LEMMA WiredStep ==
  ASSUME Wired, NativeNext
  PROVE Wired'
<1> USE DEF found, graph
<1>1. CASE Start
  BY <1>1 DEF Start, Wired, Connected
<1>2. CASE Pass
  BY <1>2 DEF Pass, Wired, Connected
<1>3. CASE Connect
  <2>1. CASE phase' \in {"unsupported", "cycle"}
    BY <2>1 DEF Wired, Connected
  <2>2. CASE phase' \notin {"unsupported", "cycle"}
    <3>1. /\ nodes' = AllNodes
          /\ edges' = UNION {EdgesInto(a, AllNodes) : a \in AllNodes}
          /\ \A t \in wanted : IsCompiled(t) => ValidStrategies(t)
          /\ UNCHANGED <<refs, found>>
      BY <1>3, <2>2 DEF Connect
    <3>2. /\ AllNodes' = AllNodes
          /\ \A a : Waits(a)' = Waits(a)
          /\ \A t : ValidStrategies(t)' <=> ValidStrategies(t)
      BY <3>1, SameGraph
    <3>3. \A a : EdgesInto(a, AllNodes)' = EdgesInto(a, AllNodes)
      BY <3>2 DEF EdgesInto
    <3>4. (UNION {EdgesInto(a, AllNodes) : a \in AllNodes})'
            = UNION {EdgesInto(a, AllNodes) : a \in AllNodes}
      BY <3>2, <3>3
    <3>5. \A t \in wanted' : IsCompiled(t) => ValidStrategies(t)'
      BY <3>1, <3>2
    <3> QED BY <3>1, <3>2, <3>4, <3>5 DEF Wired, IsCompiled
  <2> QED BY <2>1, <2>2
<1>4. CASE Execute
  BY <1>4, SameWired DEF Execute, Connected
<1> QED BY <1>1, <1>2, <1>3, <1>4 DEF NativeNext

(***************************************************************************)
(* What discovery, node creation and edges keep true of each other, in a   *)
(* build by the local executor that the Ninja backend follows.             *)
(***************************************************************************)
THEOREM GraphInvariance == Spec => []GInv
<1>1. GInv /\ [Next]_vars => GInv'
  <2> SUFFICES ASSUME GInv, [Next]_vars PROVE GInv'
    OBVIOUS
  <2> USE DEF vars, nativeVars, ninjaVars, found, graph
  <2>1. CASE Native
    <3>1. NativeNext /\ UNCHANGED verdict
      BY <2>1 DEF Native
    <3>2. IInv'
      BY <3>1, StartStep, PassStep, ConnectStep, ExecuteStep DEF NativeNext, GInv
    <3>3. Whole' /\ Wired'
      BY <3>1, WholeStep, WiredStep DEF GInv
    <3>4. ~Ended
      BY <3>1 DEF NativeNext, Start, Pass, Connect, Execute, Ended
    <3> QED BY <3>1, <3>2, <3>3, <3>4 DEF GInv
  <2>2. CASE UNCHANGED <<refs, root, nativeVars>> /\ (verdict' = "emit" \/ verdict' = verdict \/ (Ended /\ phase # "refused"))
    <3>1. IInv'
      BY <2>2, StutterStep DEF GInv
    <3>2. Whole'
      BY <2>2, StillWhole DEF GInv
    <3>3. Wired'
      BY <2>2, SameWired DEF GInv, Connected
    <3>4. (Ended' <=> Ended) /\ phase' = phase
      BY <2>2 DEF Ended
    <3> QED BY <2>2, <3>1, <3>2, <3>3, <3>4 DEF GInv
  <2>3. CASE Ninja
    BY <2>2, <2>3 DEF Ninja
  <2>4. CASE UNCHANGED vars
    BY <2>2, <2>4
  <2> QED BY <2>1, <2>3, <2>4 DEF Next, Stay
<1> QED BY GInitially, <1>1, PTL DEF Spec

(***************************************************************************)
(* scheduler_build_nodes makes a relation on the nodes, as the scheduler   *)
(* expects it, of rules and stages that are declared.                      *)
(***************************************************************************)
THEOREM NativeTypeCorrect == Spec => []NativeTypeOK
<1>1. GInv => NativeTypeOK
  BY DEF GInv, IInv
<1> QED BY GraphInvariance, <1>1, PTL

(***************************************************************************)
(* However large the graph: the maker of every file that the declaration   *)
(* of a scheduled action names is scheduled too and comes before it, and   *)
(* nothing waits for itself.                                               *)
(***************************************************************************)
THEOREM NamedFilesComeFirst == Spec => []NamedFirst
<1>1. GInv => NamedFirst
  BY DEF GInv, IInv
<1> QED BY GraphInvariance, <1>1, PTL

-----------------------------------------------------------------------------
(* What comes before an action, at whatever distance.                      *)

\* what the invariant says of a graph that is connected
Ordered ==
  /\ NativeTypeOK /\ Valid /\ FoundAll /\ StagesUsed /\ Whole
  /\ nodes = AllNodes
  /\ edges = UNION {EdgesInto(a, AllNodes) : a \in AllNodes}
  /\ \A t \in wanted : IsCompiled(t) => ValidStrategies(t)

LEMMA ConnectedIsOrdered == GInv /\ Connected => Ordered
  BY DEF GInv, IInv, Wired, Ordered, Ready, Connected

LEMMA ImageFinite ==
  ASSUME NEW f, IsFiniteSet(DOMAIN f)
  PROVE IsFiniteSet({f[x] : x \in DOMAIN f})
<1> DEFINE S == DOMAIN f
           T == {f[x] : x \in S}
           g == [x \in S |-> f[x]]
<1>1. g \in Surjection(S, T)
  BY DEF Surjection
<1> HIDE DEF T, g
<1>2. IsFiniteSet(T)
  BY <1>1, FS_Surjection
<1> QED BY <1>2 DEF T

ReferredTo == {Plain} \cup {r.item : r \in refs}

LEMMA FiniteShapes ==
  ASSUME IsFiniteSet(refs), NEW O, IsFiniteSet(O)
  PROVE \E N : /\ IsFiniteSet(N)
               /\ \A act \in {"final", "rule", "stage", "pch", "compile"},
                     of \in O, owner \in O \cup {"-"}, src \in ReferredTo :
                    [act |-> act, of |-> of, owner |-> owner, src |-> src] \in N
<1> DEFINE A == {"final", "rule", "stage", "pch", "compile"}
           P == O \cup {"-"}
           D == (A \X O) \X (P \X ReferredTo)
           f == [d \in D |-> [act |-> d[1][1], of |-> d[1][2], owner |-> d[2][1], src |-> d[2][2]]]
<1>1. IsFiniteSet(ReferredTo)
  <2> DEFINE i == [r \in refs |-> r.item]
  <2>1. IsFiniteSet({i[r] : r \in DOMAIN i})
    <3>1. DOMAIN i = refs
      OBVIOUS
    <3> HIDE DEF i
    <3> QED BY <3>1, ImageFinite
  <2>2. {i[r] : r \in DOMAIN i} = {r.item : r \in refs}
    OBVIOUS
  <2> HIDE DEF i
  <2> QED BY <2>1, <2>2, FS_Union, FS_Singleton DEF ReferredTo
<1>2. IsFiniteSet(P)
  BY FS_Union, FS_Singleton
<1>3. IsFiniteSet(A)
  <2>1. A = {"final"} \cup {"rule"} \cup {"stage"} \cup {"pch"} \cup {"compile"}
    OBVIOUS
  <2> HIDE DEF A
  <2> QED BY <2>1, FS_Union, FS_Singleton
<1>4. IsFiniteSet(D)
  <2> HIDE DEF A, P
  <2> QED BY <1>1, <1>2, <1>3, FS_Product
<1>5. IsFiniteSet({f[d] : d \in D})
  <2>1. DOMAIN f = D
    OBVIOUS
  <2> HIDE DEF f, D
  <2> QED BY <1>4, <2>1, ImageFinite
<1>6. ASSUME NEW act \in A, NEW of \in O, NEW owner \in P, NEW src \in ReferredTo
      PROVE [act |-> act, of |-> of, owner |-> owner, src |-> src] \in {f[d] : d \in D}
  <2> DEFINE d == <<<<act, of>>, <<owner, src>>>>
  <2>1. d \in D
    OBVIOUS
  <2>2. f[d] = [act |-> act, of |-> of, owner |-> owner, src |-> src]
    BY <2>1
  <2> HIDE DEF d, f, D
  <2> QED BY <2>1, <2>2
<1> HIDE DEF f, D
<1> QED BY <1>5, <1>6

LEMMA CompileShapes ==
  ASSUME Valid, NEW t, NEW a \in CompileActions(t)
  PROVE \E o \in Targets \cup {t} : \E s \in ReferredTo : a = Compile(t, o, s)
<1>1. \A o, s : s \in CompiledSources(o) => s \in ReferredTo
  <2>1. \A o, fld : \A s \in Items(o, fld) : s \in {r.item : r \in refs}
    BY DEF Items
  <2> QED BY <2>1 DEF CompiledSources, Implementations, Interfaces, Sources, ReferredTo
<1>2. CASE a \in OwnActions(t)
  BY <1>1, <1>2 DEF OwnActions
<1>3. CASE a \notin OwnActions(t)
  <2>1. PICK o \in BorrowedFrom(t) : \E s \in CompiledSources(o) : a = Compile(t, o, s)
    BY <1>3 DEF CompileActions
  <2>2. PICK r \in refs : r.owner = o /\ r.field = "consumer"
    BY DEF BorrowedFrom, ConsumerContext
  <2>3. o \in Targets
    BY <2>2 DEF Valid, WellFormed
  <2> QED BY <1>1, <2>1, <2>3
<1> QED BY <1>2, <1>3

\* an action names two labels and an item that is referred to
LEMMA FiniteActions ==
  ASSUME Valid, IsFiniteSet(refs)
  PROVE IsFiniteSet(Actions)
<1> DEFINE O == Targets \cup Genrules \cup Stages
<1>1. IsFiniteSet(O)
  BY NamesAssumption, FS_Union
<1>2. PICK N : /\ IsFiniteSet(N)
               /\ \A act \in {"final", "rule", "stage", "pch", "compile"},
                     of \in O, owner \in O \cup {"-"}, src \in ReferredTo :
                    [act |-> act, of |-> of, owner |-> owner, src |-> src] \in N
  <2> HIDE DEF O
  <2> QED BY <1>1, FiniteShapes
<1>3. \A x \in O : Final(x) \in N /\ Rule(x) \in N /\ Stage(x) \in N /\ Pch(x) \in N
  <2>1. "-" \in O \cup {"-"} /\ Plain \in ReferredTo
    BY DEF ReferredTo
  <2> HIDE DEF O
  <2> QED BY <1>2, <2>1 DEF Final, Rule, Stage, Pch, Action
<1>4. ASSUME NEW t \in Targets, NEW a \in CompileActions(t) PROVE a \in N
  <2>1. PICK o \in Targets \cup {t} : \E s \in ReferredTo : a = Compile(t, o, s)
    BY <1>4, CompileShapes
  <2>2. PICK s \in ReferredTo : a = Compile(t, o, s)
    BY <2>1
  <2>3. t \in O /\ o \in O \cup {"-"}
    OBVIOUS
  <2> HIDE DEF O
  <2> QED BY <1>2, <2>2, <2>3 DEF Compile
<1>5. Actions \subseteq N
  <2>1. /\ \A g \in Genrules : Rule(g) \in N
        /\ \A s \in Stages : Stage(s) \in N
        /\ \A t \in Targets : Final(t) \in N /\ Pch(t) \in N
    BY <1>3
  <2> QED BY <1>4, <2>1 DEF Actions
<1> QED BY <1>2, <1>5, FS_Subset

LEMMA NodesAreActions ==
  ASSUME Ordered
  PROVE nodes \subseteq Actions
<1>1. wanted \subseteq Targets /\ rules \subseteq Genrules /\ stages \subseteq Stages
  BY DEF Ordered, NativeTypeOK, Whole
<1>2. \A t \in wanted : TargetNodes(t) \subseteq Actions
  BY <1>1 DEF TargetNodes, Actions
<1>3. /\ \A g \in rules : Rule(g) \in Actions
      /\ \A s \in stages : Stage(s) \in Actions
  BY <1>1 DEF Actions
<1> QED BY <1>2, <1>3 DEF AllNodes, Ordered

LEMMA FiniteNodes ==
  ASSUME Ordered
  PROVE IsFiniteSet(nodes)
BY FiniteActions, NodesAreActions, FS_Subset DEF Ordered, Whole

\* the actions before an action, and before those
LEMMA UptoClosed ==
  ASSUME Ordered, NEW a \in nodes
  PROVE /\ Before(edges, a) \subseteq Upto(a)
        /\ \A b \in Upto(a) : b \in nodes /\ Before(edges, b) \subseteq Upto(a)
<1> DEFINE next == [b \in nodes |-> Before(edges, b)]
<1>1. edges \subseteq nodes \X nodes
  BY DEF Ordered, NativeTypeOK
<1>2. \A b : Before(edges, b) \subseteq nodes
  BY <1>1 DEF Before
<1>3. \A b \in nodes : next[b] = Before(edges, b)
  OBVIOUS
<1>4. Upto(a) = Grown(Before(edges, a), next, Cardinality(nodes))
  BY DEF Upto
<1> HIDE DEF next
<1>5. IsFiniteSet(nodes) /\ Cardinality(nodes) \in Nat
  BY FiniteNodes, FS_CardinalityType
<1>6. Before(edges, a) \subseteq Upto(a)
  BY <1>4, <1>5, GrownLeast
<1>7. Upto(a) \subseteq nodes /\ \A b \in Upto(a) : next[b] \subseteq Upto(a)
  <2>1. Before(edges, a) \in SUBSET nodes /\ \A b \in nodes : next[b] \subseteq nodes
    BY <1>2, <1>3
  <2> DEFINE S == Before(edges, a)
  <2>2. /\ Grown(S, next, Cardinality(nodes)) \subseteq nodes
        /\ \A b \in Grown(S, next, Cardinality(nodes)) :
             next[b] \subseteq Grown(S, next, Cardinality(nodes))
    <3>1. S \in SUBSET nodes
      BY <2>1
    <3> HIDE DEF S
    <3> QED BY <1>5, <2>1, <3>1, GrownClosed
  <2> QED BY <1>4, <2>2
<1> QED BY <1>3, <1>6, <1>7

LEMMA WaitsBefore ==
  ASSUME Ordered, NEW a \in nodes
  PROVE Waits(a) \cap nodes \subseteq Before(edges, a)
<1>1. ASSUME NEW b \in Waits(a) \cap nodes PROVE b \in Before(edges, a)
  <2>1. <<b, a>> \in EdgesInto(a, nodes)
    BY DEF EdgesInto
  <2>2. <<b, a>> \in edges
    BY <2>1 DEF Ordered
  <2>3. \E e \in {x \in edges : x[2] = a} : e[1] = b
    BY <2>2
  <2> QED BY <2>3 DEF Before
<1> QED BY <1>1

\* whatever a waits for is before it, and so is what that waits for
LEMMA WaitsUpto ==
  ASSUME Ordered, NEW a \in nodes
  PROVE /\ Waits(a) \cap nodes \subseteq Upto(a)
        /\ \A b \in Upto(a) : b \in nodes /\ Waits(b) \cap nodes \subseteq Upto(a)
  BY UptoClosed, WaitsBefore

LEMMA NamedUpto ==
  ASSUME Ordered, NEW a \in nodes
  PROVE NamedReads(a) \subseteq Upto(a)
  BY ReadsFound, WaitsUpto DEF Ordered

\* the nodes of a target that is wanted, and of the rules it depends on
LEMMA TargetFound ==
  ASSUME Ordered, NEW t \in wanted
  PROVE /\ Final(t) \in nodes /\ Waits(Final(t)) = FinalWaits(t)
        /\ HasPch(t) => Pch(t) \in nodes
        /\ IsCompiled(t) => CompileActions(t) \subseteq nodes
        /\ \A g \in ConsumedRules(t) \cup DepRules(t) : Rule(g) \in nodes
<1>1. nodes = AllNodes
  BY DEF Ordered
<1>2. TargetNodes(t) \subseteq AllNodes
  BY DEF AllNodes
<1>3. Waits(Final(t)) = FinalWaits(t)
  <2>1. Final(t).act = "final" /\ Final(t).of = t
    BY DEF Final, Action
  <2> QED BY <2>1 DEF Waits
<1> QED BY <1>1, <1>2, <1>3, RulesFound DEF TargetNodes, Ordered

\* a target waits for all that it refers to
LEMMA DepsUpto ==
  ASSUME Ordered, NEW t \in wanted, NEW d \in Next1(t), NEW a, Final(t) \in Upto(a) \cup {a},
         a \in nodes
  PROVE d \in wanted /\ Final(d) \in Upto(a)
<1>1. d \in wanted
  BY DEF Ordered, Whole
<1>2. Final(d) \in FinalWaits(t)
  BY DEF FinalWaits, DepWaits, Next1
<1>3. Final(d) \in Waits(Final(t)) \cap nodes
  BY <1>1, <1>2, TargetFound
<1> QED BY <1>1, <1>3, WaitsUpto

\* what a link takes across groups, interfaces and libraries
LEMMA LinkedUpto ==
  ASSUME Ordered, NEW t \in wanted
  PROVE \A d \in LinkedDeps(t) : Final(d) \in Upto(Final(t))
<1> DEFINE next == [x \in Targets |-> LinkNext(x)]
           C == {d \in wanted : Final(d) \in Upto(Final(t))}
<1>1. \A x : LinkDeps(x) \subseteq Next1(x) /\ LinkNext(x) \subseteq Next1(x)
  BY DEF LinkDeps, Next1, LinkNext, PublicDeps, DepLabels
<1>2. Final(t) \in nodes
  BY TargetFound
<1>3. LinkDeps(t) \subseteq C
  BY <1>1, <1>2, DepsUpto
<1>4. \A x \in C : next[x] \subseteq C
  <2>1. ASSUME NEW x \in C PROVE LinkNext(x) \subseteq C
    BY <1>1, <1>2, DepsUpto
  <2>2. wanted \subseteq Targets
    BY DEF Ordered, Whole
  <2> QED BY <2>1, <2>2
<1>5. Cardinality(Targets) \in Nat
  BY NamesAssumption, FS_CardinalityType
<1>6. Least(LinkDeps(t), next) \subseteq C
  <2> HIDE DEF next, C
  <2> QED BY <1>3, <1>4, <1>5, GrownLeast DEF Least
<1> QED BY <1>6 DEF LinkedDeps


\* the nodes of each kind
LEMMA NodeForms ==
  ASSUME Ordered, NEW a \in nodes
  PROVE /\ a.act = "rule" => a = Rule(a.of)
        /\ a.act = "pch" => a.of \in wanted
        /\ a.act = "final" => a.of \in wanted /\ a = Final(a.of)
        /\ a.act = "compile" => /\ a.of \in wanted /\ IsCompiled(a.of)
                                /\ a \in CompileActions(a.of)
<1>1. a \in AllNodes
  BY DEF Ordered
<1>2. ASSUME a.act = "rule" PROVE a = Rule(a.of)
  <2>1. ASSUME NEW t \in wanted PROVE a \notin TargetNodes(t)
    <3>1. a # Final(t) /\ a # Pch(t)
      BY <1>2 DEF Final, Pch, Action
    <3>2. \A o, s : a # Compile(t, o, s)
      BY <1>2 DEF Compile
    <3> QED BY <3>1, <3>2 DEF TargetNodes, CompileActions, OwnActions
  <2>2. \A s : a # Stage(s)
    BY <1>2 DEF Stage, Action
  <2>3. PICK g \in rules : a = Rule(g)
    BY <1>1, <2>1, <2>2 DEF AllNodes
  <2> QED BY <2>3 DEF Rule, Action
<1>3. ASSUME a.act = "final" PROVE a = Final(a.of)
  <2>1. \A x : a # Rule(x) /\ a # Stage(x) /\ a # Pch(x)
    BY <1>3 DEF Rule, Stage, Pch, Action
  <2>2. \A t, o, s : a # Compile(t, o, s)
    BY <1>3 DEF Compile
  <2>3. PICK t \in wanted : a \in TargetNodes(t)
    BY <1>1, <2>1 DEF AllNodes
  <2>4. a = Final(t)
    BY <2>1, <2>2, <2>3 DEF TargetNodes, CompileActions, OwnActions
  <2> QED BY <2>4 DEF Final, Action
<1> QED BY <1>1, <1>2, <1>3, NodeShapes

\* a compile of a source that an object library leaves to its consumer
LEMMA BorrowedForms ==
  ASSUME Ordered, NEW a \in nodes, a.act = "compile", a.owner # a.of
  PROVE /\ a.owner \in wanted /\ ConsumerContext(a.owner) /\ IsCompiled(a.owner)
        /\ a.src \in CompiledSources(a.owner)
<1>1. a \in CompileActions(a.of)
  BY NodeForms
<1>2. a \notin OwnActions(a.of)
  BY DEF OwnActions, Compile
<1>3. PICK o \in BorrowedFrom(a.of) : \E s \in CompiledSources(o) : a = Compile(a.of, o, s)
  BY <1>1, <1>2 DEF CompileActions
<1>4. a.owner = o /\ a.src \in CompiledSources(o)
  BY <1>3 DEF Compile
<1>5. o \in Labels(a.of, "objects") /\ ConsumerContext(o)
  BY DEF BorrowedFrom
<1>6. IsCompiled(o)
  BY <1>5 DEF ConsumerContext, IsCompiled, Compiled
<1>7. o \in Targets
  <2>1. PICK r \in refs : r.owner = o /\ r.field = "consumer"
    BY <1>5 DEF ConsumerContext
  <2> QED BY <2>1 DEF Ordered, Valid, WellFormed
<1>8. o \in Next1(a.of)
  BY <1>5, <1>7 DEF Next1
<1>9. o \in wanted
  <2>1. a.of \in wanted
    BY NodeForms
  <2> QED BY <1>8, <2>1 DEF Ordered, Whole
<1> QED BY <1>4, <1>5, <1>6, <1>9

\* the interfaces of the modules a source comes after
LEMMA InterfacesUpto ==
  ASSUME Ordered, NEW a \in nodes, a.act = "compile", Modules(a.of),
         NEW d \in Interfaces(a.of),
         a.src.out = "m" => Index(a.of, d) < Index(a.owner, a.src)
  PROVE Compile(a.of, a.of, d) \in Upto(a)
<1> DEFINE t == a.of
           b == Compile(t, t, d)
<1>1. t \in wanted /\ IsCompiled(t)
  BY NodeForms
<1>2. ~ConsumerContext(t)
  BY <1>1 DEF Ordered, ValidStrategies
<1>3. d \in CompiledSources(t) /\ d.out = "m" /\ EmitsObject(t, d)
  BY DEF Interfaces, CompiledSources, EmitsObject
<1>4. b \in CompileActions(t)
  BY <1>2, <1>3 DEF CompileActions, OwnActions
<1>5. b.src = d /\ b.owner = t
  BY DEF Compile
<1>6. Index(t, d) \in Nat /\ Index(a.owner, a.src) \in Nat
  BY IndexType
<1>7. b # Compile(t, a.owner, a.src)
  <2>1. SUFFICES ASSUME a.owner = t, a.src = d PROVE FALSE
    BY DEF Compile
  <2> QED BY <1>3, <1>6, <2>1
<1>8. b \in ModuleWaits(t, a.owner, a.src)
  BY <1>3, <1>4, <1>5, <1>6, <1>7 DEF ModuleWaits
<1>9. b \in Waits(a)
  BY <1>8 DEF Waits, CompileWaits
<1>10. b \in nodes
  BY <1>1, <1>4, TargetFound
<1> QED BY <1>9, <1>10, WaitsUpto

LEMMA ImportsUpto ==
  ASSUME Ordered, NEW a \in nodes
  PROVE Imports(a) \subseteq Upto(a)
  BY InterfacesUpto DEF Imports

LEMMA BmiUpto ==
  ASSUME Ordered, NEW a \in nodes, a.act = "compile", Prepared(a)
  PROVE BmiReads(a.of, a.owner, a.src) \subseteq Upto(a)
<1> DEFINE t == a.of
           s == a.src
<1>1. SUFFICES ASSUME NEW d \in Interfaces(t), Modules(t),
                      \E y \in SourceAt(t, a.owner, s) :
                         y.out = "m" => Index(t, d) < Index(t, y)
               PROVE Compile(t, t, d) \in Upto(a)
  BY DEF BmiReads
<1>2. CASE a.owner = t
  BY <1>1, <1>2, InterfacesUpto DEF SourceAt
<1>3. CASE a.owner # t
  <2>1. a.owner \in wanted /\ ConsumerContext(a.owner) /\ IsCompiled(a.owner)
    BY <1>3, BorrowedForms
  <2>2. ~Modules(a.owner)
    BY <2>1 DEF Ordered, ValidStrategies
  <2>3. s.out # "m"
    BY <2>2 DEF Prepared, ValidSource
  <2> QED BY <1>1, <2>3, InterfacesUpto
<1> QED BY <1>2, <1>3

LEMMA HeaderMakers ==
  ASSUME Valid, FoundAll, NEW t \in wanted
  PROVE Makers(Headers(t)) \subseteq {Rule(g) : g \in CompileRules(t)} \cap AllNodes
<1>1. Makers(Headers(t)) = {Rule(g) : g \in Rules(Headers(t))} /\ Makers(Headers(t)) \subseteq AllNodes
  BY SourcesFound DEF Headers
<1>2. Rules(Headers(t)) \subseteq CompileRules(t)
  BY DEF CompileRules, Rules
<1> QED BY <1>1, <1>2

\* a compile action and the headers of what it belongs to
LEMMA CompileUpto ==
  ASSUME Ordered, NEW a \in nodes, a.act = "compile", Prepared(a)
  PROVE CompileReads(a.of, a.owner, a.src) \subseteq Upto(a) \cup
          (IF Borrowed(a) THEN Makers(Headers(a.of)) ELSE {})
<1> DEFINE t == a.of
           o == a.owner
           W == CompiledWith(t, o, a.src)
<1>1. t \in wanted /\ IsCompiled(t)
  BY NodeForms
<1>2. Waits(a) = CompileWaits(t, o, a.src) /\ nodes = AllNodes /\ Valid /\ FoundAll
  BY DEF Waits, Ordered
<1>3. Waits(a) \cap nodes \subseteq Upto(a)
  BY WaitsUpto
<1>4. HasPch(t) => Pch(t) \in Upto(a)
  BY <1>1, <1>2, <1>3, TargetFound DEF CompileWaits
<1>5. Makers(CompileUsage(t)) \subseteq Upto(a)
  BY <1>1, <1>2, <1>3, UsageFound DEF CompileWaits
<1>6. o \in wanted /\ W \subseteq CompiledSources(o)
  <2>1. CASE o = t
    BY <1>1, <1>2, <2>1, OwnShapes
  <2>2. CASE o # t
    <3>1. W = {a.src}
      BY <2>2 DEF CompiledWith
    <3> QED BY <2>2, <3>1, BorrowedForms
  <2> QED BY <2>1, <2>2
<1>7. Makers(W) \subseteq Upto(a) /\ Makers(Headers(o)) \subseteq Upto(a)
  <2>1. {Rule(g) : g \in CompileRules(o)} \cap nodes \subseteq Upto(a)
    BY <1>2, <1>3 DEF CompileWaits
  <2> HIDE DEF W, o
  <2> QED BY <1>2, <1>6, <2>1, SourceMakers, HeaderMakers
<1>8. BmiReads(t, o, a.src) \subseteq Upto(a)
  BY BmiUpto
<1>9. Makers(W \cup Headers(t) \cup Headers(o) \cup CompileUsage(t))
        = Makers(W) \cup Makers(Headers(t)) \cup Makers(Headers(o)) \cup Makers(CompileUsage(t))
  BY DEF Makers
<1>10. Makers(Headers(t)) \subseteq Upto(a) \cup (IF Borrowed(a) THEN Makers(Headers(t)) ELSE {})
  BY <1>7 DEF Borrowed
<1> HIDE DEF W, o, t
<1>11. CompileReads(t, o, a.src) \subseteq Upto(a) \cup
          (IF Borrowed(a) THEN Makers(Headers(t)) ELSE {})
  BY <1>4, <1>5, <1>7, <1>8, <1>9, <1>10 DEF CompileReads, W
<1> QED BY <1>11 DEF t, o

LEMMA PchUpto ==
  ASSUME Ordered, NEW a \in nodes, a.act = "pch"
  PROVE PchReads(a.of) \subseteq Upto(a) \cup Makers(Headers(a.of))
<1>1. Makers(Items(a.of, "pch") \cup CompileUsage(a.of)) \subseteq Upto(a)
  BY NamedUpto DEF NamedReads
<1>2. PchReads(a.of) = Makers(Items(a.of, "pch") \cup CompileUsage(a.of)) \cup Makers(Headers(a.of))
  BY DEF PchReads, Makers
<1> QED BY <1>1, <1>2

\* a rule may be its own tool
LEMMA RuleUpto ==
  ASSUME Ordered, NEW a \in nodes, a.act = "rule"
  PROVE GenruleReads(a.of) \subseteq Upto(a) \cup {a}
<1> DEFINE g == a.of
           S == {i \in GenruleItems(g) : i.is = "path" => i.of # g}
<1>1. a = Rule(g)
  BY NodeForms
<1>2. Makers(S) \subseteq Upto(a)
  BY NamedUpto DEF NamedReads
<1>3. \A i \in GenruleItems(g) : i.is = "path" => Maker(i) = Rule(i.of)
  BY ItemShapes, NamesAssumption DEF GenruleItems, Maker, Ordered
<1>4. GenruleReads(g) \subseteq Makers(GenruleItems(g))
  BY DEF GenruleReads, GenruleItems, Makers, Tokens
<1>5. Makers(GenruleItems(g)) \subseteq Makers(S) \cup {a}
  BY <1>1, <1>3 DEF Makers
<1> QED BY <1>2, <1>4, <1>5

LEMMA RunUpto ==
  ASSUME Ordered, NEW a \in nodes, a.act = "final", Kind[a.of] = "run_target"
  PROVE RunReads(a.of) \subseteq Upto(a)
<1> DEFINE t == a.of
<1>1. t \in wanted /\ a = Final(t)
  BY NodeForms
<1>2. \A d \in LinkDeps(t) : Final(d) \in Upto(a)
  BY <1>1, DepsUpto DEF LinkDeps, Next1
<1>3. \A g \in DepRules(t) : Rule(g) \in Upto(a)
  <2>1. \A g \in DepRules(t) : Rule(g) \in Waits(a) \cap nodes
    BY <1>1, TargetFound DEF FinalWaits, DepWaits
  <2> QED BY <2>1, WaitsUpto
<1>4. Makers(Tokens(Items(t, "run_command")) \cup Items(t, "run_inputs")) \subseteq Upto(a)
  <2>1. NamedReads(a) = Makers(Tokens(Items(t, "run_command")) \cup Items(t, "run_inputs"))
    BY DEF NamedReads, Consumers
  <2> QED BY <2>1, NamedUpto
<1> QED BY <1>2, <1>3, <1>4 DEF RunReads

\* the objects of an object library are made before its final action
LEMMA ObjectsUpto ==
  ASSUME Ordered, NEW a \in nodes, a.act = "final", IsCompiled(a.of), ~ConsumerContext(a.of),
         NEW o \in {a.of} \cup Labels(a.of, "objects")
  PROVE ObjectsFor(a.of, o) \subseteq Upto(a)
<1> DEFINE t == a.of
           O == {s \in Sources(o) : s.out = "o"}
<1>1. t \in wanted /\ a = Final(t)
  BY NodeForms
<1>2. o \in wanted /\ IsCompiled(o) /\ Final(o) \in Upto(a) \cup {a}
  <2>1. CASE o = t
    BY <1>1, <2>1 DEF IsCompiled, Compiled
  <2>2. CASE o # t
    <3>1. o \in Labels(t, "objects") /\ t \in Targets
      BY <1>1, <2>2 DEF Ordered, Whole
    <3>2. o \in Targets /\ Kind[o] = "objectlib"
      BY <3>1 DEF Ordered, Valid, ValidTarget, ValidObjects, Labels
    <3> QED BY <1>1, <3>1, <3>2, DepsUpto DEF Next1, IsCompiled, Compiled
  <2> QED BY <2>1, <2>2
<1>3. Waits(Final(o)) = FinalWaits(o) /\ CompileActions(o) \subseteq nodes
  BY <1>2, TargetFound
<1>4. Waits(Final(o)) \cap nodes \subseteq Upto(a)
  BY <1>1, <1>2, WaitsUpto
<1>5. CompileActions(o) \subseteq Upto(a)
  BY <1>2, <1>3, <1>4 DEF FinalWaits, LinkWaits
<1>6. CompileActions(t) \subseteq Upto(a)
  <2>1. Waits(a) = FinalWaits(t) /\ CompileActions(t) \subseteq nodes /\ IsCompiled(t)
    BY <1>1, TargetFound DEF IsCompiled, Compiled
  <2> QED BY <2>1, WaitsUpto DEF FinalWaits, LinkWaits
<1>7. Makers(O) \subseteq Upto(a)
  <2>1. O \subseteq Items(o, "sources")
    BY DEF Sources, Plain
  <2>2. \A i \in O : i.is = "path" /\ i.of \in Genrules
    BY <2>1, ItemShapes DEF Ordered
  <2>3. Makers(O) = {Rule(g) : g \in Rules(O)}
    BY <2>2, PathMakers
  <2>4. Rules(O) \subseteq ConsumedRules(o)
    BY <2>1 DEF ConsumedRules, Rules
  <2>5. \A g \in ConsumedRules(o) : Rule(g) \in Waits(Final(o)) \cap nodes
    BY <1>2, <1>3, TargetFound DEF FinalWaits, LinkWaits
  <2> QED BY <1>4, <2>3, <2>4, <2>5
<1>8. ASSUME NEW s \in CompiledSources(o), EmitsObject(o, s)
      PROVE Compile(IF ConsumerContext(o) THEN t ELSE o, o, s) \in Upto(a)
  <2>1. CASE ConsumerContext(o)
    <3>1. o # t
      BY <2>1
    <3>2. o \in BorrowedFrom(t)
      BY <2>1, <3>1 DEF BorrowedFrom
    <3>3. Compile(t, o, s) \in CompileActions(t)
      BY <3>2 DEF CompileActions
    <3> QED BY <1>6, <2>1, <3>3
  <2>2. CASE ~ConsumerContext(o)
    <3>1. Compile(o, o, s) \in CompileActions(o)
      BY <1>8, <2>2 DEF CompileActions, OwnActions
    <3> QED BY <1>5, <2>2, <3>1
  <2> QED BY <2>1, <2>2
<1> DEFINE E == {x \in CompiledSources(o) : EmitsObject(o, x)}
           C == {Compile(IF ConsumerContext(o) THEN t ELSE o, o, s) : s \in E}
<1>9. C \subseteq Upto(a)
  BY <1>8
<1>10. ObjectsFor(a.of, o) = C \cup Makers(O)
  BY DEF ObjectsFor
<1> QED BY <1>7, <1>9, <1>10

LEMMA LinkUpto ==
  ASSUME Ordered, NEW a \in nodes, a.act = "final", Kind[a.of] \in Consumers
  PROVE FinalReads(a.of) \subseteq Upto(a)
<1> DEFINE t == a.of
<1>1. t \in wanted /\ a = Final(t)
  BY NodeForms
<1>2. UNION {ObjectsFor(t, o) : o \in {t} \cup Labels(t, "objects")} \subseteq Upto(a)
  BY ObjectsUpto DEF IsCompiled, Compiled, ConsumerContext, Consumers
<1>3. Makers(Items(t, "link_inputs")) \subseteq Upto(a) /\ Makers(LinkUsage(t)) \subseteq Upto(a)
  <2>1. NamedReads(a) = CompileActions(t)
          \cup Makers({s \in Sources(t) : s.out = "o"} \cup Items(t, "link_inputs") \cup LinkUsage(t))
    BY DEF NamedReads, Consumers
  <2> QED BY <2>1, NamedUpto DEF Makers
<1>4. \A d \in LinkedDeps(t) : Final(d) \in Upto(a)
  BY <1>1, LinkedUpto
<1> QED BY <1>2, <1>3, <1>4 DEF FinalReads

LEMMA ReadsUpto ==
  ASSUME Ordered, NEW a \in nodes, Prepared(a)
  PROVE Reads(a) \subseteq Upto(a) \cup
          (IF a.act = "pch" \/ Borrowed(a) THEN Makers(Headers(a.of)) ELSE {}) \cup
          (IF a.act = "rule" THEN {a} ELSE {})
<1>1. CASE a.act = "rule"
  BY <1>1, RuleUpto DEF Reads
<1>2. CASE a.act = "stage"
  <2>1. Reads(a) = NamedReads(a)
    BY <1>2 DEF Reads, NamedReads
  <2> QED BY <2>1, NamedUpto
<1>3. CASE a.act = "compile"
  BY <1>3, CompileUpto DEF Reads
<1>4. CASE a.act = "pch"
  BY <1>4, PchUpto DEF Reads
<1>5. CASE a.act = "final" /\ Kind[a.of] = "run_target"
  <2>1. Reads(a) = RunReads(a.of)
    BY <1>5 DEF Reads, Consumers
  <2> QED BY <1>5, <2>1, RunUpto
<1>6. CASE a.act = "final" /\ Kind[a.of] \in Consumers
  <2>1. Reads(a) = FinalReads(a.of)
    BY <1>6 DEF Reads, Consumers
  <2> QED BY <1>6, <2>1, LinkUpto
<1>7. CASE /\ a.act \notin {"rule", "stage", "compile", "pch"}
           /\ ~ (a.act = "final" /\ Kind[a.of] \in Consumers \cup {"run_target"})
  <2>1. Reads(a) = {}
    BY <1>7 DEF Reads
  <2> QED BY <2>1
<1> QED BY <1>1, <1>2, <1>3, <1>4, <1>5, <1>6, <1>7

(***************************************************************************)
(* However large the graph: scheduler_build_nodes orders the maker of each *)
(* file that an action reads before it, also where the action waits for it *)
(* through others only (the artifacts of a link beyond the dependencies    *)
(* named, the objects of an object library).                               *)
(***************************************************************************)
THEOREM MakersComeFirst == Spec => []ProducersFirst
<1>1. GInv => ProducersFirst
  <2>1. SUFFICES ASSUME GInv, Connected PROVE ProducersFirst
    BY DEF ProducersFirst
  <2>2. Ordered
    BY <2>1, ConnectedIsOrdered
  <2> QED BY <2>2, ReadsUpto, ImportsUpto DEF ProducersFirst
<1> QED BY GraphInvariance, <1>1, PTL

-----------------------------------------------------------------------------
(* The statements of the Ninja backend.                                    *)

\* how the makers of items split up
LEMMA MakersSplit ==
  \A S, T : Makers(S \cup T) = Makers(S) \cup Makers(T)
  BY DEF Makers

\* the two walks to the artifacts that a link takes
LEMMA SameArtifacts ==
  \A t : DepArtifacts(t) = {Final(d) : d \in LinkedDeps(t)}
<1>1. \A d : ArtifactNext(d) = LinkNext(d)
  BY DEF ArtifactNext, LinkNext
<1>2. [x \in Targets |-> ArtifactNext(x)] = [x \in Targets |-> LinkNext(x)]
  BY <1>1
<1> QED BY <1>2 DEF DepArtifacts, LinkedDeps

\* a rule reads its tool by path as well, which its statement leaves out
LEMMA RuleNamesReads ==
  ASSUME Valid, NEW g
  PROVE GenruleReads(g) \subseteq RuleInputs(g) \cup Makers(Paths(Items(g, "tool")))
<1> DEFINE I == Items(g, "inputs")
           T == Items(g, "tool")
           A == Tokens(Items(g, "args"))
<1>1. Makers(T) \subseteq Makers(Tokens(T)) \cup Makers(Paths(T))
  <2>1. \A i \in T : i.is \in {"token", "path", "plain"}
    BY ItemShapes
  <2> QED BY <2>1 DEF Makers, Tokens, Paths
<1>2. GenruleReads(g) = Makers(I) \cup Makers(T) \cup Makers(A)
  BY DEF GenruleReads, Makers
<1>3. RuleInputs(g) = Makers(Tokens(T)) \cup Makers(I) \cup Makers(A)
  BY DEF RuleInputs, Makers
<1> QED BY <1>1, <1>2, <1>3

LEMMA CompileNamesReads ==
  \A t, o, s : CompileReads(t, o, s) = CompileInputs(t, o, s)
<1>1. ASSUME NEW S, NEW H, NEW U
      PROVE Makers(S \cup H \cup U) = Makers(S) \cup Makers(H) \cup Makers(U)
  BY DEF Makers
<1>2. \A t, o, s : CompiledWith(t, o, s) \cup Headers(t) \cup Headers(o) \cup CompileUsage(t)
        = CompiledWith(t, o, s) \cup (Headers(t) \cup Headers(o)) \cup CompileUsage(t)
  OBVIOUS
<1>3. \A t, o, s : Makers(CompiledWith(t, o, s) \cup Headers(t) \cup Headers(o) \cup CompileUsage(t))
        = SourceInputs(t, o, s) \cup Makers(Headers(t) \cup Headers(o)) \cup CompileUsageInputs(t)
  BY <1>1, <1>2 DEF SourceInputs, CompileUsageInputs
<1> QED BY <1>3 DEF CompileReads, CompileInputs

LEMMA PchNamesReads ==
  \A t : PchReads(t) \subseteq PchInputs(t)
  BY MakersSplit DEF PchReads, PchInputs, CompileUsageInputs

LEMMA RunNamesReads ==
  \A t : RunReads(t) \subseteq RunInputs(t)
  BY DEF RunReads, RunInputs, RunItemInputs, DepAliases

LEMMA LinkNamesReads ==
  ASSUME NEW t, Kind[t] \in Consumers
  PROVE FinalReads(t) \subseteq FinalInputs(t)
<1>1. FinalReads(t) = (UNION {ObjectsFor(t, o) : o \in {t} \cup Labels(t, "objects")})
        \cup Makers(Items(t, "link_inputs"))
        \cup (IF Kind[t] = "staticlib" THEN {}
              ELSE DepArtifacts(t) \cup Makers(LinkUsage(t)))
  BY SameArtifacts DEF FinalReads
<1>2. UNION {ObjectsFor(t, o) : o \in {t} \cup Labels(t, "objects")}
        = ObjectsFor(t, t) \cup ObjectlibObjects(t)
  BY DEF ObjectlibObjects
<1>3. CASE Kind[t] = "staticlib"
  <2>1. FinalInputs(t) = ArchiveInputs(t)
    BY <1>3 DEF FinalInputs, Consumers
  <2> QED BY <1>1, <1>2, <1>3, <2>1 DEF ArchiveInputs
<1>4. CASE Kind[t] # "staticlib"
  <2>1. FinalInputs(t) = LinkInputs(t)
    BY <1>4 DEF FinalInputs, Consumers
  <2> QED BY <1>1, <1>2, <1>4, <2>1 DEF ArchiveInputs, LinkInputs, LinkUsageInputs
<1> QED BY <1>3, <1>4

\* what a source of the target itself may import is what its compile takes
LEMMA ImportsNamed ==
  ASSUME NEW a, ~Borrowed(a)
  PROVE Imports(a) \subseteq Inputs(a)
<1>1. SUFFICES ASSUME a.act = "compile", a.owner = a.of, Modules(a.of)
               PROVE Imports(a) \subseteq Inputs(a)
  BY DEF Imports, Borrowed
<1>2. Imports(a) \subseteq BmiReads(a.of, a.of, a.src)
  BY <1>1 DEF Imports, BmiReads, SourceAt
<1>3. Inputs(a) = CompileInputs(a.of, a.of, a.src)
  BY <1>1 DEF Inputs
<1> QED BY <1>2, <1>3 DEF CompileInputs

LEMMA StatementsNameReads ==
  ASSUME Valid, NEW a
  PROVE Reads(a) \cup (IF Borrowed(a) THEN {} ELSE Imports(a)) \subseteq Inputs(a) \cup
          (IF a.act = "rule" THEN Makers(Paths(Items(a.of, "tool"))) ELSE {})
<1>1. CASE a.act = "rule"
  BY <1>1, RuleNamesReads, ImportsNamed DEF Reads, Inputs
<1>2. CASE a.act = "stage"
  BY <1>2, ImportsNamed DEF Reads, Inputs
<1>3. CASE a.act = "compile"
  BY <1>3, CompileNamesReads, ImportsNamed DEF Reads, Inputs
<1>4. CASE a.act = "pch"
  BY <1>4, PchNamesReads, ImportsNamed DEF Reads, Inputs
<1>5. CASE a.act = "final" /\ Kind[a.of] = "run_target"
  <2>1. Inputs(a) = RunInputs(a.of) /\ Reads(a) = RunReads(a.of)
    BY <1>5 DEF Reads, Inputs, FinalInputs, Consumers
  <2> QED BY <2>1, RunNamesReads, ImportsNamed
<1>6. CASE a.act = "final" /\ Kind[a.of] \in Consumers
  <2>1. Inputs(a) = FinalInputs(a.of) /\ Reads(a) = FinalReads(a.of)
    BY <1>6 DEF Reads, Inputs, Consumers
  <2> QED BY <1>6, <2>1, LinkNamesReads, ImportsNamed
<1>7. CASE /\ a.act \notin {"rule", "stage", "compile", "pch"}
           /\ ~ (a.act = "final" /\ Kind[a.of] \in Consumers \cup {"run_target"})
  <2>1. Reads(a) = {}
    BY <1>7 DEF Reads
  <2> QED BY <2>1, ImportsNamed
<1> QED BY <1>1, <1>2, <1>3, <1>4, <1>5, <1>6, <1>7

(***************************************************************************)
(* However large the graph: every statement that Ninja runs names what its *)
(* action reads, as write_genrule_deps, write_run_command_deps and the     *)
(* others write it, but for the two exceptions of the property.            *)
(***************************************************************************)
THEOREM StatementsNameWhatTheyRead == Spec => []NinjaNamesReads
<1>1. GInv => NinjaNamesReads
  <2>1. SUFFICES ASSUME GInv, verdict = "built" PROVE NinjaNamesReads
    BY DEF NinjaNamesReads
  <2>2. Valid
    BY <2>1 DEF GInv, IInv, Ended
  <2> QED BY <2>2, StatementsNameReads DEF NinjaNamesReads
<1> QED BY GraphInvariance, <1>1, PTL

-----------------------------------------------------------------------------
(* The statements and the action graph.                                    *)

\* the aliases of what a target depends on
LEMMA AliasesUpto ==
  ASSUME Ordered, NEW t \in wanted
  PROVE DepAliases(t) \subseteq Upto(Final(t))
<1>1. Final(t) \in nodes
  BY TargetFound
<1>2. \A d \in LinkDeps(t) : Final(d) \in Upto(Final(t))
  BY <1>1, DepsUpto DEF LinkDeps, Next1
<1>3. \A g \in DepRules(t) : Rule(g) \in Waits(Final(t)) \cap nodes
  BY TargetFound DEF FinalWaits, DepWaits
<1> QED BY <1>1, <1>2, <1>3, WaitsUpto DEF DepAliases

\* what the statement of a target names
LEMMA FinalInputsUpto ==
  ASSUME Ordered, NEW a \in nodes, a.act = "final"
  PROVE FinalInputs(a.of) \subseteq Upto(a)
<1> DEFINE t == a.of
<1>1. t \in wanted /\ a = Final(t)
  BY NodeForms
<1>2. DepAliases(t) \subseteq Upto(a)
  BY <1>1, AliasesUpto
<1>3. CASE Kind[t] = "run_target"
  <2>1. FinalInputs(t) = RunInputs(t)
    BY <1>3 DEF FinalInputs, Consumers
  <2>2. RunInputs(t) = RunItemInputs(t) \cup DepAliases(t) /\ RunItemInputs(t) \subseteq RunReads(t)
    BY DEF RunInputs, RunItemInputs, RunReads
  <2> QED BY <1>2, <1>3, <2>1, <2>2, RunUpto
<1>4. CASE Kind[t] = "objectlib"
  <2>1. FinalInputs(t) = ObjectlibInputs(t)
    BY <1>4 DEF FinalInputs, Consumers
  <2>2. ~ConsumerContext(t) => ObjectsFor(t, t) \subseteq Upto(a)
    BY <1>4, ObjectsUpto DEF IsCompiled, Compiled
  <2> QED BY <1>2, <2>1, <2>2 DEF ObjectlibInputs
<1>5. CASE Kind[t] \in Consumers
  <2>1. FinalReads(t) \subseteq Upto(a)
    BY <1>5, LinkUpto
  <2>2. FinalInputs(t) = FinalReads(t) \cup DepAliases(t)
    <3> DEFINE O == UNION {ObjectsFor(t, o) : o \in {t} \cup Labels(t, "objects")}
    <3>1. O = ObjectsFor(t, t) \cup ObjectlibObjects(t)
      BY DEF ObjectlibObjects
    <3>2. ArchiveInputs(t) = O \cup Makers(Items(t, "link_inputs")) \cup DepAliases(t)
      BY <3>1 DEF ArchiveInputs
    <3>3. FinalReads(t) = O \cup Makers(Items(t, "link_inputs"))
            \cup (IF Kind[t] = "staticlib" THEN {}
                  ELSE DepArtifacts(t) \cup Makers(LinkUsage(t)))
      BY SameArtifacts DEF FinalReads
    <3> HIDE DEF O
    <3>4. CASE Kind[t] = "staticlib"
      <4>1. FinalInputs(t) = ArchiveInputs(t)
        BY <3>4 DEF FinalInputs, Consumers
      <4> QED BY <3>2, <3>3, <3>4, <4>1
    <3>5. CASE Kind[t] # "staticlib"
      <4>1. FinalInputs(t) = LinkInputs(t)
        BY <1>5, <3>5 DEF FinalInputs, Consumers
      <4> QED BY <3>2, <3>3, <3>5, <4>1 DEF LinkInputs, LinkUsageInputs
    <3> QED BY <3>4, <3>5
  <2> QED BY <1>2, <2>1, <2>2
<1>6. CASE Kind[t] \notin Consumers \cup {"objectlib", "run_target"}
  <2>1. FinalInputs(t) = DepAliases(t)
    BY <1>6 DEF FinalInputs, Consumers
  <2> QED BY <1>2, <2>1
<1> QED BY <1>3, <1>4, <1>5, <1>6

\* what a statement names comes before its action, but for the headers of the
\* target that a compile is for
LEMMA InputsUpto ==
  ASSUME Ordered, NEW a \in nodes, Prepared(a)
  PROVE Inputs(a) \subseteq Upto(a) \cup
          (IF a.act \in {"compile", "pch"} THEN Makers(Headers(a.of)) ELSE {})
<1>1. CASE a.act = "rule"
  <2> DEFINE g == a.of
             S == {i \in GenruleItems(g) : i.is = "path" => i.of # g}
             J == Tokens(Items(g, "tool")) \cup Items(g, "inputs") \cup Tokens(Items(g, "args"))
  <2>1. g \in Genrules
    <3>1. g \in rules
      BY <1>1, NodeShapes DEF Ordered
    <3> QED BY <3>1 DEF Ordered, NativeTypeOK
  <2>2. \A i \in Items(g, "inputs") : i.of # g
    BY <2>1 DEF Ordered, Valid, ValidGenrule
  <2>3. J \subseteq S
    BY <2>2 DEF GenruleItems, Tokens
  <2>4. Makers(J) \subseteq Makers(S)
    BY <2>3 DEF Makers
  <2>5. Inputs(a) = Makers(J)
    BY <1>1 DEF Inputs, RuleInputs
  <2>6. Makers(S) \subseteq Upto(a)
    BY <1>1, NamedUpto DEF NamedReads
  <2> QED BY <2>4, <2>5, <2>6
<1>2. CASE a.act = "stage"
  <2>1. Inputs(a) = NamedReads(a)
    BY <1>2 DEF Inputs, NamedReads
  <2> QED BY <2>1, NamedUpto
<1>3. CASE a.act = "compile"
  <2>1. Inputs(a) = CompileInputs(a.of, a.owner, a.src)
    BY <1>3 DEF Inputs
  <2>2. CompileInputs(a.of, a.owner, a.src) = CompileReads(a.of, a.owner, a.src)
    BY CompileNamesReads
  <2>3. CompileReads(a.of, a.owner, a.src) \subseteq Upto(a) \cup Makers(Headers(a.of))
    BY <1>3, CompileUpto
  <2> QED BY <1>3, <2>1, <2>2, <2>3
<1>4. CASE a.act = "pch"
  <2>1. Inputs(a) = PchInputs(a.of)
    BY <1>4 DEF Inputs
  <2>2. PchInputs(a.of) = PchReads(a.of)
    BY MakersSplit DEF PchReads, PchInputs, CompileUsageInputs
  <2> QED BY <1>4, <2>1, <2>2, PchUpto
<1>5. CASE a.act = "final"
  <2>1. Inputs(a) = FinalInputs(a.of)
    BY <1>5 DEF Inputs
  <2> QED BY <1>5, <2>1, FinalInputsUpto
<1>6. a.act \in {"rule", "stage", "compile", "pch", "final"}
  <2>1. a \in AllNodes
    BY DEF Ordered
  <2> QED BY <2>1 DEF AllNodes, TargetNodes, CompileActions, OwnActions, Rule, Stage, Final, Pch, Compile, Action
<1> QED BY <1>1, <1>2, <1>3, <1>4, <1>5, <1>6

\* what follows from an action, to either backend
Follow(a) == Inputs(a) \cup Unfollowed(a)

LEMMA SameObjects ==
  ASSUME UNCHANGED refs
  PROVE \A t, o : ObjectsFor(t, o)' = ObjectsFor(t, o)
<1>1. /\ \A t : ConsumerContext(t)' <=> ConsumerContext(t)
      /\ \A t : Sources(t)' = Sources(t) /\ CompiledSources(t)' = CompiledSources(t)
      /\ \A t, s : EmitsObject(t, s)' <=> EmitsObject(t, s)
  BY SameCompiles
<1> QED BY <1>1 DEF ObjectsFor

LEMMA SameClosure ==
  ASSUME UNCHANGED refs
  PROVE /\ \A t : Closure(t)' = Closure(t)
        /\ \A t : Cyclic(t)' <=> Cyclic(t)
        /\ \A t : DepArtifacts(t)' = DepArtifacts(t)
        /\ \A t : DepAliases(t)' = DepAliases(t)
<1>1. \A t : Next1(t)' = Next1(t)
  BY SameNext1
<1>2. [x \in Targets |-> Next1(x)]' = [x \in Targets |-> Next1(x)]
  BY <1>1
<1>3. \A t : Closure(t)' = Closure(t)
  BY <1>1, <1>2 DEF Closure
<1>4. \A t : Cyclic(t)' <=> Cyclic(t)
  BY <1>1, <1>3 DEF Cyclic
<1>5. /\ \A t : LinkDeps(t)' = LinkDeps(t) /\ PublicDeps(t)' = PublicDeps(t)
      /\ \A t : DepRules(t)' = DepRules(t)
  BY SameUsage DEF LinkDeps, DepLabels, PublicDeps, DepRules
<1>6. \A d : ArtifactNext(d)' = ArtifactNext(d)
  BY <1>5 DEF ArtifactNext
<1>7. [x \in Targets |-> ArtifactNext(x)]' = [x \in Targets |-> ArtifactNext(x)]
  BY <1>6
<1>8. \A t : DepArtifacts(t)' = DepArtifacts(t)
  BY <1>5, <1>7 DEF DepArtifacts
<1>9. \A t : DepAliases(t)' = DepAliases(t)
  BY <1>5 DEF DepAliases
<1> QED BY <1>3, <1>4, <1>8, <1>9

\* what a statement names depends on the references only
LEMMA SameInputs ==
  ASSUME UNCHANGED refs
  PROVE \A a : Inputs(a)' = Inputs(a)
<1>1. /\ \A o, f : Items(o, f)' = Items(o, f) /\ Labels(o, f)' = Labels(o, f)
      /\ \A t : CompileUsage(t)' = CompileUsage(t) /\ LinkUsage(t)' = LinkUsage(t)
  BY SameUsage
<1>2. \A t : Headers(t)' = Headers(t)
  BY <1>1 DEF Headers
<1>3. /\ \A t : ConsumerContext(t)' <=> ConsumerContext(t)
      /\ \A t : HasPch(t)' <=> HasPch(t)
      /\ \A t, o, s : CompiledWith(t, o, s)' = CompiledWith(t, o, s)
      /\ \A t, o, s : BmiReads(t, o, s)' = BmiReads(t, o, s)
  BY SameCompiles
<1>4. /\ \A t, o : ObjectsFor(t, o)' = ObjectsFor(t, o)
      /\ \A t : DepArtifacts(t)' = DepArtifacts(t) /\ DepAliases(t)' = DepAliases(t)
  BY SameObjects, SameClosure
<1>5. \A g : RuleInputs(g)' = RuleInputs(g)
  BY <1>1 DEF RuleInputs
<1>6. \A t, o, s : CompileInputs(t, o, s)' = CompileInputs(t, o, s)
  BY <1>1, <1>2, <1>3 DEF CompileInputs, SourceInputs, CompileUsageInputs
<1>7. \A t : PchInputs(t)' = PchInputs(t)
  BY <1>1, <1>2 DEF PchInputs, CompileUsageInputs
<1>8. \A t : ObjectlibObjects(t)' = ObjectlibObjects(t)
  BY <1>1, <1>4 DEF ObjectlibObjects
<1>9. \A t : ArchiveInputs(t)' = ArchiveInputs(t)
  BY <1>1, <1>4, <1>8 DEF ArchiveInputs
<1>10. \A t : LinkInputs(t)' = LinkInputs(t)
  BY <1>1, <1>4, <1>9 DEF LinkInputs, LinkUsageInputs
<1>11. \A t : ObjectlibInputs(t)' = ObjectlibInputs(t)
  BY <1>3, <1>4 DEF ObjectlibInputs
<1>12. \A t : RunInputs(t)' = RunInputs(t)
  BY <1>1, <1>4 DEF RunInputs, RunItemInputs, Tokens
<1>13. \A t : FinalInputs(t)' = FinalInputs(t)
  BY <1>4, <1>9, <1>10, <1>11, <1>12 DEF FinalInputs
<1> QED BY <1>1, <1>5, <1>6, <1>7, <1>13 DEF Inputs

LEMMA SameFollow ==
  ASSUME UNCHANGED refs
  PROVE (\A a : Follow(a)' = Follow(a)) /\ Actions' = Actions
<1>1. /\ \A o, f : Items(o, f)' = Items(o, f) /\ Labels(o, f)' = Labels(o, f)
      /\ \A t : CompileUsage(t)' = CompileUsage(t) /\ LinkUsage(t)' = LinkUsage(t)
      /\ \A t : ConsumedRules(t)' = ConsumedRules(t)
  BY SameUsage, SameItems
<1>2. \A a : Unfollowed(a)' = Unfollowed(a)
  BY <1>1 DEF Unfollowed
<1>3. \A a : Follow(a)' = Follow(a)
  BY <1>2, SameInputs DEF Follow
<1>4. Actions' = Actions
  BY SameCompiles DEF Actions
<1> QED BY <1>3, <1>4

\* what either backend follows to from a node is a node
LEMMA FollowedFound ==
  ASSUME Ordered, NEW a \in nodes, Prepared(a)
  PROVE Follow(a) \subseteq nodes
<1>0. nodes = AllNodes /\ Valid /\ FoundAll /\ Upto(a) \subseteq nodes
  BY UptoClosed DEF Ordered
<1>1. Inputs(a) \subseteq nodes
  <2>1. ASSUME a.act \in {"compile", "pch"} PROVE Makers(Headers(a.of)) \subseteq nodes
    <3>1. a.of \in wanted
      BY <2>1, NodeForms
    <3> QED BY <1>0, <3>1, HeaderMakers
  <2> QED BY <1>0, <2>1, InputsUpto
<1>2. CASE a.act = "rule"
  <2> DEFINE g == a.of
             S == {i \in GenruleItems(g) : i.is = "path" => i.of # g}
             P == {i \in Paths(Items(g, "tool") \cup Items(g, "args")) : i.of # g}
  <2>1. P \subseteq S
    BY DEF Paths, GenruleItems
  <2>2. Makers(S) \subseteq Upto(a)
    BY <1>2, NamedUpto DEF NamedReads
  <2>3. Makers(P) \subseteq Makers(S)
    BY <2>1 DEF Makers
  <2>4. Unfollowed(a) = Makers(P)
    BY <1>2 DEF Unfollowed
  <2> QED BY <1>0, <1>1, <2>2, <2>3, <2>4 DEF Follow
<1>3. CASE a.act = "final"
  <2> DEFINE t == a.of
  <2>1. t \in wanted /\ t \in Targets
    BY <1>3, NodeForms DEF Ordered, Whole
  <2>2. \A g \in ConsumedRules(t) : Rule(g) \in nodes
    BY <2>1, TargetFound
  <2>3. \A o \in Labels(t, "objects") : Final(o) \in nodes
    <3>1. Labels(t, "objects") \subseteq Targets
      BY <2>1 DEF Ordered, Valid, ValidTarget, ValidObjects, Labels
    <3>2. Labels(t, "objects") \subseteq wanted
      BY <2>1, <3>1 DEF Ordered, Whole, Next1
    <3> QED BY <3>2, TargetFound
  <2>4. Makers(CompileUsage(t) \cup LinkUsage(t)) \subseteq nodes
    BY <1>0, <2>1, UsageFound, MakersSplit
  <2>5. Unfollowed(a) = {Rule(g) : g \in ConsumedRules(t)} \cup {Final(o) : o \in Labels(t, "objects")}
           \cup Makers(CompileUsage(t) \cup LinkUsage(t))
    BY <1>3 DEF Unfollowed
  <2> QED BY <1>1, <2>2, <2>3, <2>4, <2>5 DEF Follow
<1>4. CASE a.act \notin {"rule", "final"}
  <2>1. Unfollowed(a) = {}
    BY <1>4 DEF Unfollowed
  <2> QED BY <1>1, <2>1 DEF Follow
<1> QED BY <1>2, <1>3, <1>4

-----------------------------------------------------------------------------
(***************************************************************************)
(* That nothing is discovered but what a build of the root needs: a set of *)
(* actions that holds the root's and all that follows from its own holds   *)
(* those of every target, rule and stage discovered.                       *)
(***************************************************************************)
FollowClosed(C) == RootAction \in C /\ \A a \in C \cap Actions : Follow(a) \subseteq C
FoundIn(C) == (\A t \in wanted : Final(t) \in C) /\ (\A g \in rules : Rule(g) \in C)
Needed == \A C : FollowClosed(C) => FoundIn(C)

LEMMA SameFollowClosed ==
  ASSUME UNCHANGED <<refs, root>>
  PROVE \A C : FollowClosed(C)' <=> FollowClosed(C)
<1>1. (\A a : Follow(a)' = Follow(a)) /\ Actions' = Actions
  BY SameFollow
<1>2. RootAction' = RootAction
  BY DEF RootAction
<1> QED BY <1>1, <1>2 DEF FollowClosed

\* every target's action is followed to what the target refers to
LEMMA FinalFollows ==
  ASSUME Valid, NEW t \in Targets
  PROVE /\ {Final(d) : d \in Next1(t)} \cup {Rule(g) : g \in DepRules(t) \cup ConsumedRules(t)}
             \subseteq Follow(Final(t))
        /\ Makers(Tokens(Items(t, "link_inputs"))) \subseteq Follow(Final(t))
        /\ Makers(CompileUsage(t)) \cup Makers(LinkUsage(t)) \subseteq Follow(Final(t))
        /\ Kind[t] = "run_target" =>
             Makers(Items(t, "run_inputs")) \cup Makers(Tokens(Items(t, "run_command")))
               \subseteq Follow(Final(t))
<1>1. Follow(Final(t)) = FinalInputs(t) \cup
        ({Rule(g) : g \in ConsumedRules(t)} \cup {Final(o) : o \in Labels(t, "objects")}
           \cup Makers(CompileUsage(t) \cup LinkUsage(t)))
  BY DEF Follow, Inputs, Unfollowed, Final, Action
<1>2. DepAliases(t) \subseteq FinalInputs(t)
  <2>1. DepAliases(t) \subseteq ArchiveInputs(t) /\ ArchiveInputs(t) \subseteq LinkInputs(t)
    BY DEF ArchiveInputs, LinkInputs
  <2>2. DepAliases(t) \subseteq RunInputs(t) /\ DepAliases(t) \subseteq ObjectlibInputs(t)
    BY DEF RunInputs, ObjectlibInputs
  <2> QED BY <2>1, <2>2 DEF FinalInputs
<1>3. \A d \in Next1(t) : Final(d) \in Follow(Final(t))
  BY <1>1, <1>2 DEF Next1, DepAliases, LinkDeps
<1>4. Makers(Tokens(Items(t, "link_inputs"))) \subseteq FinalInputs(t)
  <2>1. CASE Kind[t] \in Consumers
    <3>1. Makers(Items(t, "link_inputs")) \subseteq ArchiveInputs(t)
      BY DEF ArchiveInputs
    <3>2. ArchiveInputs(t) \subseteq FinalInputs(t)
      BY <2>1 DEF FinalInputs, LinkInputs, Consumers
    <3> QED BY <3>1, <3>2 DEF Makers, Tokens
  <2>2. CASE Kind[t] \notin Consumers
    <3>1. Items(t, "link_inputs") = {}
      BY <2>2 DEF Valid, WellFormed, ValidTarget, Items, IsCompiled, Compiled
    <3> QED BY <3>1 DEF Makers, Tokens
  <2> QED BY <2>1, <2>2
<1>5. Kind[t] = "run_target" =>
        Makers(Items(t, "run_inputs")) \cup Makers(Tokens(Items(t, "run_command")))
          \subseteq FinalInputs(t)
  <2>1. Makers(Items(t, "run_inputs")) \cup Makers(Tokens(Items(t, "run_command"))) \subseteq RunInputs(t)
    BY MakersSplit DEF RunInputs, RunItemInputs
  <2> QED BY <2>1 DEF FinalInputs, Consumers
<1>6. Makers(CompileUsage(t)) \cup Makers(LinkUsage(t)) \subseteq Follow(Final(t))
  BY <1>1, MakersSplit
<1>7. \A g \in DepRules(t) \cup ConsumedRules(t) : Rule(g) \in Follow(Final(t))
  BY <1>1, <1>2 DEF DepAliases
<1> QED BY <1>1, <1>3, <1>4, <1>5, <1>6, <1>7

\* and every rule's to what the rule names
LEMMA RuleFollows ==
  ASSUME Valid, NEW g \in Genrules
  PROVE Makers(GenruleItems(g)) \subseteq Follow(Rule(g)) \cup {Rule(g)}
<1>1. Follow(Rule(g)) = RuleInputs(g) \cup
        Makers({i \in Paths(Items(g, "tool") \cup Items(g, "args")) : i.of # g})
  BY DEF Follow, Inputs, Unfollowed, Rule, Action
<1>2. ASSUME NEW i \in GenruleItems(g), i.is # "plain"
      PROVE Maker(i) \in Follow(Rule(g)) \cup {Rule(g)}
  <2>1. i.is \in {"token", "path"} /\ (i.is = "path" => i.of \in Genrules)
    BY <1>2, ItemShapes DEF GenruleItems
  <2>2. CASE i \in Items(g, "inputs") \/ i.is = "token"
    BY <1>1, <1>2, <2>2 DEF RuleInputs, Makers, Tokens, GenruleItems
  <2>3. CASE i.is = "path" /\ i.of = g
    <3>1. Maker(i) = Rule(g)
      BY <2>3, NamesAssumption DEF Maker
    <3> QED BY <3>1
  <2>4. CASE i \notin Items(g, "inputs") /\ i.is = "path" /\ i.of # g
    BY <1>1, <1>2, <2>4 DEF Makers, Paths, GenruleItems
  <2> QED BY <2>1, <2>2, <2>3, <2>4
<1> QED BY <1>2 DEF Makers

LEMMA ClosureFollowed ==
  ASSUME Valid, NEW C, FollowClosed(C), NEW t \in Targets, Final(t) \in C
  PROVE \A u \in Closure(t) : Final(u) \in C
<1> DEFINE D == {u \in Targets : Final(u) \in C}
           next == [x \in Targets |-> Next1(x)]
<1>1. \A u \in D : Next1(u) \subseteq D
  <2>1. \A u \in D : Final(u) \in Actions
    BY DEF Actions
  <2> QED BY <2>1, FinalFollows DEF FollowClosed, Next1
<1>2. Cardinality(Targets) \in Nat
  BY NamesAssumption, FS_CardinalityType
<1>3. Next1(t) \subseteq D /\ \A x \in D : next[x] \subseteq D
  BY <1>1
<1>4. Least(Next1(t), next) \subseteq D
  <2> HIDE DEF D, next
  <2> QED BY <1>2, <1>3, GrownLeast DEF Least
<1>5. Closure(t) = {t} \cup Least(Next1(t), next)
  BY DEF Closure
<1> HIDE DEF next
<1> QED BY <1>4, <1>5

\* whatever makes an item that a pass looks at is followed to
LEMMA PassFollowed ==
  ASSUME Valid, wanted \subseteq Targets, rules \subseteq Genrules,
         NEW C, FollowClosed(C), FoundIn(C)
  PROVE /\ \A i \in PassItems : i.is \in {"token", "path"} => Maker(i) \in C
        /\ \A t \in wanted : \A g \in ConsumedRules(t) \cup DepRules(t) : Rule(g) \in C
<1>1. \A t \in wanted : Follow(Final(t)) \subseteq C
  BY DEF FollowClosed, FoundIn, Actions
<1>2. \A g \in rules : Follow(Rule(g)) \cup {Rule(g)} \subseteq C
  BY DEF FollowClosed, FoundIn, Actions
<1>3. ASSUME NEW t \in wanted, NEW i \in TargetItems(t), i.is \in {"token", "path"}
      PROVE Maker(i) \in C
  <2>1. CASE i \in Tokens(Items(t, "link_inputs")) \cup CompileUsage(t) \cup LinkUsage(t)
    BY <1>1, <1>3, <2>1, FinalFollows DEF Makers
  <2>2. CASE Kind[t] = "run_target" /\ i \in Items(t, "run_inputs") \cup Tokens(Items(t, "run_command"))
    BY <1>1, <1>3, <2>2, FinalFollows DEF Makers
  <2>3. CASE Kind[t] = "run_target" /\ \E s \in StagesOf(t) : i \in Items(s, "files")
    <3>1. PICK s \in StagesOf(t) : i \in Items(s, "files")
      BY <2>3
    <3>2. PICK x \in Items(t, "run_inputs") : x.is = "stage_dir" /\ x.of = s
      BY <3>1, <2>3 DEF StagesOf
    <3>3. s \in Stages /\ Maker(x) = Stage(s)
      <4>1. x.of \in Stages
        BY <3>2, ItemShapes
      <4> QED BY <3>2, <4>1, NamesAssumption DEF Maker
    <3>4. Stage(s) \in C /\ Stage(s) \in Actions
      BY <1>1, <2>3, <3>2, <3>3, FinalFollows DEF Makers, Actions
    <3>5. Maker(i) \in Inputs(Stage(s))
      BY <1>3, <3>1 DEF Inputs, Stage, Action, Makers
    <3> QED BY <3>4, <3>5 DEF FollowClosed, Follow
  <2> QED BY <1>3, <2>1, <2>2, <2>3 DEF TargetItems, RunItems
<1>4. ASSUME NEW g \in rules, NEW i \in GenruleItems(g), i.is \in {"token", "path"}
      PROVE Maker(i) \in C
  <2>1. Maker(i) \in Makers(GenruleItems(g))
    BY <1>4 DEF Makers
  <2> QED BY <1>2, <2>1, RuleFollows
<1>5. \A t \in wanted : \A g \in ConsumedRules(t) \cup DepRules(t) : Rule(g) \in C
  BY <1>1, FinalFollows
<1> QED BY <1>3, <1>4, <1>5 DEF PassItems

LEMMA StartNeeds ==
  ASSUME Needed, root \in Roots, Start
  PROVE Needed'
<1> USE DEF found, graph
<1>1. UNCHANGED <<refs, root>>
  BY DEF Start
<1>2. SUFFICES ASSUME NEW C, FollowClosed(C) PROVE FoundIn(C)'
  BY <1>1, SameFollowClosed DEF Needed
<1>3. FoundIn(C) /\ RootAction \in C
  BY <1>2 DEF Needed, FollowClosed
<1>4. CASE UNCHANGED <<wanted, rules>>
  BY <1>3, <1>4 DEF FoundIn
<1>5. CASE root \in Genrules /\ rules' = {root} /\ UNCHANGED wanted
  BY <1>3, <1>5 DEF FoundIn, RootAction
<1>6. CASE Valid /\ root \notin Genrules /\ wanted' = Closure(root) /\ UNCHANGED rules
  <2>1. root \in Targets /\ Final(root) \in C
    BY <1>3, <1>6, RootsAssumption DEF RootAction
  <2>2. \A u \in Closure(root) : Final(u) \in C
    BY <1>2, <1>6, <2>1, ClosureFollowed
  <2> QED BY <1>3, <1>6, <2>2 DEF FoundIn
<1> QED BY <1>4, <1>5, <1>6 DEF Start

LEMMA PassNeeds ==
  ASSUME Needed, IInv, Whole, Pass
  PROVE Needed'
<1> USE DEF found, graph
<1>1. UNCHANGED <<refs, root>> /\ Valid /\ wanted \subseteq Targets /\ rules \subseteq Genrules
  BY DEF Pass, IInv, Whole, NativeTypeOK
<1>2. SUFFICES ASSUME NEW C, FollowClosed(C) PROVE FoundIn(C)'
  BY <1>1, SameFollowClosed DEF Needed
<1>3. FoundIn(C)
  BY <1>2 DEF Needed
<1>4. /\ \A i \in PassItems : i.is \in {"token", "path"} => Maker(i) \in C
      /\ \A t \in wanted : \A g \in ConsumedRules(t) \cup DepRules(t) : Rule(g) \in C
  BY <1>1, <1>2, <1>3, PassFollowed
<1>5. \A t \in NamedTargets(PassItems) : t \in Targets /\ Final(t) \in C
  BY <1>4 DEF NamedTargets, Tokens, Maker
<1>6. \A g \in NamedRules(PassItems) : Rule(g) \in C
  <2>1. ASSUME NEW i \in PassItems, i.is = "token" /\ i.of \in Genrules
        PROVE Rule(i.of) \in C
    BY <1>4, <2>1, NamesAssumption DEF Maker
  <2>2. ASSUME NEW i \in PassItems, i.is = "path"
        PROVE Rule(i.of) \in C
    <3>1. i.of \in Genrules
      BY <1>1, <2>2, FoundExist DEF NamedRules, Rules
    <3> QED BY <1>4, <2>2, <3>1, NamesAssumption DEF Maker
  <2> QED BY <2>1, <2>2 DEF NamedRules, Tokens, Rules
<1>7. \A t \in wanted' : Final(t) \in C
  BY <1>1, <1>2, <1>3, <1>5, ClosureFollowed DEF Pass, FoundIn
<1>8. \A g \in rules' : Rule(g) \in C
  BY <1>3, <1>4, <1>6 DEF Pass, FoundIn
<1> QED BY <1>7, <1>8 DEF FoundIn

-----------------------------------------------------------------------------
(* How a build ends.                                                       *)

\* the root is what a build of it discovers first
RootFound ==
  phase = "discover" \/ Ready =>
    IF root \in Genrules THEN root \in rules ELSE root \in wanted

\* a build that succeeds runs every node, and prepares it before
AllRan == phase = "built" => done = nodes /\ \A a \in nodes : Prepared(a)

FInv ==
  /\ GInv
  /\ refs \in Authored
  /\ RootFound
  /\ Needed
  /\ AllRan
  /\ IsFiniteSet(written)

LEMMA SamePrepared ==
  ASSUME UNCHANGED refs
  PROVE \A a : Prepared(a)' <=> Prepared(a)
BY SameCompiles DEF Prepared, ValidSource

LEMMA FInitially == Init => FInv
<1> SUFFICES ASSUME Init PROVE FInv
  OBVIOUS
<1>1. Needed /\ RootFound /\ AllRan
  BY DEF Init, NativeInit, Needed, FoundIn, RootFound, AllRan, Ready
<1>2. IsFiniteSet(written)
  BY FS_EmptySet DEF Init, NinjaInit
<1> QED BY <1>1, <1>2, GInitially DEF FInv, Init

LEMMA RootStep ==
  ASSUME RootFound, root \in Roots, NativeNext
  PROVE RootFound'
<1> USE DEF found, graph
<1>1. CASE Start
  <2>1. ASSUME phase' = "discover" PROVE IF root \in Genrules THEN root \in rules' ELSE root \in wanted'
    BY <1>1, <2>1 DEF Start, Closure
  <2> QED BY <1>1, <2>1 DEF Start, RootFound, Ready
<1>2. CASE Pass
  BY <1>2 DEF Pass, RootFound, Ready
<1>3. CASE Connect
  BY <1>3 DEF Connect, RootFound, Ready
<1>4. CASE Execute
  BY <1>4 DEF Execute, RootFound, Ready
<1> QED BY <1>1, <1>2, <1>3, <1>4 DEF NativeNext

LEMMA RanStep ==
  ASSUME GInv, NativeNext
  PROVE AllRan'
<1>1. CASE Execute /\ phase' = "built"
  <2>1. Ordered
    BY <1>1, ConnectedIsOrdered DEF Execute, Connected
  <2>2. Cardinality(nodes) \in Nat
    BY <2>1, FiniteNodes, FS_CardinalityType
  <2>3. Completes(nodes, edges) \subseteq {a \in nodes : Prepared(a)}
    BY <2>2, RanWithin DEF Completes
  <2>4. done' = nodes /\ nodes = Completes(nodes, edges) /\ UNCHANGED <<refs, graph>>
    BY <1>1 DEF Execute
  <2>5. \A a \in nodes : Prepared(a)
    BY <2>3, <2>4
  <2> QED BY <2>4, <2>5, SamePrepared DEF AllRan, graph
<1> QED BY <1>1 DEF NativeNext, Start, Pass, Connect, Execute, AllRan

LEMMA WritesFinitely ==
  ASSUME Valid, IsFiniteSet(refs), NEW a
  PROVE IsFiniteSet(Statements(a))
<1> DEFINE t == a.of
           O == Targets \cup {t}
<1>1. IsFiniteSet(O)
  BY NamesAssumption, FS_Union, FS_Singleton
<1>2. PICK N : /\ IsFiniteSet(N)
               /\ \A act \in {"final", "rule", "stage", "pch", "compile"},
                     of \in O, owner \in O \cup {"-"}, src \in ReferredTo :
                    [act |-> act, of |-> of, owner |-> owner, src |-> src] \in N
  <2> HIDE DEF O
  <2> QED BY <1>1, FiniteShapes
<1>3. CompileActions(t) \subseteq N
  <2>1. ASSUME NEW b \in CompileActions(t) PROVE b \in N
    <3>1. PICK o \in Targets \cup {t} : \E s \in ReferredTo : b = Compile(t, o, s)
      BY CompileShapes
    <3> QED BY <1>2, <3>1 DEF Compile
  <2> QED BY <2>1
<1>4. IsFiniteSet(CompileActions(t))
  BY <1>2, <1>3, FS_Subset
<1> HIDE DEF t
<1>5. IsFiniteSet({a}) /\ IsFiniteSet({}) /\ IsFiniteSet({Pch(t)})
  BY FS_Singleton, FS_EmptySet
<1>6. Statements(a) \subseteq ({a} \cup CompileActions(t)) \cup {Pch(t)}
  BY DEF Statements, t
<1>7. IsFiniteSet(({a} \cup CompileActions(t)) \cup {Pch(t)})
  BY <1>4, <1>5, FS_Union
<1> QED BY <1>6, <1>7, FS_Subset

LEMMA FinishInvariance == Spec => []FInv
<1>1. FInv /\ GInv' /\ [Next]_vars => FInv'
  <2> SUFFICES ASSUME FInv, GInv', [Next]_vars PROVE FInv'
    OBVIOUS
  <2> USE DEF vars, nativeVars, ninjaVars, found, graph
  <2>0. UNCHANGED <<refs, root>> /\ root \in Roots /\ IInv /\ Whole
    BY DEF Next, Native, Ninja, Stay, NativeNext, Start, Pass, Connect, Execute, FInv, GInv, Whole
  <2>1. CASE Native
    <3>1. NativeNext /\ UNCHANGED written
      BY <2>1 DEF Native
    <3>2. RootFound' /\ AllRan'
      BY <2>0, <3>1, RootStep, RanStep DEF FInv
    <3>3. Needed'
      <4>1. CASE Start \/ Pass
        BY <2>0, <4>1, StartNeeds, PassNeeds DEF FInv
      <4>2. CASE Connect \/ Execute
        <5>1. UNCHANGED <<wanted, rules>>
          BY <4>2 DEF Connect, Execute
        <5> QED BY <2>0, <5>1, SameFollowClosed DEF FInv, Needed, FoundIn
      <4> QED BY <3>1, <4>1, <4>2 DEF NativeNext
    <3> QED BY <2>0, <3>1, <3>2, <3>3 DEF FInv
  <2>2. CASE UNCHANGED nativeVars /\ IsFiniteSet(written')
    <3>1. RootFound' /\ AllRan'
      BY <2>0, <2>2, SamePrepared DEF FInv, RootFound, AllRan, Ready
    <3>2. Needed'
      BY <2>0, <2>2, SameFollowClosed DEF FInv, Needed, FoundIn
    <3> QED BY <2>0, <2>2, <3>1, <3>2 DEF FInv
  <2>3. CASE Ninja
    <3>1. IsFiniteSet(written')
      <4>1. CASE UNCHANGED written
        BY <4>1 DEF FInv
      <4>2. CASE Write
        <5>1. Valid /\ IsFiniteSet(refs)
          BY <2>0, <2>3 DEF Ninja, Ended, IInv, Whole
        <5>2. IsFiniteSet(Statements(Top.writes))
          BY <5>1, WritesFinitely
        <5>3. written' = written \cup Statements(Top.writes)
          BY <4>2 DEF Write
        <5> QED BY <5>2, <5>3, FS_Union DEF FInv
      <4> QED BY <2>3, <4>1, <4>2 DEF Ninja, NinjaNext, EnterClosure, EnterTarget, EnterRule,
             EnterStage, EnterMarked, CheckStrategies, NinjaBuild
    <3> QED BY <2>2, <2>3, <3>1 DEF Ninja
  <2>4. CASE UNCHANGED vars
    BY <2>2, <2>4 DEF FInv
  <2> QED BY <2>1, <2>3, <2>4 DEF Next, Stay
<1> QED BY FInitially, GraphInvariance, <1>1, PTL DEF Spec

-----------------------------------------------------------------------------
(* What is built is what follows from the root.                            *)

\* what a consumer's final action names of its objects
LEMMA ObjectsFollow ==
  ASSUME NEW t \in Targets, IsCompiled(t), ~ConsumerContext(t)
  PROVE /\ ObjectsFor(t, t) \subseteq Follow(Final(t))
        /\ Kind[t] \in Consumers =>
             \A o \in Labels(t, "objects") : ObjectsFor(t, o) \subseteq Follow(Final(t))
<1>1. FinalInputs(t) \subseteq Follow(Final(t))
  BY DEF Follow, Inputs, Final, Action
<1>2. CASE Kind[t] \in Consumers
  <2>1. ArchiveInputs(t) \subseteq FinalInputs(t)
    BY <1>2 DEF FinalInputs, LinkInputs, Consumers
  <2>2. ObjectsFor(t, t) \cup ObjectlibObjects(t) \subseteq ArchiveInputs(t)
    BY DEF ArchiveInputs
  <2> QED BY <1>1, <2>1, <2>2 DEF ObjectlibObjects
<1>3. CASE Kind[t] = "objectlib"
  <2>1. ObjectsFor(t, t) \subseteq ObjectlibInputs(t)
    BY DEF ObjectlibInputs
  <2>2. ObjectlibInputs(t) = FinalInputs(t)
    BY <1>3 DEF FinalInputs, Consumers
  <2> QED BY <1>1, <1>3, <2>1, <2>2 DEF Consumers
<1> QED BY <1>2, <1>3 DEF IsCompiled, Compiled

\* the first source listed of those that may share a batch begins one
LEMMA FirstOfBatch ==
  ASSUME NEW S, Plain \in S
  PROVE \E s \in S : CountBefore(S, s) = 0
<1> DEFINE L == {i \in 1..Len(Listed) : Listed[i] \in S}
<1>1. PICK i \in L : \A j \in L : i <= j
  <2>1. L # {} /\ L \subseteq Nat
    BY ListedAssumption
  <2>2. \A m \in Nat : (\A j \in L : j > m) \/ \E i \in L : \A j \in L : i <= j
    <3> DEFINE B == {m \in Nat : (\A j \in L : j > m) \/ \E i \in L : \A j \in L : i <= j}
    <3>1. 0 \in B
      OBVIOUS
    <3>2. ASSUME NEW m \in Nat, m \in B PROVE m + 1 \in B
      <4>1. CASE \A j \in L : j > m
        <5>1. CASE m + 1 \in L
          <6>1. \A j \in L : m + 1 <= j
            BY <2>1, <4>1
          <6> QED BY <5>1, <6>1
        <5>2. CASE m + 1 \notin L
          <6>1. \A j \in L : j > m + 1
            BY <2>1, <4>1, <5>2
          <6> QED BY <6>1
        <5> QED BY <5>1, <5>2
      <4> QED BY <3>2, <4>1
    <3>3. Nat \subseteq B
      <4> HIDE DEF B
      <4> QED BY <3>1, <3>2, Inductive
    <3> QED BY <3>3
  <2>3. PICK k \in L : TRUE
    BY <2>1
  <2>4. k \in Nat /\ ~(k > k)
    BY <2>1
  <2> QED BY <2>2, <2>3, <2>4
<1>2. {j \in 1..Len(Listed) : Listed[j] \in S /\ \E k \in 1..Len(Listed) : j < k /\ Listed[k] = Listed[i]} = {}
  <2>1. ASSUME NEW j \in 1..Len(Listed), Listed[j] \in S,
               NEW k \in 1..Len(Listed), j < k, Listed[k] = Listed[i]
        PROVE FALSE
    <3>1. k = i
      BY <2>1, ListedAssumption
    <3>2. j \in L /\ j < i
      BY <2>1, <3>1
    <3> QED BY <1>1, <3>2
  <2> QED BY <2>1
<1>3. CountBefore(S, Listed[i]) = 0
  BY <1>2, FS_EmptySet DEF CountBefore
<1> QED BY <1>3

LEMMA NodesFollow ==
  ASSUME Ordered, NEW C, FollowClosed(C), FoundIn(C), \A t \in wanted : Follow(Final(t)) \subseteq C
  PROVE nodes \subseteq C
<1> USE DEF Ordered, Whole, NativeTypeOK
<1>1. ASSUME NEW t \in wanted, IsCompiled(t), NEW a \in CompileActions(t)
      PROVE a \in C
  <2>1. CASE ~ConsumerContext(t) /\ a \in OwnActions(t)
    <3>1. a \in ObjectsFor(t, t)
      BY <2>1 DEF OwnActions, ObjectsFor
    <3> QED BY <1>1, <2>1, <3>1, ObjectsFollow
  <2>2. CASE ~(~ConsumerContext(t) /\ a \in OwnActions(t))
    <3>1. PICK o \in BorrowedFrom(t) : \E s \in CompiledSources(o) : a = Compile(t, o, s)
      BY <1>1, <2>2 DEF CompileActions
    <3>2. PICK s \in CompiledSources(o) : a = Compile(t, o, s)
      BY <3>1
    <3>3. o \in Labels(t, "objects") /\ ConsumerContext(o)
      BY DEF BorrowedFrom
    <3>4. Kind[t] \in Consumers /\ o \in Targets
      BY <3>3 DEF Valid, ValidTarget, ValidObjects, Labels
    <3>5. o \in wanted /\ IsCompiled(o)
      BY <3>3, <3>4 DEF Next1, ConsumerContext, IsCompiled, Compiled
    <3>6. ~Unity(o)
      BY <3>3, <3>5 DEF ValidStrategies
    <3>7. a \in ObjectsFor(t, o)
      BY <3>2, <3>3, <3>6 DEF ObjectsFor, EmitsObject
    <3>8. ~ConsumerContext(t)
      BY <3>4 DEF ConsumerContext, Consumers
    <3> QED BY <1>1, <3>3, <3>4, <3>7, <3>8, ObjectsFollow
  <2> QED BY <2>1, <2>2
<1>2. ASSUME NEW t \in wanted, HasPch(t)
      PROVE Pch(t) \in C
  <2>1. IsCompiled(t) /\ ~ConsumerContext(t)
    BY <1>2 DEF HasPch, ValidStrategies
  <2>2. PICK s \in Implementations(t) : CountBefore(Implementations(t), s) = 0
    <3>1. Plain \in Implementations(t)
      BY <2>1 DEF Implementations, Sources, Plain
    <3> HIDE DEF Plain
    <3> QED BY <3>1, FirstOfBatch
  <2>3. EmitsObject(t, s)
    BY <2>2, BatchAssumption DEF EmitsObject
  <2> DEFINE a == Compile(t, t, s)
  <2>4. a \in CompileActions(t) /\ s.out = "c"
    BY <2>1, <2>2, <2>3 DEF CompileActions, OwnActions, CompiledSources, Implementations
  <2>5. a \in C /\ a \in Actions
    BY <1>1, <2>1, <2>4 DEF Actions
  <2>6. Pch(t) \in CompileInputs(t, t, s)
    BY <1>2, <2>4 DEF CompileInputs
  <2>7. CompileInputs(t, t, s) \subseteq Follow(a)
    BY DEF Follow, Inputs, Compile
  <2> QED BY <2>5, <2>6, <2>7 DEF FollowClosed
<1>3. ASSUME NEW s \in stages
      PROVE Stage(s) \in C
  <2>1. PICK t \in wanted : s \in StagesOf(t)
    BY DEF StagesUsed
  <2>2. Kind[t] = "run_target" /\ t \in Targets
    BY <2>1 DEF StagesOf
  <2>3. PICK x \in Items(t, "run_inputs") : x.is = "stage_dir" /\ x.of = s
    BY <2>1, <2>2 DEF StagesOf
  <2>4. Maker(x) = Stage(s)
    BY <2>3, NamesAssumption DEF Maker
  <2>5. Stage(s) \in Makers(Items(t, "run_inputs"))
    BY <2>3, <2>4 DEF Makers
  <2> QED BY <2>2, <2>5, FinalFollows
<1>4. \A t \in wanted : TargetNodes(t) \subseteq C
  BY <1>1, <1>2 DEF TargetNodes, FoundIn
<1> QED BY <1>3, <1>4 DEF AllNodes, FoundIn

\* the graph is what a build of the root needs
LEMMA GraphIsNeeded ==
  ASSUME FInv, Ordered, Ready, \A a \in nodes : Prepared(a)
  PROVE RootAction \in nodes /\ nodes = Everything
<1> DEFINE next == [a \in Actions |-> Inputs(a) \cup Unfollowed(a)]
<1>1. RootAction \in nodes
  BY DEF FInv, RootFound, RootAction, Ordered, AllNodes, TargetNodes
<1>2. Everything = Grown({RootAction}, next, Cardinality(nodes))
  BY DEF Everything
<1>3. IsFiniteSet(nodes) /\ Cardinality(nodes) \in Nat /\ nodes \subseteq Actions
  BY FiniteNodes, FS_CardinalityType, NodesAreActions
<1>4. \A a \in Actions : next[a] = Follow(a)
  BY DEF Follow
<1> HIDE DEF next
<1>5. \A a \in nodes : next[a] \subseteq nodes
  BY <1>3, <1>4, FollowedFound
<1>6. Everything \subseteq nodes /\ \A a \in Everything : next[a] \subseteq Everything
  <2>1. {RootAction} \in SUBSET nodes
    BY <1>1
  <2> QED BY <1>2, <1>3, <1>5, <2>1, GrownClosed
<1>7. RootAction \in Everything
  BY <1>2, <1>3, GrownLeast
<1>8. FollowClosed(Everything)
  BY <1>4, <1>6, <1>7 DEF FollowClosed
<1>9. FoundIn(Everything)
  BY <1>8 DEF FInv, Needed
<1>10. \A t \in wanted : Follow(Final(t)) \subseteq Everything
  <2>1. \A t \in wanted : Final(t) \in Everything \cap nodes
    BY <1>6, <1>9 DEF FoundIn
  <2> QED BY <1>3, <1>8, <2>1 DEF FollowClosed
<1>11. nodes \subseteq Everything
  <2> DEFINE C == Everything
  <2>1. FollowClosed(C) /\ FoundIn(C) /\ \A t \in wanted : Follow(Final(t)) \subseteq C
    BY <1>8, <1>9, <1>10
  <2> HIDE DEF C
  <2>2. nodes \subseteq C
    BY <2>1, NodesFollow
  <2> QED BY <2>2 DEF C
<1> QED BY <1>1, <1>6, <1>11

\* and Ninja runs no more of what it has written
LEMMA UpstreamWithin ==
  ASSUME Ordered, RootAction \in nodes, IsFiniteSet(written), \A a \in nodes : Prepared(a)
  PROVE Upstream({RootAction}) \subseteq nodes
<1> DEFINE S == {RootAction}
           next == [a \in S \cup written |-> Inputs(a) \cap written]
           C == nodes \cap (S \cup written)
<1>1. S \subseteq C
  OBVIOUS
<1>2. \A a \in C : next[a] \subseteq C
  BY FollowedFound DEF Follow
<1>3. Cardinality(written) \in Nat
  BY FS_CardinalityType
<1>4. Upstream(S) = Grown(S, next, Cardinality(written))
  BY DEF Upstream
<1> HIDE DEF next, S, C
<1>5. Upstream(S) \subseteq C
  BY <1>1, <1>2, <1>3, <1>4, GrownLeast
<1> QED BY <1>5 DEF S, C

-----------------------------------------------------------------------------
(* Batches: each implementation is in one, which one of its own leads.     *)

Earlier(S, k) == {i \in 1..Len(Listed) : Listed[i] \in S /\ i < k}

LEMMA EarlierFinite ==
  ASSUME NEW S, NEW k
  PROVE IsFiniteSet(Earlier(S, k)) /\ Cardinality(Earlier(S, k)) \in Nat
<1>1. IsFiniteSet(1..Len(Listed))
  BY ListedAssumption, FS_Interval
<1>2. Earlier(S, k) \subseteq 1..Len(Listed)
  BY DEF Earlier
<1> QED BY <1>1, <1>2, FS_Subset, FS_CardinalityType

LEMMA CountIsEarlier ==
  ASSUME NEW S, NEW k \in 1..Len(Listed)
  PROVE CountBefore(S, Listed[k]) = Cardinality(Earlier(S, k))
<1>1. \A j \in 1..Len(Listed) : Listed[j] = Listed[k] <=> j = k
  BY ListedAssumption
<1>2. {i \in 1..Len(Listed) : Listed[i] \in S /\ \E j \in 1..Len(Listed) : i < j /\ Listed[j] = Listed[k]}
        = Earlier(S, k)
  BY <1>1 DEF Earlier
<1> QED BY <1>2 DEF CountBefore

\* one more is listed before a later one
LEMMA CountGrows ==
  ASSUME NEW S, NEW j \in 1..Len(Listed), NEW k \in 1..Len(Listed), j < k, Listed[j] \in S
  PROVE Cardinality(Earlier(S, j)) < Cardinality(Earlier(S, k))
<1>1. Earlier(S, j) \subseteq Earlier(S, k)
  BY ListedAssumption DEF Earlier
<1>2. j \in Earlier(S, k) /\ j \notin Earlier(S, j)
  BY ListedAssumption DEF Earlier
<1>3. Earlier(S, j) # Earlier(S, k)
  BY <1>2
<1>4. /\ Cardinality(Earlier(S, j)) <= Cardinality(Earlier(S, k))
      /\ Cardinality(Earlier(S, j)) # Cardinality(Earlier(S, k))
  BY <1>1, <1>3, EarlierFinite, FS_Subset
<1> QED BY <1>4, EarlierFinite

\* and every number of them up to its own is that of one
LEMMA CountReaches ==
  ASSUME NEW S, NEW k \in 1..Len(Listed), Listed[k] \in S,
         NEW v \in Nat, v <= Cardinality(Earlier(S, k))
  PROVE \E j \in 1..Len(Listed) : Listed[j] \in S /\ Cardinality(Earlier(S, j)) = v
<1> DEFINE c(n) == Cardinality(Earlier(S, n))
           B == {n \in Nat : n + 1 <= Len(Listed) => \A u \in Nat : u < c(n + 1) =>
                   \E j \in 1..Len(Listed) : Listed[j] \in S /\ c(j) = u}
<1>0. Len(Listed) \in Nat /\ \A n : c(n) \in Nat
  BY ListedAssumption, EarlierFinite
<1>1. 0 \in B
  <2>1. Earlier(S, 0 + 1) = {}
    BY <1>0 DEF Earlier
  <2>2. c(0 + 1) = 0
    BY <2>1, FS_EmptySet
  <2> HIDE DEF c
  <2> QED BY <2>2
<1>2. ASSUME NEW n \in Nat, n \in B PROVE n + 1 \in B
  <2> DEFINE m == n + 1
  <2>1. SUFFICES ASSUME m + 1 <= Len(Listed), NEW u \in Nat, u < c(m + 1)
                 PROVE \E j \in 1..Len(Listed) : Listed[j] \in S /\ c(j) = u
    OBVIOUS
  <2>2. m \in 1..Len(Listed)
    BY <1>0, <2>1
  <2>3. CASE u < c(m)
    BY <1>2, <2>2, <2>3
  <2>4. CASE u >= c(m)
    <3>1. ASSUME Listed[m] \notin S PROVE Earlier(S, m + 1) = Earlier(S, m)
      <4>1. \A i \in 1..Len(Listed) : i < m + 1 <=> i < m \/ i = m
        BY <1>0, <2>2
      <4> QED BY <3>1, <4>1 DEF Earlier
    <3>2. ASSUME Listed[m] \in S PROVE Earlier(S, m + 1) = Earlier(S, m) \cup {m}
      <4>1. \A i \in 1..Len(Listed) : i < m + 1 <=> i < m \/ i = m
        BY <1>0, <2>2
      <4> QED BY <2>2, <3>2, <4>1 DEF Earlier
    <3>3. Listed[m] \in S
      <4> HIDE DEF m
      <4> QED BY <1>0, <2>1, <2>4, <3>1
    <3>4. m \notin Earlier(S, m)
      BY <1>0, <2>2 DEF Earlier
    <3>5. c(m + 1) = c(m) + 1
      <4> HIDE DEF m
      <4> QED BY <3>2, <3>3, <3>4, EarlierFinite, FS_AddElement
    <3>6. c(m) = u
      <4> HIDE DEF c, m
      <4> QED BY <1>0, <2>1, <2>4, <3>5
    <3> QED BY <2>2, <3>3, <3>6
  <2> QED
    <3> HIDE DEF c
    <3> QED BY <1>0, <2>3, <2>4
<1>3. Nat \subseteq B
  <2> HIDE DEF B
  <2> QED BY <1>1, <1>2, Inductive
<1>4. k - 1 \in Nat /\ (k - 1) + 1 = k
  BY <1>0
<1>5. CASE v < c(k)
  <2>1. k - 1 \in B /\ k <= Len(Listed)
    <3> HIDE DEF B, c
    <3> QED BY <1>0, <1>3, <1>4
  <2> QED BY <1>4, <1>5, <2>1
<1>6. CASE v = c(k)
  BY <1>6
<1> QED
  <2> HIDE DEF c
  <2>1. v < c(k) \/ v = c(k)
    BY <1>0 DEF c
  <2> QED BY <1>5, <1>6, <2>1

LEMMA Divided ==
  ASSUME NEW n \in Nat \ {0}, NEW q \in Nat, NEW p \in Nat
  PROVE (p \div n = q /\ p % n = 0) <=> p = n * q
<1>1. p = n * (p \div n) + (p % n) /\ p % n \in 0..(n - 1) /\ p \div n \in Nat
  BY Z3
<1>2. ASSUME p = n * q PROVE p \div n = q /\ p % n = 0
  <2> DEFINE d == p \div n
             r == p % n
  <2>1. n * q = n * d + r /\ r \in 0..(n - 1) /\ d \in Nat
    BY <1>1, <1>2
  <2> HIDE DEF d, r
  <2>2. ~(q >= d + 1)
    <3>1. SUFFICES ASSUME q >= d + 1 PROVE FALSE
      OBVIOUS
    <3>2. PICK e \in Nat : q = d + 1 + e
      <4>1. q - (d + 1) \in Nat /\ q = d + 1 + (q - (d + 1))
        BY <2>1, <3>1
      <4> QED BY <4>1
    <3>3. n * q = n * d + n + n * e /\ n * e \in Nat
      BY <2>1, <3>2
    <3> QED BY <2>1, <3>3
  <2>3. ~(d >= q + 1)
    <3>1. SUFFICES ASSUME d >= q + 1 PROVE FALSE
      OBVIOUS
    <3>2. PICK e \in Nat : d = q + 1 + e
      <4>1. d - (q + 1) \in Nat /\ d = q + 1 + (d - (q + 1))
        BY <2>1, <3>1
      <4> QED BY <4>1
    <3>3. n * d = n * q + n + n * e /\ n * e \in Nat /\ n * q \in Nat
      BY <2>1, <3>2
    <3> QED BY <2>1, <3>3
  <2>4. q = d
    BY <2>1, <2>2, <2>3
  <2>5. n * d = n * q /\ n * q \in Nat
    BY <2>4
  <2>6. r = 0
    BY <2>1, <2>5
  <2> QED BY <2>4, <2>6 DEF d, r
<1>3. ASSUME p \div n = q, p % n = 0 PROVE p = n * q
  BY <1>1, <1>3
<1> QED BY <1>2, <1>3

Leads(S, s, x) ==
  \A y \in S : /\ CountBefore(S, y) \div BatchSize = CountBefore(S, s) \div BatchSize
               /\ CountBefore(S, y) % BatchSize = 0
               <=> y = x

LEMMA OneLeads ==
  ASSUME NEW S, \A x \in S : \E k \in 1..Len(Listed) : Listed[k] = x, NEW s \in S
  PROVE \E x \in S : Leads(S, s, x)
<1> DEFINE c(k) == Cardinality(Earlier(S, k))
           q == CountBefore(S, s) \div BatchSize
<1>0. Len(Listed) \in Nat /\ \A k : c(k) \in Nat
  BY ListedAssumption, EarlierFinite
<1>1. \A k \in 1..Len(Listed) : CountBefore(S, Listed[k]) = c(k)
  BY CountIsEarlier
<1>2. PICK k \in 1..Len(Listed) : Listed[k] = s
  OBVIOUS
<1>3. q = c(k) \div BatchSize
  BY <1>1, <1>2
<1> HIDE DEF c, q
<1>4. q \in Nat /\ BatchSize * q \in Nat /\ BatchSize * q <= c(k)
  <2>1. c(k) = BatchSize * (c(k) \div BatchSize) + (c(k) % BatchSize)
    BY <1>0, BatchAssumption, Z3
  <2>2. c(k) \div BatchSize \in Nat /\ c(k) % BatchSize \in Nat
    BY <1>0, BatchAssumption, Z3
  <2>3. BatchSize * q \in Nat
    BY <1>3, <2>2, BatchAssumption
  <2> QED BY <1>0, <1>3, <2>1, <2>2, <2>3
<1>5. PICK j \in 1..Len(Listed) : Listed[j] \in S /\ c(j) = BatchSize * q
  BY <1>2, <1>4, CountReaches DEF c
<1>6. ASSUME NEW y \in S
      PROVE /\ CountBefore(S, y) \div BatchSize = q
            /\ CountBefore(S, y) % BatchSize = 0
            <=> y = Listed[j]
  <2>1. PICK i \in 1..Len(Listed) : Listed[i] = y
    OBVIOUS
  <2>2. CountBefore(S, y) = c(i)
    BY <1>1, <2>1
  <2>3. c(i) \div BatchSize = q /\ c(i) % BatchSize = 0 <=> c(i) = c(j)
    BY <1>0, <1>4, <1>5, BatchAssumption, Divided
  <2>4. c(i) = c(j) <=> i = j
    <3>1. i < j => c(i) < c(j)
      BY <2>1, CountGrows DEF c
    <3>2. j < i => c(j) < c(i)
      BY <1>5, CountGrows DEF c
    <3> QED BY <1>0, <3>1, <3>2
  <2>5. i = j <=> y = Listed[j]
    BY <2>1, ListedAssumption
  <2> QED BY <2>2, <2>3, <2>4, <2>5
<1> QED BY <1>5, <1>6 DEF q, Leads

\* every source a consumer compiles is in one of its compile actions
LEMMA CompiledOnce ==
  ASSUME Valid, refs \in Authored, NEW t \in Targets, Kind[t] \in Consumers,
         NEW s \in CompiledSources(t)
  PROVE \E x \in CompiledSources(t) : \A y \in CompiledSources(t) :
          EmitsObject(t, y) /\ s \in CompiledWith(t, t, y) <=> y = x
<1> DEFINE I == Implementations(t)
<1>1. \A x \in I : \E k \in 1..Len(Listed) : Listed[k] = x
  <2>1. \A x \in Items(t, "sources") : \E r \in refs : r.field = "sources" /\ r.item = x
    BY DEF Items
  <2>2. \A x \in Items(t, "sources") : \E k \in 1..Len(Listed) : Listed[k] = x
    BY <2>1, AuthoredAssumption
  <2>3. \E k \in 1..Len(Listed) : Listed[k] = Plain
    BY ListedAssumption
  <2> QED BY <2>2, <2>3 DEF Implementations, Sources
<1>2. \A y \in CompiledSources(t) : y.out \in {"c", "m"} /\ (y.out = "c" <=> y \in I)
  BY DEF CompiledSources, Implementations, Interfaces
<1>3. CASE ~Unity(t)
  BY <1>3 DEF EmitsObject, CompiledWith
<1>4. CASE Unity(t) /\ s.out = "m"
  <2>1. \A y \in CompiledSources(t) : s \in CompiledWith(t, t, y) <=> y = s
    BY <1>2, <1>4 DEF CompiledWith, Batch
  <2>2. EmitsObject(t, s)
    BY <1>4 DEF EmitsObject
  <2> QED BY <2>1, <2>2
<1>5. CASE Unity(t) /\ s.out = "c"
  <2>1. s \in I
    BY <1>2, <1>5
  <2>2. PICK x \in I : Leads(I, s, x)
    <3> HIDE DEF I
    <3> QED BY <1>1, <2>1, OneLeads
  <2>3. ASSUME NEW y \in CompiledSources(t)
        PROVE EmitsObject(t, y) /\ s \in CompiledWith(t, t, y) <=> y = x
    <3>1. CASE y \in I
      <4>1. y.out = "c"
        BY <1>2, <3>1
      <4>2. EmitsObject(t, y) <=> CountBefore(I, y) % BatchSize = 0
        BY <1>5, <4>1 DEF EmitsObject
      <4>3. s \in CompiledWith(t, t, y) <=>
              CountBefore(I, y) \div BatchSize = CountBefore(I, s) \div BatchSize
        BY <1>5, <2>1, <4>1 DEF CompiledWith, Batch, BatchOf
      <4> QED BY <2>2, <3>1, <4>2, <4>3 DEF Leads
    <3>2. CASE y \notin I
      <4>1. y.out = "m" /\ y # x /\ y # s
        BY <1>2, <2>1, <3>2
      <4>2. CompiledWith(t, t, y) = {y}
        BY <4>1 DEF CompiledWith
      <4> QED BY <4>1, <4>2
    <3> QED BY <3>1, <3>2
  <2>4. x \in CompiledSources(t)
    BY DEF CompiledSources
  <2> QED BY <2>3, <2>4
<1> QED BY <1>2, <1>3, <1>4, <1>5

LEMMA LinkedOnce ==
  ASSUME Valid, refs \in Authored, NEW t \in Targets, Kind[t] \in Consumers,
         NEW s \in CompiledSources(t)
  PROVE Cardinality({b \in Reads(Final(t)) : b.act = "compile" /\ b.owner = t
                                               /\ s \in CompiledWith(t, t, b.src)}) = 1
<1> DEFINE R == {b \in Reads(Final(t)) : b.act = "compile" /\ b.owner = t
                                           /\ s \in CompiledWith(t, t, b.src)}
<1>1. PICK x \in CompiledSources(t) : \A y \in CompiledSources(t) :
        EmitsObject(t, y) /\ s \in CompiledWith(t, t, y) <=> y = x
  BY CompiledOnce
<1>2. Reads(Final(t)) = FinalReads(t)
  BY DEF Reads, Final, Action, Consumers
<1>3. ~ConsumerContext(t)
  BY DEF ConsumerContext, Consumers
<1>4. \A b \in FinalReads(t) : b.act = "compile" =>
        \E o \in {t} \cup Labels(t, "objects") : b \in ObjectsFor(t, o)
  <2>1. \A items : \A b \in Makers(items) : b.act # "compile"
    BY DEF Makers, Maker, Final, Rule, Stage, Action
  <2>2. \A d : Final(d).act # "compile"
    BY DEF Final, Action
  <2> QED BY <2>1, <2>2 DEF FinalReads
<1>5. \A o : \A b \in ObjectsFor(t, o) : b.act = "compile" =>
        \E y \in CompiledSources(o) : EmitsObject(o, y) /\ b.owner = o /\ b.src = y
                                        /\ (o = t => b = Compile(t, t, y))
  <2>1. \A items : \A b \in Makers(items) : b.act # "compile"
    BY DEF Makers, Maker, Final, Rule, Stage, Action
  <2> QED BY <2>1 DEF ObjectsFor, Compile
<1>6. \A b \in R : b = Compile(t, t, x)
  BY <1>1, <1>2, <1>4, <1>5
<1>7. Compile(t, t, x) \in R
  <2>1. Compile(t, t, x) \in ObjectsFor(t, t)
    BY <1>1, <1>3 DEF ObjectsFor
  <2>2. Compile(t, t, x) \in FinalReads(t)
    BY <2>1 DEF FinalReads
  <2> QED BY <1>1, <1>2, <2>2 DEF Compile
<1>8. R = {Compile(t, t, x)}
  <2> HIDE DEF R
  <2> QED BY <1>6, <1>7
<1> QED BY <1>8, FS_Singleton

(***************************************************************************)
(* Whatever the references are: a build that succeeds locally has run      *)
(* every action that follows from the root and no other, Ninja needs none  *)
(* that is not among them, and each source of a target is compiled once.   *)
(***************************************************************************)
THEOREM SameActionsInBoth == Spec => []SameActions
<1>1. FInv => SameActions
  <2> SUFFICES ASSUME FInv, phase = "built"
               PROVE /\ done = Everything
                     /\ Upstream({RootAction}) \subseteq done
                     /\ \A a \in done : a.act = "final" /\ Kind[a.of] \in Consumers =>
                          \A s \in CompiledSources(a.of) :
                            Cardinality({b \in Reads(a) : b.act = "compile" /\ b.owner = a.of
                                          /\ s \in CompiledWith(a.of, a.of, b.src)}) = 1
    BY DEF SameActions
  <2>1. Ordered /\ Ready
    BY ConnectedIsOrdered DEF FInv, Connected, Ready
  <2>2. done = nodes /\ \A a \in nodes : Prepared(a)
    BY DEF FInv, AllRan
  <2>3. RootAction \in nodes /\ nodes = Everything
    BY <2>1, <2>2, GraphIsNeeded
  <2>4. Upstream({RootAction}) \subseteq nodes
    BY <2>1, <2>2, <2>3, UpstreamWithin DEF FInv
  <2>5. ASSUME NEW a \in done, a.act = "final", Kind[a.of] \in Consumers,
               NEW s \in CompiledSources(a.of)
        PROVE Cardinality({b \in Reads(a) : b.act = "compile" /\ b.owner = a.of
                                              /\ s \in CompiledWith(a.of, a.of, b.src)}) = 1
    <3>1. a = Final(a.of) /\ a.of \in Targets /\ Valid
      BY <2>1, <2>2, <2>5, NodeForms DEF Ordered, Whole
    <3> QED BY <2>5, <3>1, LinkedOnce DEF FInv
  <2> QED BY <2>2, <2>3, <2>4, <2>5
<1> QED BY <1>1, FinishInvariance, PTL

-----------------------------------------------------------------------------
(***************************************************************************)
(* The walk of the Ninja backend.  What is on its stack is told as two     *)
(* sets, the calls to be made and the actions to be written.               *)
(***************************************************************************)

LEMMA ToSetOf ==
  ASSUME NEW S, NEW s \in Seq(S)
  PROVE  /\ ToSet(s) \subseteq S
         /\ \A x : x \in ToSet(s) <=> \E i \in 1..Len(s) : s[i] = x
BY DEF ToSet

LEMMA ToSetConcat ==
  ASSUME NEW S, NEW s \in Seq(S), NEW t \in Seq(S)
  PROVE s \o t \in Seq(S) /\ ToSet(s \o t) = ToSet(s) \cup ToSet(t)
<1>1. s \o t \in Seq(S) /\ Len(s \o t) = Len(s) + Len(t)
  OBVIOUS
<1>2. ASSUME NEW x \in ToSet(s) PROVE x \in ToSet(s \o t)
  <2>1. PICK i \in 1..Len(s) : s[i] = x
    BY ToSetOf
  <2>2. i \in 1..Len(s \o t) /\ (s \o t)[i] = x
    BY <2>1
  <2> QED BY <1>1, <2>2, ToSetOf
<1>3. ASSUME NEW x \in ToSet(t) PROVE x \in ToSet(s \o t)
  <2>1. PICK i \in 1..Len(t) : t[i] = x
    BY ToSetOf
  <2>2. Len(s) + i \in 1..Len(s \o t) /\ (s \o t)[Len(s) + i] = x
    BY <2>1
  <2> QED BY <1>1, <2>2, ToSetOf
<1>4. ASSUME NEW x \in ToSet(s \o t) PROVE x \in ToSet(s) \cup ToSet(t)
  <2>1. PICK i \in 1..Len(s \o t) : (s \o t)[i] = x
    BY <1>1, ToSetOf
  <2>2. CASE i <= Len(s)
    <3>1. i \in 1..Len(s) /\ s[i] = x
      BY <2>1, <2>2
    <3> QED BY <3>1, ToSetOf
  <2>3. CASE i > Len(s)
    <3>1. i - Len(s) \in 1..Len(t) /\ t[i - Len(s)] = x
      BY <1>1, <2>1, <2>3
    <3> QED BY <3>1, ToSetOf
  <2> QED BY <2>2, <2>3
<1> QED BY <1>1, <1>2, <1>3, <1>4

LEMMA ToSetHead ==
  ASSUME NEW S, NEW s \in Seq(S), s # << >>
  PROVE /\ Head(s) \in S /\ Tail(s) \in Seq(S)
        /\ ToSet(s) = {Head(s)} \cup ToSet(Tail(s))
<1>1. Len(s) \in Nat \ {0} /\ Head(s) = s[1] /\ s[1] \in S
  OBVIOUS
<1>2. Tail(s) \in Seq(S) /\ Len(Tail(s)) = Len(s) - 1 /\ \A i \in 1..(Len(s) - 1) : Tail(s)[i] = s[i + 1]
  OBVIOUS
<1>3. ASSUME NEW x \in ToSet(s), x # s[1] PROVE x \in ToSet(Tail(s))
  <2>1. PICK i \in 1..Len(s) : s[i] = x
    BY ToSetOf
  <2>2. i - 1 \in 1..(Len(s) - 1) /\ Tail(s)[i - 1] = x
    BY <1>1, <1>2, <1>3, <2>1
  <2> QED BY <1>2, <2>2, ToSetOf
<1>4. ASSUME NEW x \in ToSet(Tail(s)) PROVE x \in ToSet(s)
  <2>1. PICK i \in 1..(Len(s) - 1) : Tail(s)[i] = x
    BY <1>2, ToSetOf
  <2>2. i + 1 \in 1..Len(s) /\ s[i + 1] = x
    BY <1>1, <1>2, <2>1
  <2> QED BY <2>2, ToSetOf
<1>5. s[1] \in ToSet(s)
  BY <1>1, ToSetOf
<1> QED BY <1>1, <1>2, <1>3, <1>4, <1>5

\* a finite set, as a sequence
LEMMA InSequence ==
  ASSUME NEW S, IsFiniteSet(S)
  PROVE SetToSeq(S) \in Seq(S) /\ ToSet(SetToSeq(S)) = S
<1> DEFINE n == Cardinality(S)
           f == SetToSeq(S)
<1>1. n \in Nat /\ ExistsBijection(1..n, S)
  BY FS_CardinalityType
<1>2. \E g \in [1..n -> S] : IsInjective(g)
  BY <1>1 DEF ExistsBijection, Bijection, Injection
<1>3. f \in [1..n -> S] /\ IsInjective(f)
  BY <1>2 DEF SetToSeq
<1> HIDE DEF f
<1>4. f \in Seq(S)
  BY <1>1, <1>3
<1>5. DOMAIN f = 1..n
  BY <1>3
<1>6. IsFiniteSet(1..n) /\ Cardinality(1..n) = n
  BY <1>1, FS_Interval
<1>7. ToSet(f) = S
  <2> DEFINE T == {f[i] : i \in 1..n}
  <2>1. f \in Surjection(1..n, T)
    BY <1>3 DEF Surjection
  <2>2. f \in Injection(1..n, T)
    BY <1>3 DEF Injection
  <2>3. T \subseteq S /\ T = ToSet(f)
    BY <1>3, <1>5 DEF ToSet
  <2> HIDE DEF T
  <2>4. IsFiniteSet(T) /\ Cardinality(T) = n
    BY <1>6, <2>1, <2>2, FS_Surjection
  <2>5. T = S
    BY <2>3, <2>4, FS_Subset
  <2> QED BY <2>3, <2>5
<1> QED BY <1>4, <1>7 DEF f

-----------------------------------------------------------------------------
(* The calls a statement makes, as sets.                                   *)

Calls ==
  {Call(c, t) : c \in {"closure", "target", "strategies"}, t \in Targets}
    \cup {Call("rule", g) : g \in Genrules} \cup {Call("stage", s) : s \in Stages}

\* s is a sequence of the calls of X
Lists(s, X) == s \in Seq(Calls) /\ ToSet(s) = X

LEMMA ListsConcat ==
  ASSUME NEW s, NEW X, Lists(s, X), NEW t, NEW Y, Lists(t, Y)
  PROVE Lists(s \o t, X \cup Y)
BY ToSetConcat DEF Lists

\* the action a call is about
Called(c) ==
  CASE c.call = "rule"  -> Rule(c.of)
    [] c.call = "stage" -> Stage(c.of)
    [] OTHER            -> Final(c.of)

MakersCalled(items) == {MakerCall(i) : i \in {x \in items : x.is # "plain"}}
RulesCalled(gs) == {Call("rule", g) : g \in gs}

FinalCalled(t) ==
  RulesCalled(DepRules(t)) \cup
    IF Kind[t] = "run_target"
    THEN MakersCalled(Items(t, "run_inputs")) \cup MakersCalled(Tokens(Items(t, "run_command")))
    ELSE IF IsCompiled(t)
    THEN {Call("strategies", t)} \cup RulesCalled(Consumes(t)) \cup MakersCalled(Items(t, "link_inputs"))
           \cup MakersCalled(CompileUsage(t)) \cup MakersCalled(LinkUsage(t))
    ELSE {}

OtherItems(g) == {i \in GenruleItems(g) : i.is = "path" => i.of # g}

\* what can be called for: something that is referred to and has a maker
Callable(items) ==
  /\ items \subseteq {r.item : r \in refs}
  /\ \A i \in items : /\ i.is \in {"token", "path", "stage_dir", "plain"}
                      /\ i.is = "token" => HasArtifact(i.of)
                      /\ i.is = "path" => i.of \in Genrules
                      /\ i.is = "stage_dir" => i.of \in Stages

LEMMA ItemsCallable ==
  ASSUME Valid
  PROVE /\ \A o : \A f \in {"tool", "inputs", "args", "files", "link_inputs", "run_inputs",
                            "run_command"} : Callable(Items(o, f))
        /\ \A t : Callable(CompileUsage(t)) /\ Callable(LinkUsage(t))
<1>1. \A o, f : Items(o, f) \subseteq {r.item : r \in refs}
  BY DEF Items
<1>2. \A o : \A f \in {"tool", "inputs", "args", "files", "link_inputs", "run_inputs",
                       "run_command", "compile_usage", "link_usage"} : Callable(Items(o, f))
  BY <1>1, ItemShapes DEF Callable
<1>3. \A t : Callable(CompileUsage(t)) /\ Callable(LinkUsage(t))
  BY <1>2 DEF Callable, CompileUsage, LinkUsage
<1> QED BY <1>2, <1>3

LEMMA MakerCallsAre ==
  ASSUME IsFiniteSet(refs), NEW items, Callable(items)
  PROVE /\ MakerCalls(items) \in Seq(Calls)
        /\ ToSet(MakerCalls(items)) = MakersCalled(items)
        /\ {Called(c) : c \in MakersCalled(items)} = Makers(items)
        /\ \A c \in MakersCalled(items) : c.call \notin {"target", "strategies"}
<1> DEFINE S == {x \in items : x.is # "plain"}
<1>1. IsFiniteSet(MakersCalled(items))
  <2> DEFINE i == [r \in refs |-> r.item]
             m == [x \in S |-> MakerCall(x)]
  <2>1. IsFiniteSet({i[r] : r \in DOMAIN i})
    <3>1. DOMAIN i = refs
      OBVIOUS
    <3> HIDE DEF i
    <3> QED BY <3>1, ImageFinite
  <2>2. S \subseteq {i[r] : r \in DOMAIN i}
    BY DEF Callable
  <2> HIDE DEF i
  <2>3. IsFiniteSet(S)
    BY <2>1, <2>2, FS_Subset
  <2>4. IsFiniteSet({m[x] : x \in DOMAIN m})
    <3>1. DOMAIN m = S
      OBVIOUS
    <3> HIDE DEF m, S
    <3> QED BY <2>3, <3>1, ImageFinite
  <2>5. {m[x] : x \in DOMAIN m} = MakersCalled(items)
    BY DEF MakersCalled
  <2> HIDE DEF m
  <2> QED BY <2>4, <2>5
<1>2. \A i \in S : MakerCall(i) \in Calls /\ Called(MakerCall(i)) = Maker(i)
                     /\ MakerCall(i).call \notin {"target", "strategies"}
  <2> TAKE i \in S
  <2>1. CASE i.is = "stage_dir"
    <3>1. i.of \in Stages /\ i.of \notin Targets
      BY <2>1, NamesAssumption DEF Callable
    <3>2. MakerCall(i) = Call("stage", i.of) /\ Maker(i) = Stage(i.of)
      BY <2>1, <3>1 DEF MakerCall, Maker
    <3> QED BY <3>1, <3>2 DEF Calls, Called, Call
  <2>2. CASE i.is # "stage_dir" /\ i.of \in Targets
    <3>1. MakerCall(i) = Call("closure", i.of) /\ Maker(i) = Final(i.of)
      BY <2>2 DEF MakerCall, Maker
    <3> QED BY <2>2, <3>1 DEF Calls, Called, Call
  <2>3. CASE i.is # "stage_dir" /\ i.of \notin Targets
    <3>1. MakerCall(i) = Call("rule", i.of) /\ Maker(i) = Rule(i.of)
      BY <2>3 DEF MakerCall, Maker
    <3>2. i.of \in Genrules
      BY <2>3 DEF Callable, HasArtifact
    <3> QED BY <3>1, <3>2 DEF Calls, Called, Call
  <2> QED BY <2>1, <2>2, <2>3
<1>3. MakersCalled(items) \subseteq Calls
  BY <1>2 DEF MakersCalled
<1>4. /\ SetToSeq(MakersCalled(items)) \in Seq(MakersCalled(items))
      /\ ToSet(SetToSeq(MakersCalled(items))) = MakersCalled(items)
  BY <1>1, InSequence
<1>5. MakerCalls(items) = SetToSeq(MakersCalled(items))
  BY DEF MakerCalls, MakersCalled
<1>6. MakerCalls(items) \in Seq(Calls)
  BY <1>3, <1>4, <1>5
<1>7. {Called(c) : c \in MakersCalled(items)} = Makers(items)
  BY <1>2 DEF MakersCalled, Makers
<1> QED BY <1>2, <1>4, <1>5, <1>6, <1>7 DEF MakersCalled

LEMMA RuleCallsAre ==
  ASSUME NEW gs \in SUBSET Genrules
  PROVE RuleCalls(gs) \in Seq(Calls) /\ ToSet(RuleCalls(gs)) = RulesCalled(gs)
<1> DEFINE f == [g \in gs |-> Call("rule", g)]
<1>1. IsFiniteSet({f[g] : g \in DOMAIN f})
  <2>1. DOMAIN f = gs /\ IsFiniteSet(gs)
    BY NamesAssumption, FS_Subset
  <2> HIDE DEF f
  <2> QED BY <2>1, ImageFinite
<1>2. {f[g] : g \in DOMAIN f} = RulesCalled(gs)
  BY DEF RulesCalled
<1> HIDE DEF f
<1>3. /\ SetToSeq(RulesCalled(gs)) \in Seq(RulesCalled(gs))
      /\ ToSet(SetToSeq(RulesCalled(gs))) = RulesCalled(gs)
  BY <1>1, <1>2, InSequence
<1>4. RulesCalled(gs) \subseteq Calls
  BY DEF RulesCalled, Calls
<1>5. RuleCalls(gs) = SetToSeq(RulesCalled(gs))
  BY DEF RuleCalls, RulesCalled
<1> QED BY <1>3, <1>4, <1>5

LEMMA GenruleCallsAre ==
  ASSUME Valid, IsFiniteSet(refs), NEW g
  PROVE /\ Callable(OtherItems(g))
        /\ GenruleCalls(g) \in Seq(Calls)
        /\ ToSet(GenruleCalls(g)) = MakersCalled(OtherItems(g))
<1>1. Callable(OtherItems(g))
  BY ItemsCallable DEF Callable, OtherItems, GenruleItems
<1>2. GenruleCalls(g) = MakerCalls(OtherItems(g))
  BY DEF GenruleCalls, OtherItems, GenruleItems
<1> QED BY <1>1, <1>2, MakerCallsAre

LEMMA StageCallsAre ==
  ASSUME Valid, IsFiniteSet(refs), NEW s
  PROVE /\ StageCalls(s) \in Seq(Calls)
        /\ ToSet(StageCalls(s)) = MakersCalled(Items(s, "files"))
BY ItemsCallable, MakerCallsAre DEF StageCalls

LEMMA TargetCallsAre ==
  ASSUME Valid, IsFiniteSet(refs), NEW t \in Targets
  PROVE Lists(TargetCalls(t), FinalCalled(t))
<1>0. DepRules(t) \subseteq Genrules /\ Consumes(t) \subseteq Genrules
  BY FoundExist DEF Consumes, ConsumedRules
<1> DEFINE D == RuleCalls(DepRules(t))
           XD == RulesCalled(DepRules(t))
<1>1. Lists(D, XD)
  BY <1>0, RuleCallsAre DEF Lists
<1>2. CASE Kind[t] = "run_target"
  <2> DEFINE A == MakerCalls(Items(t, "run_inputs"))
             XA == MakersCalled(Items(t, "run_inputs"))
             B == MakerCalls(Tokens(Items(t, "run_command")))
             XB == MakersCalled(Tokens(Items(t, "run_command")))
  <2>1. Lists(A, XA)
    BY ItemsCallable, MakerCallsAre DEF Lists
  <2>2. Callable(Tokens(Items(t, "run_command")))
    BY ItemsCallable DEF Callable, Tokens
  <2>3. Lists(B, XB)
    BY <2>2, MakerCallsAre DEF Lists
  <2>4. TargetCalls(t) = D \o (A \o B)
    BY <1>2 DEF TargetCalls, RunCalls, IsCompiled, Compiled, Consumers
  <2>5. FinalCalled(t) = XD \cup (XA \cup XB)
    BY <1>2 DEF FinalCalled
  <2> HIDE DEF D, A, B, XD, XA, XB
  <2>6. Lists(A \o B, XA \cup XB)
    BY <2>1, <2>3, ListsConcat
  <2>7. Lists(D \o (A \o B), XD \cup (XA \cup XB))
    BY <1>1, <2>6, ListsConcat
  <2> QED BY <2>4, <2>5, <2>7
<1>3. CASE IsCompiled(t)
  <2> DEFINE A == <<Call("strategies", t)>>
             XA == {Call("strategies", t)}
             B == RuleCalls(Consumes(t))
             XB == RulesCalled(Consumes(t))
             L == MakerCalls(Items(t, "link_inputs"))
             XL == MakersCalled(Items(t, "link_inputs"))
             U == MakerCalls(CompileUsage(t))
             XU == MakersCalled(CompileUsage(t))
             V == MakerCalls(LinkUsage(t))
             XV == MakersCalled(LinkUsage(t))
  <2>1. Lists(A, XA)
    <3>1. Call("strategies", t) \in Calls
      BY DEF Calls
    <3>2. A \in Seq(Calls) /\ DOMAIN A = {1} /\ A[1] = Call("strategies", t)
      BY <3>1
    <3> HIDE DEF A
    <3> QED BY <3>2 DEF ToSet, Lists
  <2>2. Lists(B, XB)
    BY <1>0, RuleCallsAre DEF Lists
  <2>3. Lists(L, XL)
    BY ItemsCallable, MakerCallsAre DEF Lists
  <2>4. Lists(U, XU)
    BY ItemsCallable, MakerCallsAre DEF Lists
  <2>5. Lists(V, XV)
    BY ItemsCallable, MakerCallsAre DEF Lists
  <2>6. TargetCalls(t) = D \o ((((A \o B) \o L) \o U) \o V)
    BY <1>3 DEF TargetCalls, IsCompiled, Compiled, Consumers
  <2>7. FinalCalled(t) = XD \cup ((((XA \cup XB) \cup XL) \cup XU) \cup XV)
    BY <1>3 DEF FinalCalled, IsCompiled, Compiled, Consumers
  <2> HIDE DEF A, B, L, U, V, D, XD, XA, XB, XL, XU, XV
  <2>8. Lists(A \o B, XA \cup XB)
    BY <2>1, <2>2, ListsConcat
  <2>9. Lists((A \o B) \o L, (XA \cup XB) \cup XL)
    BY <2>3, <2>8, ListsConcat
  <2>10. Lists(((A \o B) \o L) \o U, ((XA \cup XB) \cup XL) \cup XU)
    BY <2>4, <2>9, ListsConcat
  <2>11. Lists((((A \o B) \o L) \o U) \o V, (((XA \cup XB) \cup XL) \cup XU) \cup XV)
    BY <2>5, <2>10, ListsConcat
  <2>12. Lists(D \o ((((A \o B) \o L) \o U) \o V), XD \cup ((((XA \cup XB) \cup XL) \cup XU) \cup XV))
    BY <1>1, <2>11, ListsConcat
  <2> QED BY <2>6, <2>7, <2>12
<1>4. CASE Kind[t] # "run_target" /\ ~IsCompiled(t)
  <2>1. TargetCalls(t) = D \o << >>
    BY <1>4 DEF TargetCalls
  <2>2. FinalCalled(t) = XD
    BY <1>4 DEF FinalCalled
  <2> HIDE DEF D, XD
  <2>3. D \o << >> = D
    BY <1>1 DEF Lists
  <2> QED BY <1>1, <2>1, <2>2, <2>3
<1> QED BY <1>2, <1>3, <1>4

\* the targets of a closure come in the order of what they depend on
ClosureCalled(t) == {Call("target", u) : u \in Closure(t)}

LEMMA ClosureCallsAre ==
  ASSUME NEW t \in Targets
  PROVE Lists(ClosureCalls(t), ClosureCalled(t))
<1> DEFINE n == Cardinality(Targets)
           size == [u \in Targets |-> Cardinality(Closure(u))]
           OfSize(k) == {u \in Closure(t) : Cardinality(Closure(u)) = k}
           Sized(k) == {Call("target", u) : u \in OfSize(k)}
           Upward(h, m) == h = [k \in 0..m |-> IF k = 0 THEN << >> ELSE h[k - 1] \o SetToSeq(Sized(k))]
           Smaller(m) == {Call("target", u) : u \in {v \in Closure(t) : size[v] <= m}}
<1>0. n \in Nat /\ Closure(t) \subseteq Targets
  BY NamesAssumption, FS_CardinalityType, ClosureClosed
<1>1. \A u \in Closure(t) : size[u] \in 1..n
  <2> SUFFICES ASSUME NEW u \in Closure(t) PROVE size[u] \in 1..n
    OBVIOUS
  <2>1. u \in Targets /\ Closure(u) \subseteq Targets /\ u \in Closure(u)
    BY <1>0, ClosureClosed
  <2>2. IsFiniteSet(Closure(u)) /\ Cardinality(Closure(u)) \in Nat /\ Cardinality(Closure(u)) <= n
    BY <2>1, NamesAssumption, FS_Subset, FS_CardinalityType
  <2>3. Cardinality(Closure(u)) # 0
    BY <2>1, <2>2, FS_EmptySet
  <2> QED BY <1>0, <2>1, <2>2, <2>3
<1>2. \A k : Lists(SetToSeq(Sized(k)), Sized(k))
  <2> TAKE k
  <2> DEFINE f == [u \in OfSize(k) |-> Call("target", u)]
  <2>1. IsFiniteSet({f[u] : u \in DOMAIN f})
    <3>1. DOMAIN f = OfSize(k) /\ IsFiniteSet(OfSize(k))
      BY <1>0, NamesAssumption, FS_Subset
    <3> HIDE DEF f
    <3> QED BY <3>1, ImageFinite
  <2>2. {f[u] : u \in DOMAIN f} = Sized(k)
    OBVIOUS
  <2>3. Sized(k) \subseteq Calls
    BY <1>0 DEF Calls
  <2> HIDE DEF f, Sized
  <2>4. SetToSeq(Sized(k)) \in Seq(Sized(k)) /\ ToSet(SetToSeq(Sized(k))) = Sized(k)
    BY <2>1, <2>2, InSequence
  <2> QED BY <2>3, <2>4 DEF Lists
<1>3. \A m \in Nat : \E h : Upward(h, m)
  <2> DEFINE B == {m \in Nat : \E h : Upward(h, m)}
  <2>1. 0 \in B
    <3> DEFINE h == [k \in 0..0 |-> << >>]
    <3>1. Upward(h, 0)
      OBVIOUS
    <3> HIDE DEF h, Upward
    <3> QED BY <3>1
  <2>2. ASSUME NEW m \in Nat, m \in B PROVE m + 1 \in B
    <3>1. PICK h : Upward(h, m)
      BY <2>2
    <3> DEFINE g == [k \in 0..(m + 1) |-> IF k = m + 1 THEN h[m] \o SetToSeq(Sized(m + 1)) ELSE h[k]]
    <3>2. \A k \in 0..m : h[k] = IF k = 0 THEN << >> ELSE h[k - 1] \o SetToSeq(Sized(k))
      <4> HIDE DEF Sized
      <4> QED BY <3>1
    <3>3. ASSUME NEW k \in 0..(m + 1)
          PROVE g[k] = IF k = 0 THEN << >> ELSE g[k - 1] \o SetToSeq(Sized(k))
      <4> HIDE DEF Sized
      <4>1. CASE k = 0
        BY <3>2, <4>1
      <4>2. CASE k = m + 1
        <5>1. k # 0 /\ k - 1 = m /\ m \in 0..(m + 1) /\ m # m + 1
          BY <4>2
        <5>2. g[k - 1] = h[m]
          BY <5>1
        <5> QED BY <4>2, <5>1, <5>2
      <4>3. CASE k # 0 /\ k # m + 1
        <5>1. k \in 0..m /\ k - 1 \in 0..m /\ k - 1 \in 0..(m + 1) /\ k - 1 # m + 1
          BY <4>3
        <5>2. g[k] = h[k] /\ g[k - 1] = h[k - 1]
          BY <4>3, <5>1
        <5> QED BY <3>2, <4>3, <5>1, <5>2
      <4> QED BY <4>1, <4>2, <4>3
    <3>4. Upward(g, m + 1)
      <4>1. g = [k \in 0..(m + 1) |-> g[k]]
        OBVIOUS
      <4> HIDE DEF g, Sized
      <4> QED BY <3>3, <4>1
    <3> HIDE DEF g, Upward
    <3> QED BY <3>4
  <2>3. Nat \subseteq B
    <3> HIDE DEF B
    <3> QED BY <2>1, <2>2, Inductive
  <2> QED BY <2>3
<1> DEFINE h == CHOOSE f : Upward(f, n)
<1>4. ClosureCalls(t) = h[n]
  BY DEF ClosureCalls
<1>5. Upward(h, n)
  <2> HIDE DEF Upward
  <2> QED BY <1>0, <1>3
<1> HIDE DEF h
<1>6. \A k \in 0..n : h[k] = IF k = 0 THEN << >> ELSE h[k - 1] \o SetToSeq(Sized(k))
  <2> HIDE DEF Sized
  <2> QED BY <1>5
<1> HIDE DEF Upward
<1>7. \A k \in 0..n : Lists(h[k], Smaller(k))
  <2> DEFINE B == {k \in Nat : k <= n => Lists(h[k], Smaller(k))}
  <2>1. 0 \in B
    <3>1. Smaller(0) = {}
      <4> HIDE DEF size
      <4> QED BY <1>1
    <3>2. h[0] = << >>
      <4>1. 0 \in 0..n
        BY <1>0
      <4> HIDE DEF Sized, Smaller
      <4> QED BY <1>6, <4>1
    <3>3. Lists(<< >>, {})
      BY DEF Lists, ToSet
    <3> HIDE DEF Smaller
    <3> QED BY <3>1, <3>2, <3>3
  <2>2. ASSUME NEW k \in Nat, k \in B PROVE k + 1 \in B
    <3> DEFINE next == SetToSeq(Sized(k + 1))
    <3>1. SUFFICES ASSUME k + 1 <= n PROVE Lists(h[k + 1], Smaller(k + 1))
      <4> HIDE DEF Smaller
      <4> QED OBVIOUS
    <3>2. k + 1 \in 0..n /\ k + 1 # 0 /\ (k + 1) - 1 = k /\ k <= n
      BY <1>0, <3>1
    <3>3. h[k + 1] = h[k] \o next
      <4> HIDE DEF Sized
      <4> QED BY <1>6, <3>2
    <3>4. Lists(h[k], Smaller(k)) /\ Lists(next, Sized(k + 1))
      <4>1. Lists(h[k], Smaller(k))
        <5> HIDE DEF Smaller
        <5> QED BY <2>2, <3>2
      <4> QED BY <1>2, <4>1
    <3>5. Smaller(k) \cup Sized(k + 1) = Smaller(k + 1)
      <4>1. \A u \in Closure(t) : size[u] <= k + 1 <=> size[u] <= k \/ size[u] = k + 1
        <5> HIDE DEF size
        <5> QED BY <1>0, <1>1
      <4>2. \A u \in Closure(t) : size[u] = Cardinality(Closure(u))
        BY <1>0
      <4> HIDE DEF size
      <4> QED BY <4>1, <4>2
    <3> HIDE DEF next, Smaller, Sized
    <3>6. Lists(h[k] \o next, Smaller(k) \cup Sized(k + 1))
      BY <3>4, ListsConcat
    <3> QED BY <3>3, <3>5, <3>6
  <2>3. Nat \subseteq B
    <3> HIDE DEF B
    <3> QED BY <2>1, <2>2, Inductive
  <2>4. \A k \in 0..n : k \in B /\ k <= n
    <3> HIDE DEF B
    <3> QED BY <1>0, <2>3
  <2> HIDE DEF Smaller
  <2> QED BY <2>4
<1>8. Smaller(n) = ClosureCalled(t)
  <2>1. \A u \in Closure(t) : size[u] <= n
    <3> HIDE DEF size
    <3> QED BY <1>0, <1>1
  <2> HIDE DEF size
  <2> QED BY <2>1 DEF ClosureCalled
<1> HIDE DEF Smaller
<1> QED BY <1>0, <1>4, <1>7, <1>8

-----------------------------------------------------------------------------
(* The moves of the stack.                                                 *)

Pending(s) == UNION {ToSet(s[k].calls) : k \in 1..Len(s)}
Writing(s) == {s[k].writes : k \in 1..Len(s)}

\* what a frame may be about
Headed ==
  {Nothing} \cup {Final(t) : t \in Targets} \cup {Rule(g) : g \in Genrules}
    \cup {Stage(s) : s \in Stages}
Frames == [writes : Headed, calls : Seq(Calls)]

LEMMA OnTop ==
  ASSUME NEW S, NEW s \in Seq(S), NEW f \in S
  PROVE /\ <<f>> \o s \in Seq(S) /\ Len(<<f>> \o s) = Len(s) + 1
        /\ (<<f>> \o s)[1] = f
        /\ \A i \in 1..Len(s) : (<<f>> \o s)[i + 1] = s[i]
        /\ \A i \in 1..(Len(s) + 1) : i # 1 => i - 1 \in 1..Len(s) /\ (<<f>> \o s)[i] = s[i - 1]
OBVIOUS

LEMMA TopAndTail ==
  ASSUME NEW S, NEW s \in Seq(S), s # << >>
  PROVE Head(s) \in S /\ Tail(s) \in Seq(S) /\ s = <<Head(s)>> \o Tail(s)
OBVIOUS

LEMMA OneMore ==
  ASSUME NEW s \in Seq(Frames), NEW f \in Frames
  PROVE /\ <<f>> \o s \in Seq(Frames)
        /\ Pending(<<f>> \o s) = ToSet(f.calls) \cup Pending(s)
        /\ Writing(<<f>> \o s) = {f.writes} \cup Writing(s)
<1> DEFINE q == <<f>> \o s
           n == Len(s)
<1>1. /\ q \in Seq(Frames) /\ Len(q) = n + 1 /\ q[1] = f /\ n \in Nat
      /\ \A i \in 1..n : q[i + 1] = s[i]
      /\ \A i \in 1..(n + 1) : i # 1 => i - 1 \in 1..n /\ q[i] = s[i - 1]
  BY OnTop
<1> HIDE DEF q, n
<1>2. \A i \in 1..n : i + 1 \in 1..(n + 1)
  BY <1>1
<1>3. 1 \in 1..(n + 1)
  BY <1>1
<1>4. UNION {ToSet(q[k].calls) : k \in 1..(n + 1)}
        = ToSet(f.calls) \cup UNION {ToSet(s[k].calls) : k \in 1..n}
  <2>1. ASSUME NEW k \in 1..(n + 1)
        PROVE ToSet(q[k].calls) \subseteq ToSet(f.calls) \cup UNION {ToSet(s[j].calls) : j \in 1..n}
    <3>1. CASE k = 1
      BY <1>1, <3>1
    <3>2. CASE k # 1
      BY <1>1, <3>2
    <3> QED BY <3>1, <3>2
  <2>2. ASSUME NEW k \in 1..n
        PROVE ToSet(s[k].calls) \subseteq UNION {ToSet(q[j].calls) : j \in 1..(n + 1)}
    <3>1. q[k + 1] = s[k] /\ k + 1 \in 1..(n + 1)
      BY <1>1, <1>2
    <3> QED BY <3>1
  <2>3. ToSet(f.calls) \subseteq UNION {ToSet(q[j].calls) : j \in 1..(n + 1)}
    BY <1>1, <1>3
  <2> QED BY <2>1, <2>2, <2>3
<1>5. {q[k].writes : k \in 1..(n + 1)} = {f.writes} \cup {s[k].writes : k \in 1..n}
  BY <1>1, <1>2, <1>3
<1> QED BY <1>1, <1>4, <1>5 DEF q, n, Pending, Writing

LEMMA FrameWith ==
  ASSUME NEW f \in Frames, NEW q
  PROVE [f EXCEPT !.calls = q] = Frame(f.writes, q)
BY DEF Frames, Frame

LEMMA CallForms ==
  ASSUME NEW c \in Calls
  PROVE /\ c.call \in {"closure", "target", "strategies", "rule", "stage"}
        /\ c = Call(c.call, c.of)
        /\ c.call \in {"closure", "target", "strategies"} => c.of \in Targets
        /\ c.call = "rule" => c.of \in Genrules
        /\ c.call = "stage" => c.of \in Stages
BY DEF Calls, Call

\* the call c is made, for which those of new are to be made
Goes(c, new) ==
  /\ c \in Pending(stack)
  /\ Pending(stack) \subseteq {c} \cup Pending(stack')
  /\ Pending(stack') \subseteq Pending(stack) \cup new
  /\ new \subseteq Pending(stack')

LEMMA TopIs ==
  ASSUME stack \in Seq(Frames), stack # << >>
  PROVE /\ Top \in Frames /\ Tail(stack) \in Seq(Frames)
        /\ stack = <<Top>> \o Tail(stack)
        /\ Pending(stack) = ToSet(Top.calls) \cup Pending(Tail(stack))
        /\ Writing(stack) = {Top.writes} \cup Writing(Tail(stack))
<1>1. Head(stack) \in Frames /\ Tail(stack) \in Seq(Frames) /\ stack = <<Head(stack)>> \o Tail(stack)
  BY TopAndTail
<1> QED BY <1>1, OneMore DEF Top

LEMMA RestIs ==
  ASSUME stack \in Seq(Frames), NEW k, Calling(k)
  PROVE /\ Next1Call \in Calls /\ Next1Call.call = k
        /\ Tail(Top.calls) \in Seq(Calls)
        /\ Rest = <<Frame(Top.writes, Tail(Top.calls))>> \o Tail(stack)
        /\ Rest \in Seq(Frames) /\ Writing(Rest) = Writing(stack)
        /\ ToSet(Top.calls) = {Next1Call} \cup ToSet(Tail(Top.calls))
        /\ Pending(stack) = {Next1Call} \cup Pending(Rest)
<1>1. stack # << >> /\ Top.calls # << >> /\ Next1Call.call = k
  BY DEF Calling
<1>2. /\ Top \in Frames /\ Tail(stack) \in Seq(Frames)
      /\ Pending(stack) = ToSet(Top.calls) \cup Pending(Tail(stack))
      /\ Writing(stack) = {Top.writes} \cup Writing(Tail(stack))
  BY <1>1, TopIs
<1>3. Top.calls \in Seq(Calls) /\ Top.writes \in Headed
  BY <1>2 DEF Frames
<1>4. /\ Next1Call \in Calls /\ Tail(Top.calls) \in Seq(Calls)
      /\ ToSet(Top.calls) = {Next1Call} \cup ToSet(Tail(Top.calls))
  BY <1>1, <1>3, ToSetHead DEF Next1Call
<1>5. [Top EXCEPT !.calls = Tail(Top.calls)] = Frame(Top.writes, Tail(Top.calls))
  BY <1>2, FrameWith
<1>6. Rest = <<Frame(Top.writes, Tail(Top.calls))>> \o Tail(stack)
  BY <1>5 DEF Rest
<1> DEFINE f == Frame(Top.writes, Tail(Top.calls))
<1>7. f \in Frames /\ f.calls = Tail(Top.calls) /\ f.writes = Top.writes
  BY <1>3, <1>4 DEF Frame, Frames
<1> HIDE DEF f
<1>8. /\ <<f>> \o Tail(stack) \in Seq(Frames)
      /\ Pending(<<f>> \o Tail(stack)) = ToSet(f.calls) \cup Pending(Tail(stack))
      /\ Writing(<<f>> \o Tail(stack)) = {f.writes} \cup Writing(Tail(stack))
  BY <1>2, <1>7, OneMore
<1>9. Rest = <<f>> \o Tail(stack)
  BY <1>6 DEF f
<1> QED BY <1>1, <1>2, <1>4, <1>6, <1>7, <1>8, <1>9

\* a frame is put on top, or not
LEMMA Pushes ==
  ASSUME stack \in Seq(Frames), NEW k, Calling(k), NEW a \in Headed, NEW calls, NEW X,
         Lists(calls, X), stack' = <<Frame(a, calls)>> \o Rest
  PROVE stack' \in Seq(Frames) /\ Goes(Next1Call, X) /\ Writing(stack') = {a} \cup Writing(stack)
<1>1. Rest \in Seq(Frames) /\ Pending(stack) = {Next1Call} \cup Pending(Rest)
      /\ Writing(Rest) = Writing(stack)
  BY RestIs
<1>2. Frame(a, calls) \in Frames /\ Frame(a, calls).calls = calls /\ Frame(a, calls).writes = a
  BY DEF Frames, Frame, Lists
<1>3. /\ stack' \in Seq(Frames) /\ Pending(stack') = X \cup Pending(Rest)
      /\ Writing(stack') = {a} \cup Writing(Rest)
  BY <1>1, <1>2, OneMore DEF Lists
<1> QED BY <1>1, <1>3 DEF Goes

LEMMA Skips ==
  ASSUME stack \in Seq(Frames), NEW k, Calling(k), stack' = Rest
  PROVE stack' \in Seq(Frames) /\ Goes(Next1Call, {}) /\ Writing(stack') = Writing(stack)
<1>1. Rest \in Seq(Frames) /\ Pending(stack) = {Next1Call} \cup Pending(Rest)
      /\ Writing(Rest) = Writing(stack)
  BY RestIs
<1> QED BY <1>1 DEF Goes

LEMMA Replaces ==
  ASSUME stack \in Seq(Frames), NEW k, Calling(k), NEW calls, NEW X, Lists(calls, X),
         stack' = <<[Top EXCEPT !.calls = calls \o Tail(Top.calls)]>> \o Tail(stack)
  PROVE /\ stack' \in Seq(Frames) /\ Goes(Next1Call, X) /\ Writing(stack') = Writing(stack)
        /\ Lists(calls \o Tail(Top.calls), X \cup ToSet(Tail(Top.calls)))
        /\ stack' = <<Frame(Top.writes, calls \o Tail(Top.calls))>> \o Tail(stack)
<1>1. /\ stack # << >>
      /\ Tail(Top.calls) \in Seq(Calls)
      /\ ToSet(Top.calls) = {Next1Call} \cup ToSet(Tail(Top.calls))
  BY RestIs DEF Calling
<1>2. /\ Top \in Frames /\ Tail(stack) \in Seq(Frames)
      /\ Pending(stack) = ToSet(Top.calls) \cup Pending(Tail(stack))
      /\ Writing(stack) = {Top.writes} \cup Writing(Tail(stack))
  BY <1>1, TopIs
<1>3. Lists(calls \o Tail(Top.calls), X \cup ToSet(Tail(Top.calls)))
  <2>1. Lists(Tail(Top.calls), ToSet(Tail(Top.calls)))
    BY <1>1 DEF Lists
  <2> QED BY <2>1, ListsConcat
<1> DEFINE f == Frame(Top.writes, calls \o Tail(Top.calls))
<1>4. [Top EXCEPT !.calls = calls \o Tail(Top.calls)] = f
  BY <1>2, FrameWith
<1>5. f \in Frames /\ f.calls = calls \o Tail(Top.calls) /\ f.writes = Top.writes
  BY <1>2, <1>3 DEF Frame, Frames, Lists
<1>6. stack' = <<f>> \o Tail(stack)
  BY <1>4
<1>7. ToSet(f.calls) = X \cup ToSet(Tail(Top.calls))
  BY <1>3, <1>5 DEF Lists
<1> HIDE DEF f
<1>8. /\ stack' \in Seq(Frames)
      /\ Pending(stack') = ToSet(f.calls) \cup Pending(Tail(stack))
      /\ Writing(stack') = {f.writes} \cup Writing(Tail(stack))
  BY <1>2, <1>5, <1>6, OneMore
<1>9. stack' = <<Frame(Top.writes, calls \o Tail(Top.calls))>> \o Tail(stack)
  BY <1>6 DEF f
<1> QED BY <1>1, <1>2, <1>3, <1>5, <1>7, <1>8, <1>9 DEF Goes

-----------------------------------------------------------------------------
(***************************************************************************)
(* What the walk has done so far: every call is to be made or has been,    *)
(* what was entered is on the stack or written, and all it calls for is    *)
(* taken.                                                                  *)
(***************************************************************************)

RootCall == Call(IF root \in Genrules THEN "rule" ELSE "closure", root)

\* the calls of the statement a
CallsOf(a) ==
  CASE a.act = "rule"  -> MakersCalled(OtherItems(a.of))
    [] a.act = "stage" -> MakersCalled(Items(a.of, "files"))
    [] OTHER           -> FinalCalled(a.of)

Awaited(t) == t \in emitted \/ Call("target", t) \in Pending(stack)
Made(c) ==
  CASE c.call = "closure"    -> ~Cyclic(c.of) /\ \A u \in Closure(c.of) : Awaited(u)
    [] c.call = "target"     -> c.of \in emitted
    [] c.call = "strategies" -> ValidStrategies(c.of)
    [] OTHER                 -> mark[c.of] # "new"
Taken(c) == c \in Pending(stack) \/ Made(c)

WrittenOut(a) == Statements(a) \subseteq written /\ \A b \in Statements(a) : ~CannotCompile(b)
Entered ==
  {Final(t) : t \in emitted} \cup {Rule(g) : g \in {x \in Genrules : mark[x] # "new"}}
    \cup {Stage(s) : s \in {x \in Stages : mark[x] # "new"}}

Walk ==
  /\ stack \in Seq(Frames) /\ emitted \subseteq Targets
  /\ mark \in [Genrules \cup Stages -> {"new", "open", "written"}]
  /\ Taken(RootCall)
  /\ \A u \in Targets : Awaited(u) => ~Cyclic(u) /\ \A v \in Closure(u) : Awaited(v)
  /\ \A a \in Entered : a \in Writing(stack) \/ WrittenOut(a)
  /\ \A a \in Entered : \A c \in CallsOf(a) : Taken(c)
  /\ \A b \in written : \E a \in Entered : b \in Statements(a)
  /\ Writing(stack) \subseteq Entered \cup {Nothing}

LEMMA SameCalls ==
  ASSUME UNCHANGED refs
  PROVE /\ \A a : CallsOf(a)' = CallsOf(a) /\ Statements(a)' = Statements(a)
        /\ \A a : CannotCompile(a)' <=> CannotCompile(a)
        /\ \A t : ValidStrategies(t)' <=> ValidStrategies(t)
        /\ \A t : FinalCalled(t)' = FinalCalled(t)
        /\ \A g : MakersCalled(OtherItems(g))' = MakersCalled(OtherItems(g))
<1>1. \A o, f : Items(o, f)' = Items(o, f) /\ Labels(o, f)' = Labels(o, f)
  BY SameUsage
<1>2. \A t : DepRules(t)' = DepRules(t) /\ CompileUsage(t)' = CompileUsage(t)
              /\ LinkUsage(t)' = LinkUsage(t)
  BY SameUsage, SameItems
<1>3. \A t : Consumes(t)' = Consumes(t)
  BY <1>1 DEF Consumes
<1>4. \A t : FinalCalled(t)' = FinalCalled(t)
  BY <1>1, <1>2, <1>3 DEF FinalCalled
<1>5. \A g : MakersCalled(OtherItems(g))' = MakersCalled(OtherItems(g))
  BY SameItems DEF OtherItems
<1>6. \A s : MakersCalled(Items(s, "files"))' = MakersCalled(Items(s, "files"))
  BY <1>1
<1>7. \A a : CallsOf(a)' = CallsOf(a)
  BY <1>4, <1>5, <1>6 DEF CallsOf
<1>8. \A a : Statements(a)' = Statements(a)
  BY SameCompiles DEF Statements
<1>9. \A a : CannotCompile(a)' <=> CannotCompile(a)
  BY SameCompiles DEF CannotCompile
<1>10. \A t : ValidStrategies(t)' <=> ValidStrategies(t)
  BY SameCompiles DEF ValidStrategies
<1> QED BY <1>4, <1>5, <1>7, <1>8, <1>9, <1>10

LEMMA CallsOfAre ==
  ASSUME Valid, IsFiniteSet(refs)
  PROVE /\ \A t \in Targets : Lists(TargetCalls(t), CallsOf(Final(t)))
        /\ \A g : Lists(GenruleCalls(g), CallsOf(Rule(g)))
        /\ \A s : Lists(StageCalls(s), CallsOf(Stage(s)))
        /\ \A a \in Headed \ {Nothing} : CallsOf(a) \subseteq Calls
<1>1. \A t \in Targets : Lists(TargetCalls(t), CallsOf(Final(t)))
  BY TargetCallsAre DEF CallsOf, Final, Action
<1>2. \A g : Lists(GenruleCalls(g), CallsOf(Rule(g)))
  BY GenruleCallsAre DEF CallsOf, Rule, Action, Lists
<1>3. \A s : Lists(StageCalls(s), CallsOf(Stage(s)))
  BY StageCallsAre DEF CallsOf, Stage, Action, Lists
<1>4. \A s, X : Lists(s, X) => X \subseteq Calls
  BY ToSetOf DEF Lists
<1>5. \A a \in Headed \ {Nothing} : CallsOf(a) \subseteq Calls
  BY <1>1, <1>2, <1>3, <1>4 DEF Headed
<1> QED BY <1>1, <1>2, <1>3, <1>5

LEMMA WalkGoes ==
  ASSUME Valid, IsFiniteSet(refs), Walk, UNCHANGED <<refs, root, written>>, stack' \in Seq(Frames),
         root \in Roots, NEW c, NEW new, Goes(c, new), Made(c)',
         emitted \subseteq emitted', emitted' \subseteq Targets,
         mark' \in [Genrules \cup Stages -> {"new", "open", "written"}],
         \A x \in Genrules \cup Stages : mark[x] # "new" => mark'[x] # "new",
         Writing(stack) \subseteq Writing(stack'),
         Writing(stack') \subseteq Writing(stack) \cup Entered',
         \A a \in Entered' \ Entered : a \in Writing(stack') /\ CallsOf(a) \subseteq new,
         \A u \in Targets : Call("target", u) \in new \/ u \in emitted' =>
           Awaited(u) \/ (~Cyclic(u) /\ \A v \in Closure(u) : Call("target", v) \in new)
  PROVE Walk'
<1>1. \A t : Awaited(t) => Awaited(t)'
  <2> TAKE t
  <2>1. CASE c = Call("target", t)
    BY <2>1 DEF Made, Awaited, Call
  <2>2. CASE c # Call("target", t)
    BY <2>2 DEF Goes, Awaited
  <2> QED BY <2>1, <2>2
<1>2. /\ \A t : Closure(t)' = Closure(t) /\ (Cyclic(t)' <=> Cyclic(t))
                  /\ (ValidStrategies(t)' <=> ValidStrategies(t))
      /\ \A a : CallsOf(a)' = CallsOf(a) /\ Statements(a)' = Statements(a)
                  /\ (CannotCompile(a)' <=> CannotCompile(a))
  BY SameCalls, SameClosure
<1>3. \A d \in Calls : Taken(d) => Taken(d)'
  <2> TAKE d \in Calls
  <2>1. d.call = "rule" => d.of \in Genrules
    BY CallForms
  <2>2. d.call \in {"closure", "target", "strategies", "rule", "stage"}
        /\ (d.call = "stage" => d.of \in Stages)
    BY CallForms
  <2>3. Made(d) => Made(d)'
    BY <1>1, <1>2, <2>1, <2>2 DEF Made
  <2>4. d \in Pending(stack) => d = c \/ d \in Pending(stack')
    BY DEF Goes
  <2> QED BY <2>3, <2>4 DEF Taken
<1>4. Entered \subseteq Headed \ {Nothing}
  BY DEF Entered, Headed, Walk, Nothing, Final, Rule, Stage, Action
<1>5. Entered \subseteq Entered'
  BY DEF Entered
<1>6. Taken(RootCall)'
  <2>1. RootCall' = RootCall
    BY DEF RootCall
  <2>2. c = RootCall \/ RootCall \in Pending(stack') \/ Made(RootCall)
    BY DEF Walk, Taken, Goes
  <2>3. CASE c = RootCall
    BY <2>1, <2>3 DEF Taken
  <2>4. CASE RootCall \in Pending(stack')
    BY <2>1, <2>4 DEF Taken
  <2>5. CASE Made(RootCall) /\ RootCall \in Calls
    BY <1>3, <2>1, <2>5 DEF Taken
  <2>6. CASE Made(RootCall) /\ RootCall \notin Calls
    <3>1. FALSE
      BY <2>6, RootsAssumption DEF RootCall, Calls
    <3> QED BY <3>1
  <2> QED BY <2>2, <2>3, <2>4, <2>5, <2>6
<1>7. \A u \in Targets : Awaited(u)' => ~Cyclic(u)' /\ \A v \in Closure(u)' : Awaited(v)'
  <2> SUFFICES ASSUME NEW u \in Targets, Awaited(u)'
               PROVE ~Cyclic(u) /\ \A v \in Closure(u) : Awaited(v)'
    BY <1>2
  <2>1. CASE Awaited(u)
    BY <1>1, <2>1 DEF Walk
  <2>2. CASE ~Awaited(u)
    <3>1. u \in emitted' \/ Call("target", u) \in new
      BY <2>2 DEF Awaited, Goes
    <3>2. ~Cyclic(u) /\ \A v \in Closure(u) : Call("target", v) \in new
      BY <2>2, <3>1
    <3> QED BY <3>2 DEF Awaited, Goes
  <2> QED BY <2>1, <2>2
<1>8. \A a \in Entered' : a \in Writing(stack') \/ WrittenOut(a)'
  <2> TAKE a \in Entered'
  <2>1. CASE a \notin Entered
    BY <2>1
  <2>2. CASE a \in Entered
    <3>1. WrittenOut(a)' <=> WrittenOut(a)
      BY <1>2 DEF WrittenOut
    <3> QED BY <2>2, <3>1 DEF Walk
  <2> QED BY <2>1, <2>2
<1>9. \A a \in Entered' : \A d \in CallsOf(a)' : Taken(d)'
  <2> SUFFICES ASSUME NEW a \in Entered', NEW d \in CallsOf(a) PROVE Taken(d)'
    BY <1>2
  <2>1. CASE a \notin Entered
    BY <2>1 DEF Goes, Taken
  <2>2. CASE a \in Entered
    <3>1. d \in Calls
      BY <1>4, <2>2, CallsOfAre
    <3> QED BY <1>3, <2>2, <3>1 DEF Walk
  <2> QED BY <2>1, <2>2
<1>10. \A b \in written' : \E a \in Entered' : b \in Statements(a)'
  BY <1>2, <1>5 DEF Walk
<1>11. Writing(stack') \subseteq Entered' \cup {Nothing}
  BY <1>5 DEF Walk
<1> QED BY <1>6, <1>7, <1>8, <1>9, <1>10, <1>11 DEF Walk

-----------------------------------------------------------------------------
(* Each step of the walk.                                                  *)

\* a closure holds the closures of its members
LEMMA ClosureWithin ==
  ASSUME NEW t \in Targets, NEW u \in Closure(t)
  PROVE u \in Targets /\ Closure(u) \subseteq Closure(t) /\ (Cyclic(u) => Cyclic(t))
<1> DEFINE next == [x \in Targets |-> Next1(x)]
           C == Closure(t)
<1>1. /\ C \subseteq Targets /\ \A x \in C : Next1(x) \subseteq C
  BY ClosureClosed
<1>2. Cardinality(Targets) \in Nat
  BY NamesAssumption, FS_CardinalityType
<1>3. \A x \in C : next[x] \subseteq C
  BY <1>1
<1>4. Next1(u) \subseteq C /\ u \in Targets
  BY <1>1
<1> HIDE DEF next, C
<1>5. Least(Next1(u), next) \subseteq C
  BY <1>2, <1>3, <1>4, GrownLeast DEF Least
<1>6. Closure(u) = {u} \cup Least(Next1(u), next)
  BY DEF Closure, next
<1>7. Closure(u) \subseteq Closure(t)
  BY <1>5, <1>6 DEF C
<1> QED BY <1>4, <1>7 DEF Cyclic

\* the calls of a statement are for no target
LEMMA NoTargetCalls ==
  ASSUME Valid, IsFiniteSet(refs), NEW a \in Headed \ {Nothing}, NEW u
  PROVE Call("target", u) \notin CallsOf(a)
<1>1. \A items, x : x \in MakersCalled(items) => x.call # "target"
  BY DEF MakersCalled, MakerCall, Call
<1>2. \A gs, x : x \in RulesCalled(gs) => x.call # "target"
  BY DEF RulesCalled, Call
<1>3. \A t, x : x \in FinalCalled(t) => x.call # "target"
  <2> TAKE t, x
  <2>1. Call("strategies", t).call # "target"
    BY DEF Call
  <2> QED BY <1>1, <1>2, <2>1 DEF FinalCalled
<1>4. Call("target", u).call = "target"
  BY DEF Call
<1> QED BY <1>1, <1>3, <1>4 DEF CallsOf

LEMMA ClosureStep ==
  ASSUME Valid, IsFiniteSet(refs), root \in Roots, UNCHANGED <<refs, root>>, Walk,
         EnterClosure, verdict' # "circular"
  PROVE Walk'
<1>0. PICK c : c = Next1Call
  OBVIOUS
<1>n. PICK new : new = ClosureCalled(c.of)
  OBVIOUS
<1>1. /\ Calling("closure") /\ ~Cyclic(c.of) /\ UNCHANGED <<emitted, mark, written>>
      /\ stack' = <<[Top EXCEPT !.calls = ClosureCalls(c.of) \o Tail(Top.calls)]>> \o Tail(stack)
  BY <1>0 DEF EnterClosure
<1>2. stack \in Seq(Frames)
  BY DEF Walk
<1>3. c.of \in Targets /\ c.call = "closure" /\ c \in Calls
  BY <1>0, <1>1, <1>2, RestIs, CallForms
<1>4. Lists(ClosureCalls(c.of), new)
  BY <1>n, <1>3, ClosureCallsAre
<1>5. stack' \in Seq(Frames) /\ Goes(c, new) /\ Writing(stack') = Writing(stack)
  BY <1>0, <1>1, <1>2, <1>4, Replaces
<1>6. \A u \in Targets : Call("target", u) \in new =>
        ~Cyclic(u) /\ \A v \in Closure(u) : Call("target", v) \in new
  <2>1. \A u : Call("target", u) \in new <=> u \in Closure(c.of)
    BY <1>n DEF ClosureCalled, Call
  <2>2. \A u \in Closure(c.of) : Closure(u) \subseteq Closure(c.of) /\ (Cyclic(u) => Cyclic(c.of))
    BY <1>3, ClosureWithin
  <2> HIDE <1>n
  <2> QED BY <1>1, <2>1, <2>2
<1>7. Made(c)'
  <2>1. \A u \in Closure(c.of) : Awaited(u)'
    BY <1>n, <1>5 DEF Goes, Awaited, ClosureCalled
  <2>2. Cyclic(c.of)' <=> Cyclic(c.of)
    BY SameClosure
  <2>3. Closure(c.of)' = Closure(c.of)
    BY SameClosure
  <2> QED BY <1>1, <1>3, <2>1, <2>2, <2>3 DEF Made
<1>8. Entered' = Entered
  BY <1>1 DEF Entered
<1>9. \A u \in Targets : Call("target", u) \in new \/ u \in emitted' =>
        Awaited(u) \/ (~Cyclic(u) /\ \A v \in Closure(u) : Call("target", v) \in new)
  BY <1>1, <1>6 DEF Awaited
<1>10. /\ emitted \subseteq emitted' /\ emitted' \subseteq Targets
       /\ mark' \in [Genrules \cup Stages -> {"new", "open", "written"}]
       /\ \A x \in Genrules \cup Stages : mark[x] # "new" => mark'[x] # "new"
       /\ UNCHANGED written
  BY <1>1 DEF Walk
<1> QED BY <1>5, <1>7, <1>8, <1>9, <1>10, WalkGoes

LEMMA TargetStep ==
  ASSUME Valid, IsFiniteSet(refs), root \in Roots, UNCHANGED <<refs, root>>, Walk, EnterTarget
  PROVE Walk'
<1>0. PICK c : c = Next1Call
  OBVIOUS
<1>1. /\ Calling("target") /\ UNCHANGED <<mark, written>>
      /\ emitted' = emitted \cup {c.of}
      /\ stack' = (IF c.of \in emitted THEN << >>
                   ELSE <<Frame(Final(c.of), TargetCalls(c.of))>>) \o Rest
  BY <1>0 DEF EnterTarget
<1>2. stack \in Seq(Frames) /\ emitted \subseteq Targets
  BY DEF Walk
<1>3. c.of \in Targets /\ c.call = "target" /\ c = Call("target", c.of)
  BY <1>0, <1>1, <1>2, RestIs, CallForms
<1>4. \A new : Goes(c, new) => c \in Pending(stack)
  BY DEF Goes
<1>5. Made(c)'
  BY <1>1, <1>3 DEF Made
<1>6. c \in Pending(stack) => \A u \in Targets : u \in emitted' => Awaited(u)
  BY <1>1, <1>3 DEF Awaited
<1>7. /\ emitted \subseteq emitted' /\ emitted' \subseteq Targets
      /\ mark' \in [Genrules \cup Stages -> {"new", "open", "written"}]
      /\ \A x \in Genrules \cup Stages : mark[x] # "new" => mark'[x] # "new"
      /\ UNCHANGED written
  BY <1>1, <1>3 DEF Walk
<1>8. CASE c.of \in emitted
  <2>1. stack' = Rest
    <3>1. Rest \in Seq(Frames)
      BY <1>1, <1>2, RestIs
    <3> QED BY <1>1, <1>8, <3>1
  <2>2. stack' \in Seq(Frames) /\ Goes(c, {}) /\ Writing(stack') = Writing(stack)
    BY <1>0, <1>1, <1>2, <2>1, Skips
  <2>3. Entered' = Entered
    BY <1>1, <1>8 DEF Entered
  <2>4. \A u \in Targets : Call("target", u) \in {} \/ u \in emitted' =>
          Awaited(u) \/ (~Cyclic(u) /\ \A v \in Closure(u) : Call("target", v) \in {})
    BY <1>4, <1>6, <2>2
  <2> QED BY <1>5, <1>7, <2>2, <2>3, <2>4, WalkGoes
<1>9. CASE c.of \notin emitted
  <2>0. PICK new : new = CallsOf(Final(c.of))
    OBVIOUS
  <2>1. Lists(TargetCalls(c.of), new) /\ Final(c.of) \in Headed \ {Nothing}
    BY <1>3, <2>0, CallsOfAre DEF Headed, Nothing, Final, Action
  <2>2. /\ stack' \in Seq(Frames) /\ Goes(c, new)
        /\ Writing(stack') = {Final(c.of)} \cup Writing(stack)
    BY <1>0, <1>1, <1>2, <1>9, <2>1, Pushes
  <2>3. Entered' = Entered \cup {Final(c.of)}
    BY <1>1 DEF Entered
  <2>4. \A u : Call("target", u) \notin new
    BY <2>0, <2>1, NoTargetCalls
  <2>5. \A u \in Targets : Call("target", u) \in new \/ u \in emitted' =>
          Awaited(u) \/ (~Cyclic(u) /\ \A v \in Closure(u) : Call("target", v) \in new)
    BY <1>4, <1>6, <2>2, <2>4
  <2>6. \A a \in Entered' \ Entered : a \in Writing(stack') /\ CallsOf(a) \subseteq new
    BY <2>0, <2>2, <2>3
  <2> QED BY <1>5, <1>7, <2>2, <2>3, <2>5, <2>6, WalkGoes
<1> QED BY <1>8, <1>9

\* a generated action or a stage, which k calls for
LEMMA MarkedStep ==
  ASSUME Valid, IsFiniteSet(refs), root \in Roots, UNCHANGED <<refs, root>>, Walk,
         NEW k \in {"rule", "stage"}, NEW a, NEW calls,
         EnterMarked(k, a, calls), verdict' # "circular",
         a = IF k = "rule" THEN Rule(Next1Call.of) ELSE Stage(Next1Call.of),
         Lists(calls, CallsOf(a))
  PROVE Walk'
<1>0. PICK c : c = Next1Call
  OBVIOUS
<1>1. /\ Calling(k) /\ UNCHANGED <<emitted, written>>
      /\ mark[c.of] # "open"
      /\ mark' = IF mark[c.of] = "new" THEN [mark EXCEPT ![c.of] = "open"] ELSE mark
      /\ stack' = (IF mark[c.of] = "new" THEN <<Frame(a, calls)>> ELSE << >>) \o Rest
  BY <1>0 DEF EnterMarked
<1>2. stack \in Seq(Frames) /\ mark \in [Genrules \cup Stages -> {"new", "open", "written"}]
  BY DEF Walk
<1>3. /\ c.of \in Genrules \cup Stages /\ c.call = k
      /\ k = "rule" => c.of \in Genrules
      /\ k = "stage" => c.of \in Stages
  BY <1>0, <1>1, <1>2, RestIs, CallForms
<1>4. a \in Headed \ {Nothing}
  BY <1>0, <1>3 DEF Headed, Nothing, Rule, Stage, Action
<1>5. /\ mark' \in [Genrules \cup Stages -> {"new", "open", "written"}]
      /\ \A x \in Genrules \cup Stages : mark[x] # "new" => mark'[x] # "new"
      /\ mark'[c.of] # "new"
  BY <1>1, <1>2, <1>3
<1>6. Made(c)'
  BY <1>3, <1>5 DEF Made
<1>7. \A u \in Targets : u \in emitted' => Awaited(u)
  BY <1>1 DEF Awaited
<1>8. emitted \subseteq emitted' /\ emitted' \subseteq Targets /\ UNCHANGED written
  BY <1>1 DEF Walk
<1>9. CASE mark[c.of] # "new"
  <2>1. stack' = Rest
    <3>1. Rest \in Seq(Frames)
      BY <1>1, <1>2, RestIs
    <3> QED BY <1>1, <1>9, <3>1
  <2>2. stack' \in Seq(Frames) /\ Goes(c, {}) /\ Writing(stack') = Writing(stack)
    BY <1>0, <1>1, <1>2, <2>1, Skips
  <2>3. Entered' = Entered
    BY <1>1, <1>9 DEF Entered
  <2>4. \A u \in Targets : Call("target", u) \in {} \/ u \in emitted' =>
          Awaited(u) \/ (~Cyclic(u) /\ \A v \in Closure(u) : Call("target", v) \in {})
    BY <1>7
  <2> QED BY <1>5, <1>6, <1>8, <2>2, <2>3, <2>4, WalkGoes
<1>10. CASE mark[c.of] = "new"
  <2>0. PICK new : new = CallsOf(a)
    OBVIOUS
  <2>2. /\ stack' \in Seq(Frames) /\ Goes(c, new) /\ Writing(stack') = {a} \cup Writing(stack)
    BY <1>0, <1>1, <1>2, <1>4, <1>10, <2>0, Pushes
  <2>3. Entered' = Entered \cup {a}
    <3>1. \A x \in Genrules \cup Stages : mark'[x] # "new" <=> mark[x] # "new" \/ x = c.of
      BY <1>1, <1>2, <1>3, <1>10
    <3>2. CASE k = "rule"
      <4>1. c.of \in Genrules /\ c.of \notin Stages /\ a = Rule(c.of)
        BY <1>0, <1>3, <3>2, NamesAssumption
      <4> QED BY <1>1, <3>1, <4>1 DEF Entered
    <3>3. CASE k = "stage"
      <4>1. c.of \in Stages /\ c.of \notin Genrules /\ a = Stage(c.of)
        BY <1>0, <1>3, <3>3, NamesAssumption
      <4> QED BY <1>1, <3>1, <4>1 DEF Entered
    <3> QED BY <3>2, <3>3
  <2>4. \A u : Call("target", u) \notin new
    BY <1>4, <2>0, NoTargetCalls
  <2>5. \A u \in Targets : Call("target", u) \in new \/ u \in emitted' =>
          Awaited(u) \/ (~Cyclic(u) /\ \A v \in Closure(u) : Call("target", v) \in new)
    BY <1>7, <2>4
  <2>6. \A b \in Entered' \ Entered : b \in Writing(stack') /\ CallsOf(b) \subseteq new
    BY <2>0, <2>2, <2>3
  <2> QED BY <1>5, <1>6, <1>8, <2>2, <2>3, <2>5, <2>6, WalkGoes
<1> QED BY <1>9, <1>10

LEMMA StrategiesStep ==
  ASSUME Valid, IsFiniteSet(refs), root \in Roots, UNCHANGED <<refs, root>>, Walk,
         CheckStrategies, verdict' # "unsupported"
  PROVE Walk'
<1>0. PICK c : c = Next1Call
  OBVIOUS
<1>1. /\ Calling("strategies") /\ UNCHANGED <<emitted, mark, written>>
      /\ ValidStrategies(c.of) /\ stack' = Rest
  BY <1>0 DEF CheckStrategies
<1>2. stack \in Seq(Frames)
  BY DEF Walk
<1>3. c.call = "strategies"
  BY <1>0, <1>1, <1>2, RestIs
<1>4. stack' \in Seq(Frames) /\ Goes(c, {}) /\ Writing(stack') = Writing(stack)
  BY <1>0, <1>1, <1>2, Skips
<1>5. Made(c)'
  BY <1>1, <1>3, SameCalls DEF Made
<1>6. Entered' = Entered
  BY <1>1 DEF Entered
<1>7. \A u \in Targets : Call("target", u) \in {} \/ u \in emitted' =>
        Awaited(u) \/ (~Cyclic(u) /\ \A v \in Closure(u) : Call("target", v) \in {})
  BY <1>1 DEF Awaited
<1>8. /\ emitted \subseteq emitted' /\ emitted' \subseteq Targets
      /\ mark' \in [Genrules \cup Stages -> {"new", "open", "written"}]
      /\ \A x \in Genrules \cup Stages : mark[x] # "new" => mark'[x] # "new"
      /\ UNCHANGED written
  BY <1>1 DEF Walk
<1> QED BY <1>4, <1>5, <1>6, <1>7, <1>8, WalkGoes

LEMMA WalkPops ==
  ASSUME stack \in Seq(Frames), stack # << >>, Top.calls = << >>, stack' = Tail(stack)
  PROVE /\ Top.writes \in Headed
        /\ stack' \in Seq(Frames) /\ Pending(stack') = Pending(stack)
        /\ Writing(stack) = {Top.writes} \cup Writing(stack')
<1>1. /\ Top \in Frames /\ Tail(stack) \in Seq(Frames)
      /\ Pending(stack) = ToSet(Top.calls) \cup Pending(Tail(stack))
      /\ Writing(stack) = {Top.writes} \cup Writing(Tail(stack))
  BY TopIs
<1>2. ToSet(Top.calls) = {}
  BY DEF ToSet
<1> QED BY <1>1, <1>2 DEF Frames

LEMMA WriteStep ==
  ASSUME UNCHANGED <<refs, root>>, Walk, Write, verdict' # "unsupported"
  PROVE Walk'
<1>0. PICK a : a = Top.writes
  OBVIOUS
<1>1. /\ stack # << >> /\ Top.calls = << >> /\ stack' = Tail(stack)
      /\ written' = written \cup Statements(a)
      /\ mark' = IF a.act \in {"rule", "stage"} THEN [mark EXCEPT ![a.of] = "written"] ELSE mark
      /\ \A b \in Statements(a) : ~CannotCompile(b)
      /\ UNCHANGED emitted
  BY <1>0 DEF Write
<1>2. /\ stack \in Seq(Frames)
      /\ mark \in [Genrules \cup Stages -> {"new", "open", "written"}]
  BY DEF Walk
<1>3. /\ a \in Headed /\ stack' \in Seq(Frames) /\ Pending(stack') = Pending(stack)
      /\ Writing(stack) = {a} \cup Writing(stack')
  BY <1>0, <1>1, <1>2, WalkPops
<1>4. a \in Entered \cup {Nothing}
  BY <1>3 DEF Walk
<1>5. /\ mark' \in [Genrules \cup Stages -> {"new", "open", "written"}]
      /\ \A x \in Genrules \cup Stages : mark'[x] # "new" <=> mark[x] # "new"
  <2>1. CASE a.act \in {"rule", "stage"}
    <3>1. a \in Entered /\ a.act \in {"rule", "stage"}
      BY <1>4, <2>1 DEF Nothing, Action
    <3>2. a.of \in Genrules \cup Stages /\ mark[a.of] # "new"
      BY <3>1 DEF Entered, Final, Rule, Stage, Action
    <3> QED BY <1>1, <1>2, <2>1, <3>2
  <2>2. CASE a.act \notin {"rule", "stage"}
    BY <1>1, <1>2, <2>2
  <2> QED BY <2>1, <2>2
<1>6. Entered' = Entered
  BY <1>1, <1>5 DEF Entered
<1>7. /\ \A t : Closure(t)' = Closure(t) /\ (Cyclic(t)' <=> Cyclic(t))
                  /\ (ValidStrategies(t)' <=> ValidStrategies(t))
      /\ \A b : CallsOf(b)' = CallsOf(b) /\ Statements(b)' = Statements(b)
                  /\ (CannotCompile(b)' <=> CannotCompile(b))
  BY SameCalls, SameClosure
<1>8. \A t : Awaited(t)' <=> Awaited(t)
  BY <1>1, <1>3 DEF Awaited
<1>9. \A d \in Calls : Taken(d) => Taken(d)'
  <2> TAKE d \in Calls
  <2>1. /\ d.call \in {"closure", "target", "strategies", "rule", "stage"}
        /\ d.call = "rule" => d.of \in Genrules
        /\ d.call = "stage" => d.of \in Stages
    BY CallForms
  <2>2. Made(d) => Made(d)'
    BY <1>1, <1>5, <1>7, <1>8, <2>1 DEF Made
  <2> QED BY <1>3, <2>2 DEF Taken
<1>10. \A d : Taken(d) /\ d \notin Calls => Taken(d)'
  <2> TAKE d
  <2>1. CASE d.call \in {"closure", "target", "strategies"}
    BY <1>1, <1>3, <1>7, <1>8, <2>1 DEF Made, Taken
  <2>2. CASE d.call \notin {"closure", "target", "strategies"}
    <3> SUFFICES ASSUME Made(d) PROVE Made(d)'
      BY <1>3 DEF Taken
    <3>1. mark[d.of] # "new"
      BY <2>2 DEF Made
    <3>2. mark'[d.of] # "new"
      BY <1>1, <1>2, <1>5, <3>1
    <3> QED BY <2>2, <3>2 DEF Made
  <2> QED BY <2>1, <2>2
<1>11. \A d : Taken(d) => Taken(d)'
  BY <1>9, <1>10
<1>12. Taken(RootCall)'
  <2>1. RootCall' = RootCall
    BY DEF RootCall
  <2> QED BY <1>11, <2>1 DEF Walk
<1>13. \A u \in Targets : Awaited(u)' => ~Cyclic(u)' /\ \A v \in Closure(u)' : Awaited(v)'
  BY <1>7, <1>8 DEF Walk
<1>14. \A b \in Entered' : b \in Writing(stack') \/ WrittenOut(b)'
  <2> TAKE b \in Entered'
  <2>1. CASE b = a
    BY <1>1, <1>7, <2>1 DEF WrittenOut
  <2>2. CASE b # a /\ b \in Writing(stack)
    BY <1>3, <2>2
  <2>3. CASE b \notin Writing(stack)
    <3>1. WrittenOut(b)
      BY <1>6, <2>3 DEF Walk
    <3> QED BY <1>1, <1>7, <3>1 DEF WrittenOut
  <2> QED BY <2>1, <2>2, <2>3
<1>15. \A b \in Entered' : \A d \in CallsOf(b)' : Taken(d)'
  BY <1>6, <1>7, <1>11 DEF Walk
<1>16. \A b \in written' : \E x \in Entered' : b \in Statements(x)'
  <2> TAKE b \in written'
  <2>1. CASE b \in written
    BY <1>6, <1>7, <2>1 DEF Walk
  <2>2. CASE b \in Statements(a)
    <3>1. a # Nothing
      BY <2>2 DEF Statements, Nothing, Action
    <3> QED BY <1>4, <1>6, <1>7, <2>2, <3>1
  <2> QED BY <1>1, <2>1, <2>2
<1>17. Writing(stack') \subseteq Entered' \cup {Nothing}
  BY <1>3, <1>6 DEF Walk
<1> QED BY <1>1, <1>3, <1>5, <1>12, <1>13, <1>14, <1>15, <1>16, <1>17 DEF Walk

LEMMA StillWalk ==
  ASSUME Walk, UNCHANGED <<refs, root, stack, emitted, mark, written>>
  PROVE Walk'
<1>1. /\ \A t : Closure(t)' = Closure(t) /\ (Cyclic(t)' <=> Cyclic(t))
                  /\ (ValidStrategies(t)' <=> ValidStrategies(t))
      /\ \A b : CallsOf(b)' = CallsOf(b) /\ Statements(b)' = Statements(b)
                  /\ (CannotCompile(b)' <=> CannotCompile(b))
  BY SameCalls, SameClosure
<1>2. \A t : Awaited(t)' <=> Awaited(t)
  BY DEF Awaited
<1>3. \A d : Taken(d) => Taken(d)'
  BY <1>1, <1>2 DEF Taken, Made
<1>4. Entered' = Entered /\ RootCall' = RootCall
  BY DEF Entered, RootCall
<1>5. \A b : WrittenOut(b) => WrittenOut(b)'
  BY <1>1 DEF WrittenOut
<1> QED BY <1>1, <1>2, <1>3, <1>4, <1>5 DEF Walk

LEMMA WalkBegins ==
  ASSUME NinjaInit, root \in Roots
  PROVE Walk
<1>1. RootCall \in Calls /\ RootCall.call # "target"
  BY RootsAssumption, NamesAssumption DEF RootCall, Calls, Call
<1> DEFINE f == Frame(Nothing, <<RootCall>>)
<1>2. stack = <<f>>
  BY DEF NinjaInit, RootCall
<1>3. f \in Frames /\ f.writes = Nothing /\ f.calls = <<RootCall>>
  <2>1. <<RootCall>> \in Seq(Calls)
    BY <1>1
  <2> QED BY <2>1 DEF Frame, Frames, Headed
<1>4. ToSet(<<RootCall>>) = {RootCall}
  BY DEF ToSet
<1> HIDE DEF f
<1>5. stack \in Seq(Frames) /\ Len(stack) = 1 /\ stack[1] = f
  BY <1>2, <1>3
<1>6. Pending(stack) = {RootCall}
  <2>1. UNION {ToSet(stack[k].calls) : k \in {1}} = {RootCall}
    BY <1>3, <1>4, <1>5
  <2>2. 1..1 = {1}
    OBVIOUS
  <2> QED BY <1>5, <2>1, <2>2 DEF Pending
<1>7. Writing(stack) = {Nothing}
  <2>1. {stack[k].writes : k \in {1}} = {Nothing}
    BY <1>3, <1>5
  <2>2. 1..1 = {1}
    OBVIOUS
  <2> QED BY <1>5, <2>1, <2>2 DEF Writing
<1>8. Taken(RootCall)
  BY <1>6 DEF Taken
<1>9. \A u : ~Awaited(u)
  BY <1>1, <1>6 DEF Awaited, NinjaInit, Call
<1>10. Entered = {} /\ written = {}
  BY DEF Entered, NinjaInit
<1> QED BY <1>5, <1>7, <1>8, <1>9, <1>10 DEF Walk, NinjaInit

-----------------------------------------------------------------------------
(* Once the walk is over, all inputs of what is written are written.       *)

Over == Walk /\ stack = << >> /\ Valid /\ IsFiniteSet(refs) /\ root \in Roots

LEMMA AllMade ==
  ASSUME Over
  PROVE /\ \A t : Awaited(t) <=> t \in emitted
        /\ \A a \in Entered : Statements(a) \subseteq written
        /\ \A a \in Entered : \A b \in Statements(a) : ~CannotCompile(b)
        /\ \A a \in Entered : \A c \in CallsOf(a) : Made(c)
        /\ Made(RootCall)
        /\ \A t \in emitted : /\ t \in Targets /\ ~Cyclic(t) /\ Closure(t) \subseteq emitted
                              /\ Final(t) \in Entered
<1>1. Len(stack) = 0
  BY DEF Over
<1>2. Pending(stack) = {} /\ Writing(stack) = {}
  BY <1>1 DEF Pending, Writing
<1>3. \A t : Awaited(t) <=> t \in emitted
  BY <1>2 DEF Awaited
<1>4. \A c : Taken(c) <=> Made(c)
  BY <1>2 DEF Taken
<1>5. \A t \in emitted : Final(t) \in Entered
  BY DEF Entered
<1> QED BY <1>2, <1>3, <1>4, <1>5 DEF Over, Walk, WrittenOut

LEMMA CalledWritten ==
  ASSUME Over, NEW c \in Calls, Made(c), c.call \in {"rule", "stage", "closure"}
  PROVE Called(c) \in written
<1>1. CASE c.call = "rule"
  <2>1. c.of \in Genrules /\ mark[c.of] # "new"
    BY <1>1, CallForms DEF Made
  <2>2. Rule(c.of) \in Entered
    BY <2>1 DEF Entered
  <2>3. Statements(Rule(c.of)) = {Rule(c.of)}
    BY DEF Statements, Rule, Action
  <2> QED BY <1>1, <2>2, <2>3, AllMade DEF Called
<1>2. CASE c.call = "stage"
  <2>1. c.of \in Stages /\ mark[c.of] # "new"
    BY <1>2, CallForms DEF Made
  <2>2. Stage(c.of) \in Entered
    BY <2>1 DEF Entered
  <2>3. Statements(Stage(c.of)) = {Stage(c.of)}
    BY DEF Statements, Stage, Action
  <2> QED BY <1>2, <2>2, <2>3, AllMade DEF Called
<1>3. CASE c.call = "closure"
  <2>1. c.of \in Targets
    BY <1>3, CallForms
  <2>2. c.of \in emitted
    BY <1>3, <2>1, AllMade, ClosureClosed DEF Made
  <2>3. Final(c.of) \in Statements(Final(c.of))
    BY DEF Statements, Final, Action
  <2> QED BY <1>3, <2>2, <2>3, AllMade DEF Called
<1> QED BY <1>1, <1>2, <1>3

LEMMA RootWritten ==
  ASSUME Over
  PROVE RootAction \in written
<1>1. RootCall \in Calls /\ RootCall.call \in {"rule", "closure"} /\ Called(RootCall) = RootAction
  BY RootsAssumption DEF Over, RootCall, Calls, Call, Called, RootAction
<1> QED BY <1>1, AllMade, CalledWritten

LEMMA MakersWritten ==
  ASSUME Over, NEW a \in Entered, NEW items, Callable(items), MakersCalled(items) \subseteq CallsOf(a)
  PROVE Makers(items) \subseteq written
<1>1. \A c \in MakersCalled(items) : c \in Calls /\ Made(c) /\ c.call \in {"rule", "stage", "closure"}
  <2> TAKE c \in MakersCalled(items)
  <2>1. c.call \in {"rule", "stage", "closure"}
    BY DEF MakersCalled, MakerCall, Call
  <2>2. c \in Calls
    BY MakerCallsAre, ToSetOf DEF Over
  <2> QED BY <2>1, <2>2, AllMade
<1>2. {Called(c) : c \in MakersCalled(items)} = Makers(items)
  BY MakerCallsAre DEF Over
<1> QED BY <1>1, <1>2, CalledWritten

\* the rules that a target depends on or takes sources from
LEMMA RulesWritten ==
  ASSUME Over, NEW t \in emitted,
         NEW g \in DepRules(t) \cup (IF IsCompiled(t) THEN Consumes(t) ELSE {})
  PROVE Rule(g) \in written
<1>1. Call("rule", g) \in FinalCalled(t)
  BY DEF FinalCalled, RulesCalled, IsCompiled, Compiled, Consumers
<1>2. Final(t) \in Entered /\ CallsOf(Final(t)) = FinalCalled(t)
  BY AllMade DEF CallsOf, Final, Action
<1>3. g \in Genrules
  BY FoundExist DEF Over, Consumes, ConsumedRules
<1>4. Call("rule", g) \in Calls
  BY <1>3 DEF Calls
<1>5. Called(Call("rule", g)) = Rule(g) /\ Call("rule", g).call = "rule"
  BY DEF Called, Call
<1> QED BY <1>1, <1>2, <1>4, <1>5, AllMade, CalledWritten

LEMMA SourcesWritten ==
  ASSUME Over, NEW t \in emitted, IsCompiled(t), NEW f \in {"sources", "headers", "pch"},
         NEW S \in SUBSET ({Plain} \cup Items(t, f))
  PROVE Makers(S) \subseteq written
<1> DEFINE P == S \ {Plain}
<1>1. \A i \in P : i.is = "path" /\ i.of \in Genrules
  BY ItemShapes DEF Over
<1>2. Makers(P) = {Rule(g) : g \in Rules(P)}
  BY <1>1, PathMakers
<1>3. Rules(P) \subseteq Consumes(t)
  BY DEF Rules, Consumes
<1>4. Makers(S) = Makers(P)
  BY DEF Makers, Plain
<1> QED BY <1>2, <1>3, <1>4, RulesWritten

LEMMA UsageWritten ==
  ASSUME Over, NEW t \in emitted, IsCompiled(t)
  PROVE /\ Makers(CompileUsage(t)) \subseteq written /\ Makers(LinkUsage(t)) \subseteq written
        /\ Makers(Items(t, "link_inputs")) \subseteq written
<1>1. Final(t) \in Entered /\ CallsOf(Final(t)) = FinalCalled(t)
  BY AllMade DEF CallsOf, Final, Action
<1>2. /\ MakersCalled(CompileUsage(t)) \subseteq FinalCalled(t)
      /\ MakersCalled(LinkUsage(t)) \subseteq FinalCalled(t)
      /\ MakersCalled(Items(t, "link_inputs")) \subseteq FinalCalled(t)
  BY DEF FinalCalled, IsCompiled, Compiled, Consumers
<1>3. /\ Callable(CompileUsage(t)) /\ Callable(LinkUsage(t)) /\ Callable(Items(t, "link_inputs"))
  BY ItemsCallable DEF Over
<1> QED BY <1>1, <1>2, <1>3, MakersWritten

LEMMA RuleInputsWritten ==
  ASSUME Over, NEW g \in Genrules, Rule(g) \in Entered
  PROVE RuleInputs(g) \subseteq written
<1> DEFINE J == Tokens(Items(g, "tool")) \cup Items(g, "inputs") \cup Tokens(Items(g, "args"))
<1>1. \A i \in Items(g, "inputs") : i.of # g
  BY DEF Over, Valid, ValidGenrule
<1>2. J \subseteq OtherItems(g)
  BY <1>1 DEF OtherItems, GenruleItems, Tokens
<1>3. Makers(J) \subseteq Makers(OtherItems(g))
  BY <1>2 DEF Makers
<1>4. CallsOf(Rule(g)) = MakersCalled(OtherItems(g))
  BY DEF CallsOf, Rule, Action
<1>5. Callable(OtherItems(g))
  BY GenruleCallsAre DEF Over
<1>6. Makers(OtherItems(g)) \subseteq written
  BY <1>4, <1>5, MakersWritten
<1> QED BY <1>3, <1>6 DEF RuleInputs

LEMMA AliasesWritten ==
  ASSUME Over, NEW t \in emitted
  PROVE /\ \A d \in Next1(t) : d \in emitted /\ Final(d) \in written
        /\ DepAliases(t) \subseteq written
        /\ DepArtifacts(t) \subseteq written
<1>1. \A u \in emitted : u \in Targets /\ Next1(u) \subseteq emitted
  BY AllMade, ClosureClosed
<1>2. \A u \in emitted : Final(u) \in written
  <2> TAKE u \in emitted
  <2>1. Final(u) \in Statements(Final(u))
    BY DEF Statements, Final, Action
  <2> QED BY <2>1, AllMade
<1>3. \A x : LinkDeps(x) \subseteq Next1(x) /\ LinkNext(x) \subseteq Next1(x)
  BY DEF LinkDeps, Next1, LinkNext, PublicDeps, DepLabels
<1>4. DepAliases(t) \subseteq written
  BY <1>1, <1>2, <1>3, RulesWritten DEF DepAliases
<1> DEFINE next == [x \in Targets |-> LinkNext(x)]
<1>5. \A x \in emitted : next[x] \subseteq emitted
  BY <1>1, <1>3
<1>6. Cardinality(Targets) \in Nat /\ LinkDeps(t) \subseteq emitted
  BY <1>1, <1>3, NamesAssumption, FS_CardinalityType
<1>7. Least(LinkDeps(t), next) \subseteq emitted
  <2> HIDE DEF next
  <2> QED BY <1>5, <1>6, GrownLeast DEF Least
<1>8. LinkedDeps(t) \subseteq emitted
  BY <1>7 DEF LinkedDeps
<1>9. DepArtifacts(t) \subseteq written
  BY <1>2, <1>8, SameArtifacts
<1> QED BY <1>1, <1>2, <1>4, <1>9

LEMMA ObjectsWritten ==
  ASSUME Over, NEW t \in emitted, IsCompiled(t), ~ConsumerContext(t),
         NEW o \in {t} \cup Labels(t, "objects")
  PROVE ObjectsFor(t, o) \subseteq written
<1> DEFINE O == {s \in Sources(o) : s.out = "o"}
<1>1. o \in emitted /\ IsCompiled(o)
  <2>1. CASE o # t
    <3>1. o \in Labels(t, "objects") /\ t \in Targets
      BY <2>1, AllMade
    <3>2. o \in Targets /\ Kind[o] = "objectlib"
      BY <3>1 DEF Over, Valid, ValidTarget, ValidObjects, Labels
    <3> QED BY <3>1, <3>2, AliasesWritten DEF Next1, IsCompiled, Compiled
  <2> QED BY <2>1
<1>2. \A u \in emitted : IsCompiled(u) => CompileActions(u) \subseteq written
  <2> TAKE u \in emitted
  <2>1. IsCompiled(u) => CompileActions(u) \subseteq Statements(Final(u))
    BY DEF Statements, Final, Action
  <2> QED BY <2>1, AllMade
<1>3. Makers(O) \subseteq written
  <2>1. O \subseteq {Plain} \cup Items(o, "sources")
    BY DEF Sources
  <2> QED BY <1>1, <2>1, SourcesWritten
<1>4. ASSUME NEW s \in CompiledSources(o), EmitsObject(o, s)
      PROVE Compile(IF ConsumerContext(o) THEN t ELSE o, o, s) \in written
  <2>1. CASE ConsumerContext(o)
    <3>1. o \in BorrowedFrom(t)
      BY <2>1 DEF BorrowedFrom
    <3>2. Compile(t, o, s) \in CompileActions(t)
      BY <3>1 DEF CompileActions
    <3> QED BY <1>2, <2>1, <3>2
  <2>2. CASE ~ConsumerContext(o)
    <3>1. Compile(o, o, s) \in CompileActions(o)
      BY <1>4, <2>2 DEF CompileActions, OwnActions
    <3> QED BY <1>1, <1>2, <2>2, <3>1
  <2> QED BY <2>1, <2>2
<1> DEFINE E == {x \in CompiledSources(o) : EmitsObject(o, x)}
           C == {Compile(IF ConsumerContext(o) THEN t ELSE o, o, s) : s \in E}
<1>5. C \subseteq written
  BY <1>4
<1>6. ObjectsFor(t, o) = C \cup Makers(O)
  BY DEF ObjectsFor
<1> QED BY <1>3, <1>5, <1>6

\* what the statement of a linked target names
LEMMA LinkedInputs ==
  ASSUME NEW t, Kind[t] \in Consumers
  PROVE FinalInputs(t) = (UNION {ObjectsFor(t, o) : o \in {t} \cup Labels(t, "objects")})
          \cup Makers(Items(t, "link_inputs")) \cup DepAliases(t)
          \cup (IF Kind[t] = "staticlib" THEN {} ELSE DepArtifacts(t) \cup Makers(LinkUsage(t)))
<1> DEFINE O == UNION {ObjectsFor(t, o) : o \in {t} \cup Labels(t, "objects")}
<1>1. O = ObjectsFor(t, t) \cup ObjectlibObjects(t)
  BY DEF ObjectlibObjects
<1>2. ArchiveInputs(t) = O \cup Makers(Items(t, "link_inputs")) \cup DepAliases(t)
  BY <1>1 DEF ArchiveInputs
<1> HIDE DEF O
<1>3. CASE Kind[t] = "staticlib"
  <2>1. FinalInputs(t) = ArchiveInputs(t)
    BY <1>3 DEF FinalInputs, Consumers
  <2> QED BY <1>2, <1>3, <2>1 DEF O
<1>4. CASE Kind[t] # "staticlib"
  <2>1. FinalInputs(t) = LinkInputs(t)
    BY <1>4 DEF FinalInputs, Consumers
  <2> QED BY <1>2, <1>4, <2>1 DEF LinkInputs, LinkUsageInputs, O
<1> QED BY <1>3, <1>4

LEMMA FinalInputsWritten ==
  ASSUME Over, NEW t \in emitted
  PROVE FinalInputs(t) \subseteq written
<1>1. DepAliases(t) \subseteq written /\ DepArtifacts(t) \subseteq written
  BY AliasesWritten
<1>2. CASE Kind[t] = "run_target"
  <2>1. FinalInputs(t) = RunItemInputs(t) \cup DepAliases(t)
    BY <1>2 DEF FinalInputs, Consumers, RunInputs
  <2> DEFINE J == Tokens(Items(t, "run_command"))
             K == Items(t, "run_inputs")
  <2>2. Callable(J) /\ Callable(K)
    BY ItemsCallable DEF Callable, Tokens, Over
  <2>3. Final(t) \in Entered /\ CallsOf(Final(t)) = FinalCalled(t)
    BY AllMade DEF CallsOf, Final, Action
  <2>4. MakersCalled(J) \subseteq FinalCalled(t) /\ MakersCalled(K) \subseteq FinalCalled(t)
    BY <1>2 DEF FinalCalled
  <2>5. RunItemInputs(t) = Makers(J) \cup Makers(K)
    BY MakersSplit DEF RunItemInputs
  <2> HIDE DEF J, K
  <2>6. Makers(J) \subseteq written /\ Makers(K) \subseteq written
    BY <2>2, <2>3, <2>4, MakersWritten
  <2> QED BY <1>1, <2>1, <2>5, <2>6
<1>3. CASE Kind[t] = "objectlib"
  <2>1. FinalInputs(t) = ObjectlibInputs(t)
    BY <1>3 DEF FinalInputs, Consumers
  <2>2. ~ConsumerContext(t) => ObjectsFor(t, t) \subseteq written
    BY <1>3, ObjectsWritten DEF IsCompiled, Compiled
  <2> QED BY <1>1, <2>1, <2>2 DEF ObjectlibInputs
<1>4. CASE Kind[t] \in Consumers
  <2>1. IsCompiled(t) /\ ~ConsumerContext(t)
    BY <1>4 DEF IsCompiled, Compiled, ConsumerContext, Consumers
  <2>2. \A o \in {t} \cup Labels(t, "objects") : ObjectsFor(t, o) \subseteq written
    BY <2>1, ObjectsWritten
  <2> QED BY <1>1, <1>4, <2>1, <2>2, LinkedInputs, UsageWritten
<1>5. CASE Kind[t] \notin Consumers \cup {"objectlib", "run_target"}
  <2>1. FinalInputs(t) = DepAliases(t)
    BY <1>5 DEF FinalInputs, Consumers
  <2> QED BY <1>1, <2>1
<1> QED BY <1>2, <1>3, <1>4, <1>5

LEMMA PchInputsWritten ==
  ASSUME Over, NEW t \in emitted, IsCompiled(t)
  PROVE PchInputs(t) \subseteq written
<1>1. Makers(Items(t, "pch")) \subseteq written /\ Makers(Headers(t)) \subseteq written
  BY SourcesWritten DEF Headers
<1> QED BY <1>1, MakersSplit, UsageWritten DEF PchInputs, CompileUsageInputs

LEMMA CompileInputsWritten ==
  ASSUME Over, NEW t \in emitted, IsCompiled(t), NEW a \in CompileActions(t)
  PROVE CompileInputs(a.of, a.owner, a.src) \subseteq written
<1> DEFINE o == a.owner
           s == a.src
<1>1. /\ a.of = t /\ o \in {t} \cup BorrowedFrom(t) /\ s \in CompiledSources(o)
  BY DEF CompileActions, OwnActions, Compile
<1>2. o \in emitted /\ IsCompiled(o)
  <2>1. CASE o # t
    <3>1. o \in Labels(t, "objects") /\ t \in Targets
      BY <1>1, <2>1, AllMade DEF BorrowedFrom
    <3>2. o \in Targets /\ Kind[o] = "objectlib"
      BY <3>1 DEF Over, Valid, ValidTarget, ValidObjects, Labels
    <3> QED BY <3>1, <3>2, AliasesWritten DEF Next1, IsCompiled, Compiled
  <2> QED BY <2>1
<1>3. Statements(Final(t)) \subseteq written
  BY AllMade
<1>4. Makers(CompiledWith(t, o, s)) \subseteq written
  <2>1. CompiledWith(t, o, s) \subseteq {Plain} \cup Items(o, "sources")
    BY <1>1 DEF CompiledWith, Batch, CompiledSources, Implementations, Interfaces, Sources
  <2> QED BY <1>2, <2>1, SourcesWritten
<1>5. Makers(Headers(t) \cup Headers(o)) \subseteq written
  <2>1. Makers(Headers(t)) \subseteq written /\ Makers(Headers(o)) \subseteq written
    BY <1>2, SourcesWritten DEF Headers
  <2> QED BY <2>1, MakersSplit
<1>6. BmiReads(t, o, s) \subseteq written
  <2>1. SUFFICES ASSUME Modules(t), NEW d \in Interfaces(t) PROVE Compile(t, t, d) \in written
    BY DEF BmiReads
  <2>2. Call("strategies", t) \in CallsOf(Final(t))
    BY DEF CallsOf, Final, Action, FinalCalled, IsCompiled, Compiled, Consumers
  <2>3. ValidStrategies(t)
    <3>1. Made(Call("strategies", t))
      BY <2>2, AllMade
    <3> QED BY <3>1 DEF Made, Call
  <2>4. ~ConsumerContext(t)
    BY <2>1, <2>3 DEF ValidStrategies
  <2>5. d \in CompiledSources(t) /\ EmitsObject(t, d)
    BY DEF CompiledSources, EmitsObject, Interfaces
  <2>6. Compile(t, t, d) \in CompileActions(t)
    BY <2>4, <2>5 DEF CompileActions, OwnActions
  <2>7. CompileActions(t) \subseteq Statements(Final(t))
    BY DEF Statements, Final, Action
  <2> QED BY <1>3, <2>6, <2>7
<1>7. HasPch(t) => Pch(t) \in written
  <2>1. HasPch(t) => Pch(t) \in Statements(Final(t))
    BY DEF Statements, Final, Action
  <2> QED BY <1>3, <2>1
<1>8. Makers(CompileUsage(t)) \subseteq written
  BY UsageWritten
<1> HIDE DEF o, s
<1>9. CompileInputs(t, o, s) \subseteq written
  BY <1>4, <1>5, <1>6, <1>7, <1>8 DEF CompileInputs, SourceInputs, CompileUsageInputs
<1> QED BY <1>1, <1>9 DEF o, s

LEMMA InputsWritten ==
  ASSUME Over, NEW b \in written
  PROVE Inputs(b) \subseteq written
<1>1. PICK a \in Entered : b \in Statements(a)
  BY DEF Over, Walk
<1>2. CASE \E t \in emitted : a = Final(t)
  <2>1. PICK t \in emitted : a = Final(t)
    BY <1>2
  <2>2. CASE b = Final(t)
    <3>1. Inputs(b) = FinalInputs(t)
      BY <2>2 DEF Inputs, Final, Action
    <3> QED BY <3>1, FinalInputsWritten
  <2>3. CASE IsCompiled(t) /\ b \in CompileActions(t)
    <3>1. b.act = "compile"
      BY <2>3 DEF CompileActions, OwnActions, Compile
    <3>2. Inputs(b) = CompileInputs(b.of, b.owner, b.src)
      BY <3>1 DEF Inputs
    <3> QED BY <2>3, <3>2, CompileInputsWritten
  <2>4. CASE IsCompiled(t) /\ b = Pch(t)
    <3>1. Inputs(b) = PchInputs(t)
      BY <2>4 DEF Inputs, Pch, Action
    <3> QED BY <2>4, <3>1, PchInputsWritten
  <2>5. b = Final(t) \/ (IsCompiled(t) /\ (b \in CompileActions(t) \/ b = Pch(t)))
    BY <1>1, <2>1 DEF Statements, Final, Action, HasPch
  <2> QED BY <2>2, <2>3, <2>4, <2>5
<1>3. CASE \E g \in Genrules : a = Rule(g)
  <2>1. PICK g \in Genrules : a = Rule(g)
    BY <1>3
  <2>2. b = Rule(g)
    BY <1>1, <2>1 DEF Statements, Rule, Action
  <2>3. Inputs(b) = RuleInputs(g)
    BY <2>2 DEF Inputs, Rule, Action
  <2> QED BY <2>1, <2>3, RuleInputsWritten
<1>4. CASE \E s \in Stages : a = Stage(s)
  <2>1. PICK s \in Stages : a = Stage(s)
    BY <1>4
  <2>2. b = Stage(s)
    BY <1>1, <2>1 DEF Statements, Stage, Action
  <2>3. Inputs(b) = Makers(Items(s, "files"))
    BY <2>2 DEF Inputs, Stage, Action
  <2>4. CallsOf(a) = MakersCalled(Items(s, "files"))
    BY <2>1 DEF CallsOf, Stage, Action
  <2>5. Callable(Items(s, "files"))
    BY ItemsCallable DEF Over
  <2> QED BY <2>3, <2>4, <2>5, MakersWritten
<1> QED BY <1>2, <1>3, <1>4 DEF Entered

-----------------------------------------------------------------------------
\* Ninja runs all that the root needs
AllRunByNinja ==
  LET U == Upstream({RootAction}) IN Ran(U, [a \in U |-> Inputs(a)], Cardinality(U)) = U

WInv ==
  /\ verdict \notin {"circular", "unsupported"} => Walk
  /\ verdict \in {"missing", "stalled", "built"} => stack = << >>
  /\ verdict # "missing"
  /\ verdict = "built" => AllRunByNinja
  /\ verdict = "stalled" => ~AllRunByNinja

LEMMA SameUpstream ==
  ASSUME UNCHANGED <<refs, root, written>>
  PROVE Upstream({RootAction})' = Upstream({RootAction}) /\ (AllRunByNinja' <=> AllRunByNinja)
<1>1. \A a : Inputs(a)' = Inputs(a)
  BY SameInputs
<1>2. RootAction' = RootAction
  BY DEF RootAction
<1>3. Upstream({RootAction})' = Upstream({RootAction})
  BY <1>1, <1>2 DEF Upstream
<1> QED BY <1>1, <1>3 DEF AllRunByNinja

LEMMA UpstreamWritten ==
  ASSUME Over, IsFiniteSet(written)
  PROVE /\ Upstream({RootAction}) \subseteq written
        /\ RootAction \in Upstream({RootAction})
        /\ \A a \in Upstream({RootAction}) : Inputs(a) \subseteq Upstream({RootAction})
<1> DEFINE next == [a \in {RootAction} \cup written |-> Inputs(a) \cap written]
           n == Cardinality(written)
<1>1. n \in Nat
  BY FS_CardinalityType
<1>2. RootAction \in written /\ {RootAction} \cup written = written
  BY RootWritten
<1>3. \A a \in written : next[a] = Inputs(a) /\ next[a] \subseteq written
  BY <1>2, InputsWritten
<1>4. Upstream({RootAction}) = Grown({RootAction}, next, n)
  BY DEF Upstream
<1> HIDE DEF next, n
<1>5. {RootAction} \subseteq Grown({RootAction}, next, n) /\ Grown({RootAction}, next, n) \subseteq written
  BY <1>1, <1>2, <1>3, GrownLeast
<1>6. \A a \in Grown({RootAction}, next, n) : next[a] \subseteq Grown({RootAction}, next, n)
  <2>1. {RootAction} \in SUBSET written /\ \A a \in written : next[a] \subseteq written
    BY <1>2, <1>3
  <2> QED BY <2>1, GrownClosed DEF n
<1> QED BY <1>3, <1>4, <1>5, <1>6

LEMMA BuildStep ==
  ASSUME WInv, FInv, NinjaBuild, UNCHANGED <<refs, root>>, Valid
  PROVE WInv'
<1> DEFINE U == Upstream({RootAction})
<1>1. verdict = "emit" /\ stack = << >> /\ UNCHANGED <<stack, emitted, mark, written>>
  BY DEF NinjaBuild
<1>2. Walk
  BY <1>1 DEF WInv
<1>3. IsFiniteSet(refs) /\ IsFiniteSet(written) /\ root \in Roots
  BY DEF FInv, GInv, Whole
<1>4. Over
  BY <1>1, <1>2, <1>3 DEF Over
<1>5. U \subseteq written /\ \A a \in U : Inputs(a) \subseteq written
  BY <1>3, <1>4, UpstreamWritten, InputsWritten
<1>6. verdict' = IF AllRunByNinja THEN "built" ELSE "stalled"
  <2>1. UNION {Inputs(a) : a \in U} \subseteq written
    BY <1>5
  <2> HIDE DEF U
  <2>2. verdict' = CASE ~((UNION {Inputs(a) : a \in U}) \subseteq written) -> "missing"
                     [] Ran(U, [a \in U |-> Inputs(a)], Cardinality(U)) # U -> "stalled"
                     [] OTHER -> "built"
    BY DEF NinjaBuild, U
  <2>3. AllRunByNinja <=> Ran(U, [a \in U |-> Inputs(a)], Cardinality(U)) = U
    BY DEF AllRunByNinja, U
  <2> QED BY <2>1, <2>2, <2>3
<1>7. Walk'
  BY <1>1, <1>2, StillWalk
<1>8. AllRunByNinja' <=> AllRunByNinja
  BY <1>1, SameUpstream
<1> HIDE DEF U
<1> QED BY <1>1, <1>6, <1>7, <1>8 DEF WInv

LEMMA WalkInvariance == Spec => []WInv
<1>1. Init => WInv
  BY WalkBegins DEF Init, WInv, NinjaInit
<1>2. FInv /\ WInv /\ [Next]_vars => WInv'
  <2> SUFFICES ASSUME FInv, WInv, [Next]_vars PROVE WInv'
    OBVIOUS
  <2>0. UNCHANGED <<refs, root>> /\ root \in Roots /\ IsFiniteSet(refs)
    BY DEF Next, Native, Ninja, Stay, NativeNext, Start, Pass, Connect, Execute, FInv, GInv, Whole,
           vars
  <2>1. CASE UNCHANGED ninjaVars
    <3>1. Walk => Walk'
      BY <2>0, <2>1, StillWalk DEF ninjaVars
    <3>2. AllRunByNinja' <=> AllRunByNinja
      BY <2>0, <2>1, SameUpstream DEF ninjaVars
    <3> QED BY <2>1, <3>1, <3>2 DEF WInv, ninjaVars
  <2>2. CASE Ninja
    <3>1. Valid
      BY <2>2 DEF Ninja, Ended, FInv, GInv, IInv
    <3>2. CASE NinjaBuild
      BY <2>0, <3>1, <3>2, BuildStep
    <3>3. CASE ~NinjaBuild
      <4>1. NinjaNext /\ verdict = "emit" /\ verdict' \in {"emit", "circular", "unsupported"}
        BY <2>2, <3>3 DEF Ninja, NinjaNext, EnterClosure, EnterTarget, EnterRule, EnterStage,
             EnterMarked, CheckStrategies, Write, Calling
      <4>2. Walk
        BY <4>1 DEF WInv
      <4> SUFFICES ASSUME verdict' \notin {"circular", "unsupported"} PROVE Walk'
        BY <4>1 DEF WInv
      <4>3. CASE EnterRule
        <5>1. Lists(GenruleCalls(Next1Call.of), CallsOf(Rule(Next1Call.of)))
          BY <2>0, <3>1, CallsOfAre
        <5>2. EnterMarked("rule", Rule(Next1Call.of), GenruleCalls(Next1Call.of))
          BY <4>3 DEF EnterRule
        <5> QED BY <2>0, <3>1, <4>2, <5>1, <5>2, MarkedStep
      <4>4. CASE EnterStage
        <5>1. Lists(StageCalls(Next1Call.of), CallsOf(Stage(Next1Call.of)))
          BY <2>0, <3>1, CallsOfAre
        <5>2. EnterMarked("stage", Stage(Next1Call.of), StageCalls(Next1Call.of))
          BY <4>4 DEF EnterStage
        <5> QED BY <2>0, <3>1, <4>2, <5>1, <5>2, MarkedStep
      <4> QED BY <2>0, <3>1, <3>3, <4>1, <4>2, <4>3, <4>4, ClosureStep, TargetStep, StrategiesStep,
                 WriteStep DEF NinjaNext
    <3> QED BY <3>2, <3>3
  <2> QED BY <2>1, <2>2 DEF Next, Native, Stay, vars
<1> QED BY <1>1, <1>2, FinishInvariance, PTL DEF Spec

-----------------------------------------------------------------------------
(* How the local executor fails.                                           *)

NInv ==
  /\ phase = "cycle" =>
       \/ root \notin Genrules /\ Cyclic(root)
       \/ \E t \in wanted : Cyclic(t)
       \/ \E e \in edges : e[1] = e[2]
  /\ phase # "cycle" => \A t \in wanted : ~Cyclic(t)
  /\ phase = "unsupported" => \E t \in wanted : IsCompiled(t) /\ ~ValidStrategies(t)
  /\ phase = "stalled" => done # nodes
  /\ phase \in {"built", "stalled"} => done = Completes(nodes, edges)

LEMMA SameFailures ==
  ASSUME NInv, UNCHANGED <<refs, root, nativeVars>>
  PROVE NInv'
<1> USE DEF nativeVars, found, graph
<1>1. \A t : (Cyclic(t)' <=> Cyclic(t)) /\ (ValidStrategies(t)' <=> ValidStrategies(t))
  BY SameClosure, SameCalls
<1>2. \A a : Prepared(a)' <=> Prepared(a)
  BY SamePrepared
<1>3. Completes(nodes, edges)' = Completes(nodes, edges)
  BY <1>2 DEF Completes
<1> QED BY <1>1, <1>3 DEF NInv

LEMMA FailureStep ==
  ASSUME NInv, NativeNext, root \in Roots
  PROVE NInv'
<1> USE DEF found, graph
<1>0. UNCHANGED <<refs, root>>
  BY DEF NativeNext, Start, Pass, Connect, Execute
<1>1. \A t : (Cyclic(t)' <=> Cyclic(t)) /\ (ValidStrategies(t)' <=> ValidStrategies(t))
  BY <1>0, SameClosure, SameCalls
<1>2. CASE Start
  <2>1. CASE phase' = "refused" \/ (phase' = "discover" /\ root \in Genrules) \/ phase' = "cycle"
    BY <1>0, <1>1, <1>2, <2>1 DEF Start, NInv
  <2>2. CASE phase' = "discover" /\ root \notin Genrules
    <3>1. ~Cyclic(root) /\ wanted' = Closure(root) /\ root \in Targets
      BY <1>2, <2>2, RootsAssumption DEF Start
    <3>2. \A t \in wanted' : ~Cyclic(t)
      BY <3>1, ClosureWithin
    <3> QED BY <1>1, <2>2, <3>2 DEF NInv
  <2> QED BY <1>2, <2>1, <2>2 DEF Start
<1>3. CASE Pass
  <2> DEFINE named == NamedTargets(PassItems)
  <2>1. /\ wanted' = wanted \cup UNION {Closure(t) : t \in named}
        /\ phase' = (IF \E t \in named : Cyclic(t) THEN "cycle"
                     ELSE IF found' = found THEN "discovered" ELSE "discover")
        /\ \A t \in wanted : ~Cyclic(t)
    BY <1>3 DEF Pass, NInv
  <2>2. named \subseteq Targets
    BY DEF NamedTargets
  <2> HIDE DEF named
  <2>3. CASE \E t \in named : Cyclic(t)
    <3>1. PICK t \in named : Cyclic(t)
      BY <2>3
    <3>2. t \in wanted'
      BY <2>1, <2>2, <3>1, ClosureClosed
    <3> QED BY <1>1, <2>1, <3>1, <3>2 DEF NInv
  <2>4. CASE ~\E t \in named : Cyclic(t)
    <3>1. \A t \in wanted' : ~Cyclic(t)
      BY <2>1, <2>2, <2>4, ClosureWithin
    <3>2. phase' \in {"discovered", "discover"}
      BY <2>1, <2>4
    <3> QED BY <1>1, <3>1, <3>2 DEF NInv
  <2> QED BY <2>3, <2>4
<1>4. CASE Connect
  <2>1. \A t \in wanted' : ~Cyclic(t)'
    BY <1>1, <1>4 DEF Connect, NInv
  <2>2. CASE phase' = "unsupported"
    BY <1>1, <1>4, <2>1, <2>2 DEF Connect, NInv
  <2>3. CASE phase' = "cycle" /\ \E e \in edges' : e[1] = e[2]
    BY <2>3 DEF NInv
  <2>4. CASE phase' = "connected"
    BY <2>1, <2>4 DEF NInv
  <2> QED BY <1>4, <2>2, <2>3, <2>4 DEF Connect
<1>5. CASE Execute
  <2>1. \A a : Prepared(a)' <=> Prepared(a)
    BY <1>0, SamePrepared
  <2>2. UNCHANGED <<nodes, edges>> /\ done' = Completes(nodes, edges)
    BY <1>5 DEF Execute
  <2>3. Completes(nodes, edges)' = Completes(nodes, edges)
    BY <2>1, <2>2 DEF Completes
  <2>4. phase' = (IF done' = nodes THEN "built" ELSE "stalled") /\ \A t \in wanted' : ~Cyclic(t)'
    BY <1>1, <1>5 DEF Execute, NInv
  <2> QED BY <2>2, <2>3, <2>4 DEF NInv
<1> QED BY <1>2, <1>3, <1>4, <1>5 DEF NativeNext

-----------------------------------------------------------------------------
(* Who waits for whom.                                                     *)

\* among finite sets there is one that holds no other
LEMMA LeastOne ==
  ASSUME NEW T, T # {}, \A x \in T : IsFiniteSet(x)
  PROVE \E x \in T : \A y \in T : y \subseteq x => y = x
<1> DEFINE F == FiniteSubsetsOf(UNION T)
           R == StrictSubsetOrdering(UNION T)
<1>1. T \subseteq F
  BY DEF FiniteSubsetsOf
<1>2. IsWellFoundedOn(R, F)
  BY FS_StrictSubsetOrderingWellFounded
<1>3. PICK x \in T : \A y \in T : <<y, x>> \notin R
  <2> HIDE DEF R, F
  <2> QED BY <1>1, <1>2, WFMin
<1>4. \A y \in T : y \subseteq x => y = x
  BY <1>3 DEF StrictSubsetOrdering
<1> QED BY <1>4

LEMMA UptoWithin ==
  ASSUME Ordered, NEW a \in nodes, NEW b \in Upto(a)
  PROVE b \in nodes /\ Upto(b) \subseteq Upto(a)
<1> DEFINE next == [c \in nodes |-> Before(edges, c)]
           C == Upto(a)
<1>1. /\ b \in nodes /\ Before(edges, b) \subseteq C
      /\ \A c \in C : c \in nodes /\ Before(edges, c) \subseteq C
  BY UptoClosed
<1>2. Cardinality(nodes) \in Nat
  BY FiniteNodes, FS_CardinalityType
<1>3. \A c \in C : next[c] \subseteq C
  BY <1>1
<1> HIDE DEF next, C
<1>4. Grown(Before(edges, b), next, Cardinality(nodes)) \subseteq C
  BY <1>1, <1>2, <1>3, GrownLeast
<1>5. Upto(b) \subseteq C
  BY <1>4 DEF Upto, next
<1> QED BY <1>1, <1>5 DEF C

\* among actions of which each waits for another there are some that wait for
\* themselves: those of the least m
LEMMA LeastLoop ==
  ASSUME Ordered, NEW S \in SUBSET nodes, S # {},
         \A x \in S : Before(edges, x) \cap S # {}
  PROVE \E m \in SUBSET S : m # {} /\ \A y \in m : Upto(y) \cap S = m
<1>1. \A x \in S : Upto(x) \subseteq nodes /\ IsFiniteSet(nodes)
  BY UptoClosed, FiniteNodes
<1> DEFINE T == {Upto(x) \cap S : x \in S}
<1>2. T \in SUBSET SUBSET nodes /\ T # {} /\ \A m \in T : IsFiniteSet(m)
  <2>1. \A x \in S : IsFiniteSet(Upto(x) \cap S)
    <3> TAKE x \in S
    <3>1. IsFiniteSet(nodes) /\ Upto(x) \cap S \subseteq nodes
      BY <1>1
    <3> QED BY <3>1, FS_Subset
  <2>2. T \in SUBSET SUBSET nodes
    BY <1>1
  <2> QED BY <2>1, <2>2
<1>3. PICK m \in T : \A y \in T : y \subseteq m => y = m
  <2> HIDE DEF T
  <2> QED BY <1>2, LeastOne
<1>4. PICK x \in S : m = Upto(x) \cap S
  BY <1>3
<1>5. m # {}
  BY <1>4, UptoClosed
<1>6. ASSUME NEW y \in m PROVE Upto(y) \cap S = m
  <2>1. Upto(y) \subseteq Upto(x) /\ y \in S
    BY <1>4, <1>6, UptoWithin
  <2> QED BY <1>3, <1>4, <2>1
<1> QED BY <1>4, <1>5, <1>6

-----------------------------------------------------------------------------
(* What Ninja builds.                                                      *)

\* of what Ninja runs, something does not wait for the rest
LEMMA NinjaRunsOne ==
  ASSUME Over, IsFiniteSet(written), AllRunByNinja,
         NEW T \in SUBSET Upstream({RootAction}), T # {}
  PROVE \E a \in T : Inputs(a) \cap T = {}
<1> DEFINE U == Upstream({RootAction})
           waits == [a \in U |-> Inputs(a)]
           C == U \ T
<1>1. IsFiniteSet(U)
  BY UpstreamWritten, FS_Subset
<1>2. U = Ran(U, waits, Cardinality(U))
  BY DEF AllRunByNinja
<1>3. SUFFICES ASSUME \A a \in T : Inputs(a) \cap T # {} PROVE FALSE
  OBVIOUS
<1>4. \A a \in U : waits[a] \subseteq C => a \in C
  BY <1>3
<1> HIDE DEF U, waits, C
<1>5. Ran(U, waits, Cardinality(U)) \subseteq C
  BY <1>1, <1>4, RanLeast
<1>6. U \subseteq C
  BY <1>2, <1>5
<1> QED BY <1>6 DEF C, U

LEMMA NinjaAlone ==
  ASSUME FInv, WInv, NInv, Compared, verdict = "built"
  PROVE phase = "built" \/ OnlyLocalRefused \/ \E e \in edges : OnlyLocal(e)
<1>0. /\ Over /\ IsFiniteSet(written) /\ AllRunByNinja
      /\ phase \in {"unsupported", "cycle", "built", "stalled"}
  BY DEF WInv, FInv, GInv, IInv, Whole, Over, Compared, Ended
<1>1. \A t \in wanted \cap emitted :
        ~Cyclic(t) /\ (IsCompiled(t) => ValidStrategies(t) /\ \A a \in CompileActions(t) : Prepared(a))
  <2> SUFFICES ASSUME NEW t \in emitted
               PROVE ~Cyclic(t) /\ (IsCompiled(t) => ValidStrategies(t) /\ \A a \in CompileActions(t) : Prepared(a))
    OBVIOUS
  <2>1. ~Cyclic(t) /\ Final(t) \in Entered
    BY <1>0, AllMade
  <2>2. ASSUME IsCompiled(t) PROVE ValidStrategies(t)
    <3>1. Call("strategies", t) \in CallsOf(Final(t))
      BY <2>2 DEF CallsOf, Final, Action, FinalCalled, IsCompiled, Compiled, Consumers
    <3>2. Made(Call("strategies", t))
      BY <1>0, <2>1, <3>1, AllMade
    <3> QED BY <3>2 DEF Made, Call
  <2>3. ASSUME IsCompiled(t), NEW a \in CompileActions(t) PROVE Prepared(a)
    <3>1. a \in Statements(Final(t))
      BY <2>3 DEF Statements, Final, Action
    <3>2. ~CannotCompile(a)
      BY <1>0, <2>1, <3>1, AllMade
    <3> QED BY <3>2 DEF CannotCompile, Prepared, ValidSource
  <2> QED BY <2>1, <2>2, <2>3
<1>2. CASE phase = "unsupported"
  BY <1>1, <1>2 DEF NInv, OnlyLocalRefused
<1>3. CASE phase = "cycle"
  <2>1. CASE root \notin Genrules /\ Cyclic(root)
    <3>1. Made(RootCall)
      BY <1>0, AllMade
    <3> QED BY <2>1, <3>1 DEF RootCall, Made, Call
  <2>2. CASE \E t \in wanted : Cyclic(t)
    BY <1>1, <2>2 DEF OnlyLocalRefused
  <2>3. CASE \E e \in edges : e[1] = e[2]
    <3>1. PICK e \in edges : e[1] = e[2]
      BY <2>3
    <3>2. CASE e[2] \in Upstream({RootAction}) /\ e[1] \in Inputs(e[2])
      <4>1. \E a \in {e[2]} : Inputs(a) \cap {e[2]} = {}
        BY <1>0, <3>2, NinjaRunsOne
      <4> QED BY <3>1, <3>2, <4>1
    <3> QED BY <3>1, <3>2 DEF OnlyLocal
  <2> QED BY <1>3, <2>1, <2>2, <2>3 DEF NInv
<1>4. CASE phase = "stalled"
  <2>1. Ordered
    BY <1>4, ConnectedIsOrdered DEF FInv, Connected
  <2>2. done # nodes /\ done = Completes(nodes, edges)
    BY <1>4 DEF NInv
  <2>3. CASE \E a \in nodes : ~Prepared(a)
    <3>1. PICK a \in nodes : ~Prepared(a)
      BY <2>3
    <3>2. a.act = "compile"
      BY <3>1 DEF Prepared
    <3>3. a.of \in wanted /\ IsCompiled(a.of) /\ a \in CompileActions(a.of)
      BY <2>1, <3>2, NodeForms
    <3> QED BY <1>1, <3>1, <3>3 DEF OnlyLocalRefused
  <2>4. CASE \A a \in nodes : Prepared(a)
    <3> DEFINE waits == [a \in nodes |-> Before(edges, a)]
               S == nodes \ done
    <3>1. IsFiniteSet(nodes)
      BY <2>1, FiniteNodes
    <3>2. done = Ran(nodes, waits, Cardinality(nodes))
      <4>1. {a \in nodes : Prepared(a)} = nodes
        BY <2>4
      <4> QED BY <2>2, <4>1 DEF Completes
    <3>3. done \subseteq nodes /\ \A a \in nodes : waits[a] \subseteq done => a \in done
      <4> HIDE DEF waits
      <4> QED BY <3>1, <3>2, RanLeast
    <3>4. S # {} /\ S \in SUBSET nodes
      BY <2>2, <3>3
    <3>5. \A x \in S : Before(edges, x) \cap S # {}
      <4> TAKE x \in S
      <4>1. Before(edges, x) \subseteq nodes
        BY <2>1, <3>4, UptoClosed
      <4>2. ~(Before(edges, x) \subseteq done)
        BY <3>3
      <4> QED BY <4>1, <4>2
    <3> HIDE DEF S, waits
    <3>6. PICK m \in SUBSET S : m # {} /\ \A y \in m : Upto(y) \cap S = m
      BY <2>1, <3>4, <3>5, LeastLoop
    <3>7. SUFFICES ASSUME ~\E e \in edges : OnlyLocal(e) PROVE FALSE
      OBVIOUS
    <3>8. ASSUME NEW y \in m PROVE y \in Upstream({RootAction}) /\ Inputs(y) \cap m # {}
      <4>1. y \in S /\ y \in nodes
        BY <3>4
      <4>2. PICK p : p \in Before(edges, y) /\ p \in S
        BY <3>5, <4>1
      <4>3. PICK e \in edges : e[1] = p /\ e[2] = y
        BY <4>2 DEF Before
      <4>4. p \in m
        BY <2>1, <3>6, <4>1, <4>2, UptoClosed
      <4>5. y \in Upto(p)
        BY <3>6, <4>4
      <4>6. ~OnlyLocal(e)
        BY <3>7
      <4>7. e[2] \in Upstream({RootAction}) /\ e[1] \in Inputs(e[2])
        BY <4>3, <4>5, <4>6 DEF OnlyLocal
      <4> QED BY <4>3, <4>4, <4>7
    <3>9. \E a \in m : Inputs(a) \cap m = {}
      <4>1. m \in SUBSET Upstream({RootAction})
        BY <3>8
      <4> QED BY <1>0, <3>6, <4>1, NinjaRunsOne
    <3> QED BY <3>8, <3>9
  <2> QED BY <2>3, <2>4
<1> QED BY <1>0, <1>2, <1>3, <1>4

-----------------------------------------------------------------------------
(* What the local executor builds.                                         *)

\* a graph of which every node completes
Complete == Ordered /\ nodes = Completes(nodes, edges) /\ \A a \in nodes : Prepared(a)

LEMMA Acyclic ==
  ASSUME Complete
  PROVE \A a \in nodes : a \notin Upto(a)
<1> DEFINE waits == [a \in nodes |-> Before(edges, a)]
           C == {a \in nodes : a \notin Upto(a)}
<1>1. IsFiniteSet(nodes) /\ Cardinality(nodes) \in Nat /\ Ordered
  BY FiniteNodes, FS_CardinalityType DEF Complete
<1>2. nodes = Ran(nodes, waits, Cardinality(nodes))
  <2>1. {a \in nodes : Prepared(a)} = nodes
    BY DEF Complete
  <2> QED BY <2>1 DEF Complete, Completes
<1>3. ASSUME NEW a \in nodes, Before(edges, a) \subseteq C, a \in Upto(a)
      PROVE FALSE
  <2> DEFINE D == Before(edges, a) \cup UNION {Upto(p) : p \in Before(edges, a)}
  <2>1. \A p \in Before(edges, a) : p \in nodes /\ p \in Upto(a)
    BY <1>1, <1>3, UptoClosed
  <2>2. \A x \in D : x \in nodes /\ Before(edges, x) \subseteq D
    <3>1. ASSUME NEW x \in Before(edges, a) PROVE x \in nodes /\ Before(edges, x) \subseteq D
      BY <1>1, <2>1, UptoClosed
    <3>2. ASSUME NEW p \in Before(edges, a), NEW x \in Upto(p)
          PROVE x \in nodes /\ Before(edges, x) \subseteq D
      BY <1>1, <2>1, UptoClosed
    <3> QED BY <3>1, <3>2
  <2>3. \A x \in D : waits[x] \subseteq D
    BY <2>2
  <2>4. Upto(a) = Grown(Before(edges, a), waits, Cardinality(nodes))
    BY DEF Upto
  <2>5. Upto(a) \subseteq D
    <3>1. Before(edges, a) \subseteq D
      OBVIOUS
    <3> HIDE DEF D, waits
    <3> QED BY <1>1, <2>3, <2>4, <3>1, GrownLeast
  <2>6. CASE a \in Before(edges, a)
    BY <1>3, <2>6
  <2>7. CASE \E p \in Before(edges, a) : a \in Upto(p)
    <3>1. PICK p \in Before(edges, a) : a \in Upto(p)
      BY <2>7
    <3>2. Upto(a) \subseteq Upto(p)
      BY <1>1, <2>1, <3>1, UptoWithin
    <3>3. p \in Upto(p)
      BY <2>1, <3>2
    <3> QED BY <1>3, <3>3
  <2> QED BY <1>3, <2>5, <2>6, <2>7
<1>4. \A a \in nodes : waits[a] \subseteq C => a \in C
  BY <1>3
<1> HIDE DEF waits, C
<1>5. nodes \subseteq C
  BY <1>1, <1>2, <1>4, RanLeast
<1> QED BY <1>5 DEF C

\* a target that compiles for itself has an action that compiles, which takes
\* what all of them take
LEMMA OwnCompile ==
  ASSUME Ordered, NEW t \in wanted, IsCompiled(t), ~ConsumerContext(t)
  PROVE /\ HasPch(t) => Pch(t) \in Upto(Final(t))
        /\ Makers(CompileUsage(t)) \subseteq Upto(Final(t))
<1>1. PICK s \in Implementations(t) : CountBefore(Implementations(t), s) = 0
  <2>1. Plain \in Implementations(t)
    BY DEF Implementations, Sources, Plain
  <2> HIDE DEF Plain
  <2> QED BY <2>1, FirstOfBatch
<1>2. EmitsObject(t, s)
  BY <1>1, BatchAssumption DEF EmitsObject
<1> DEFINE a == Compile(t, t, s)
<1>3. a \in CompileActions(t)
  BY <1>1, <1>2 DEF CompileActions, OwnActions, CompiledSources
<1>4. Final(t) \in nodes /\ a \in Waits(Final(t)) \cap nodes
  <2>1. /\ Final(t) \in nodes /\ Waits(Final(t)) = FinalWaits(t)
        /\ CompileActions(t) \subseteq nodes
    BY TargetFound
  <2> QED BY <1>3, <2>1 DEF FinalWaits, LinkWaits
<1>5. Waits(a) = CompileWaits(t, t, s)
  BY DEF Waits, Compile
<1>6. Waits(a) \cap nodes \subseteq Upto(Final(t))
  <2> HIDE DEF a
  <2> QED BY <1>4, WaitsUpto
<1>7. HasPch(t) => Pch(t) \in Waits(a) \cap nodes
  BY <1>5, TargetFound DEF CompileWaits
<1>8. Makers(CompileUsage(t)) \subseteq Waits(a) \cap nodes
  BY <1>5, UsageFound DEF CompileWaits, Ordered
<1> QED BY <1>6, <1>7, <1>8

-----------------------------------------------------------------------------
(* The target that an action is for.                                       *)

ForFinal(a) == IF a.act \in {"compile", "pch"} THEN Final(a.of) ELSE a

LEMMA FinalAfter ==
  ASSUME Ordered, NEW a \in nodes
  PROVE /\ ForFinal(a) \in nodes
        /\ Upto(a) \subseteq Upto(ForFinal(a))
        /\ a.act \in {"compile", "pch"} =>
             /\ a.of \in wanted /\ a \in Upto(ForFinal(a))
             /\ Makers(Headers(a.of)) \subseteq Upto(ForFinal(a))
<1>1. CASE a.act \notin {"compile", "pch"}
  BY <1>1 DEF ForFinal
<1>2. CASE a.act \in {"compile", "pch"}
  <2> DEFINE t == a.of
  <2>1. t \in wanted /\ ForFinal(a) = Final(t)
    BY <1>2, NodeForms DEF ForFinal
  <2>2. IsCompiled(t)
    <3>1. CASE a.act = "compile"
      BY <3>1, NodeForms
    <3>2. CASE a.act = "pch"
      <4>1. a \in AllNodes
        BY DEF Ordered
      <4> QED BY <3>2, <4>1 DEF AllNodes, TargetNodes, CompileActions, OwnActions, Rule, Stage, Final, Pch,
                                Compile, Action, HasPch
    <3> QED BY <1>2, <3>1, <3>2
  <2>3. /\ Final(t) \in nodes /\ Waits(Final(t)) = FinalWaits(t)
        /\ CompileActions(t) \subseteq nodes
        /\ \A g \in ConsumedRules(t) : Rule(g) \in nodes
    BY <2>1, <2>2, TargetFound
  <2>4. Waits(Final(t)) \cap nodes \subseteq Upto(Final(t))
    BY <2>3, WaitsUpto
  <2>5. a \in Upto(Final(t))
    <3>1. CASE a.act = "compile"
      <4>1. a \in CompileActions(t)
        BY <3>1, NodeForms
      <4> QED BY <2>2, <2>3, <2>4, <4>1 DEF FinalWaits, LinkWaits
    <3>2. CASE a.act = "pch"
      <4>1. HasPch(t) /\ a = Pch(t)
        <5>1. a \in AllNodes
          BY DEF Ordered
        <5> QED BY <3>2, <5>1 DEF AllNodes, TargetNodes, CompileActions, OwnActions, Rule, Stage, Final, Pch,
                                  Compile, Action
      <4>2. ~ConsumerContext(t)
        BY <2>1, <2>2, <4>1 DEF Ordered, ValidStrategies
      <4> QED BY <2>1, <2>2, <4>1, <4>2, OwnCompile
    <3> QED BY <1>2, <3>1, <3>2
  <2>6. Upto(a) \subseteq Upto(Final(t))
    BY <2>3, <2>5, UptoWithin
  <2>7. Makers(Headers(t)) \subseteq Upto(Final(t))
    <3>1. Makers(Headers(t)) = {Rule(g) : g \in Rules(Headers(t))}
      BY <2>1, SourcesFound DEF Headers, Ordered
    <3>2. Rules(Headers(t)) \subseteq ConsumedRules(t)
      BY DEF ConsumedRules, Rules, Headers
    <3>3. {Rule(g) : g \in ConsumedRules(t)} \subseteq Waits(Final(t)) \cap nodes
      BY <2>2, <2>3 DEF FinalWaits, LinkWaits
    <3> QED BY <2>4, <3>1, <3>2, <3>3
  <2> QED BY <2>1, <2>3, <2>5, <2>6, <2>7
<1> QED BY <1>1, <1>2

\* the makers of items compile nothing
LEMMA MakersAct ==
  ASSUME NEW S, NEW y \in Makers(S)
  PROVE y.act \in {"stage", "final", "rule"}
BY DEF Makers, Maker, Stage, Final, Rule, Action

\* an input that compiles is for the target itself or for one it refers to
LEMMA InputOwners ==
  ASSUME Ordered, NEW x \in nodes, NEW y \in Inputs(x), y.act \in {"compile", "pch"}
  PROVE \/ y.of = x.of /\ x.act \in {"compile", "pch", "final"}
        \/ x.act = "final" /\ y.of \in Next1(x.of)
<1> DEFINE t == x.of
<1>1. x.act \in {"rule", "stage", "compile", "pch", "final"}
  <2>1. x \in AllNodes
    BY DEF Ordered
  <2> QED BY <2>1 DEF AllNodes, TargetNodes, CompileActions, OwnActions, Rule, Stage, Final, Pch, Compile, Action
<1>2. CASE x.act \in {"rule", "stage"}
  BY <1>2, MakersAct DEF Inputs, RuleInputs
<1>3. CASE x.act = "compile"
  <2>1. y \in CompileInputs(t, x.owner, x.src)
    BY <1>3 DEF Inputs
  <2>2. CASE y \in BmiReads(t, x.owner, x.src)
    BY <1>3, <2>2 DEF BmiReads, Compile
  <2>3. CASE y = Pch(t)
    BY <1>3, <2>3 DEF Pch, Action
  <2>4. CASE y \in SourceInputs(t, x.owner, x.src) \cup Makers(Headers(t) \cup Headers(x.owner))
                     \cup CompileUsageInputs(t)
    BY <2>4, MakersAct DEF SourceInputs, CompileUsageInputs
  <2> QED BY <2>1, <2>2, <2>3, <2>4 DEF CompileInputs
<1>4. CASE x.act = "pch"
  BY <1>4, MakersAct DEF Inputs, PchInputs, CompileUsageInputs
<1>5. CASE x.act = "final"
  <2>1. y \in FinalInputs(t)
    BY <1>5 DEF Inputs
  <2>2. y \notin DepAliases(t)
    BY DEF DepAliases, Final, Rule, Action
  <2>3. \A o \in {t} \cup Labels(t, "objects") : y \in ObjectsFor(t, o) => y.of \in {t, o}
    <3> SUFFICES ASSUME NEW o, y \in ObjectsFor(t, o) PROVE y.of \in {t, o}
      OBVIOUS
    <3>1. y \notin Makers({s \in Sources(o) : s.out = "o"})
      BY MakersAct
    <3> QED BY <3>1 DEF ObjectsFor, Compile
  <2>4. CASE Kind[t] = "run_target"
    <3>1. FinalInputs(t) = RunItemInputs(t) \cup DepAliases(t)
      BY <2>4 DEF FinalInputs, RunInputs, Consumers
    <3>2. y \in RunItemInputs(t)
      BY <2>1, <2>2, <3>1
    <3> QED BY <3>2, MakersAct DEF RunItemInputs
  <2>5. CASE Kind[t] = "objectlib"
    <3>0. FinalInputs(t) = ObjectlibInputs(t)
      BY <2>5 DEF FinalInputs, Consumers
    <3>1. y \in ObjectsFor(t, t)
      BY <2>1, <2>2, <3>0 DEF ObjectlibInputs
    <3> QED BY <1>5, <2>3, <3>1
  <2>6. CASE Kind[t] \in Consumers
    <3>1. y \notin Makers(Items(t, "link_inputs")) /\ y \notin Makers(LinkUsage(t))
      BY MakersAct
    <3>2. y \notin DepArtifacts(t)
      BY SameArtifacts DEF Final, Action
    <3>3. PICK o \in {t} \cup Labels(t, "objects") : y \in ObjectsFor(t, o)
      BY <2>1, <2>2, <2>6, <3>1, <3>2, LinkedInputs
    <3>4. y.of = t \/ y.of = o
      BY <2>3, <3>3
    <3>5. o # t => o \in Next1(t)
      <4>1. t \in Targets
        BY <1>5, NodeForms DEF Ordered, Whole
      <4>2. o # t => o \in Targets
        BY <3>3, <4>1 DEF Ordered, Valid, ValidTarget, ValidObjects, Labels
      <4> QED BY <3>3, <4>2 DEF Next1
    <3> QED BY <1>5, <3>4, <3>5
  <2>7. CASE Kind[t] \notin Consumers \cup {"run_target", "objectlib"}
    BY <2>1, <2>2, <2>7 DEF FinalInputs, Consumers
  <2> QED BY <2>4, <2>5, <2>6, <2>7
<1> QED BY <1>1, <1>2, <1>3, <1>4, <1>5

\* an input comes before, for the same target at the latest, or is a header
\* that the final action of the target waits for
LEMMA InputsAfter ==
  ASSUME Ordered, NEW x \in nodes, Prepared(x), NEW y \in Inputs(x) \cap nodes
  PROVE \/ y \in Upto(x) /\ Upto(ForFinal(y)) \subseteq Upto(ForFinal(x))
        \/ y = ForFinal(y) /\ y \in Upto(ForFinal(x))
<1>1. CASE y.act \in {"compile", "pch"}
  <2>1. y \in Upto(x)
    <3>1. \A S : y \notin Makers(S)
      BY <1>1, MakersAct
    <3> QED BY <3>1, InputsUpto
  <2>2. CASE y.of = x.of /\ x.act \in {"compile", "pch", "final"}
    <3>1. ForFinal(y) = ForFinal(x)
      BY <1>1, <2>2, NodeForms DEF ForFinal
    <3> QED BY <2>1, <3>1
  <2>3. CASE x.act = "final" /\ y.of \in Next1(x.of)
    <3>1. x.of \in wanted /\ x = Final(x.of) /\ ForFinal(x) = x
      BY <2>3, NodeForms DEF ForFinal
    <3>2. Final(y.of) \in Upto(x)
      BY <2>3, <3>1, DepsUpto
    <3>3. ForFinal(y) = Final(y.of)
      BY <1>1 DEF ForFinal
    <3>4. Upto(ForFinal(y)) \subseteq Upto(x)
      BY <3>2, <3>3, UptoWithin
    <3> QED BY <2>1, <3>1, <3>4
  <2> QED BY <1>1, <2>2, <2>3, InputOwners
<1>2. CASE y.act \notin {"compile", "pch"}
  <2>1. ForFinal(y) = y
    BY <1>2 DEF ForFinal
  <2>2. Upto(x) \subseteq Upto(ForFinal(x)) /\ ForFinal(x) \in nodes
    BY FinalAfter
  <2>3. CASE y \in Upto(x)
    BY <2>1, <2>2, <2>3
  <2>4. CASE x.act \in {"compile", "pch"} /\ y \in Makers(Headers(x.of))
    BY <2>1, <2>4, FinalAfter
  <2> QED BY <2>3, <2>4, InputsUpto
<1> QED BY <1>1, <1>2

\* what Ninja has to build of what the local executor built holds no cycle
LEMMA NinjaRunsAll ==
  ASSUME Complete, Over, IsFiniteSet(written), RootAction \in nodes
  PROVE AllRunByNinja
<1> DEFINE U == Upstream({RootAction})
           waits == [a \in U |-> Inputs(a)]
           R == Ran(U, waits, Cardinality(U))
           T == U \ R
           Big(x) == Upto(ForFinal(x))
<1>1. IsFiniteSet(U) /\ U \subseteq nodes /\ (\A a \in U : Inputs(a) \subseteq U) /\ Ordered
  BY UpstreamWritten, UpstreamWithin, FiniteNodes, FS_Subset DEF Complete
<1>2. R \subseteq U /\ \A a \in U : waits[a] \subseteq R => a \in R
  <2> HIDE DEF U, waits
  <2> QED BY <1>1, RanLeast
<1>3. SUFFICES ASSUME T # {} PROVE FALSE
  BY <1>2 DEF AllRunByNinja
<1>4. \A x \in T : x \in nodes /\ Inputs(x) \cap T # {}
  BY <1>1, <1>2
<1> HIDE DEF T, R, waits, U
<1>5. T \subseteq nodes
  BY <1>4
<1>6. \A x \in nodes : /\ ForFinal(x) \in nodes /\ IsFiniteSet(Upto(x)) /\ Upto(x) \subseteq nodes
                       /\ IsFiniteSet(Big(x)) /\ Big(x) \subseteq nodes
  <2>1. \A x \in nodes : IsFiniteSet(Upto(x)) /\ Upto(x) \subseteq nodes
    BY <1>1, UptoClosed, FiniteNodes, FS_Subset
  <2> QED BY <1>1, <2>1, FinalAfter
<1>7. ASSUME NEW x \in T, NEW y \in Inputs(x) \cap T
      PROVE \/ y \in Upto(x) /\ Big(y) \subseteq Big(x)
            \/ y = ForFinal(y) /\ y \in Big(x)
  <2>1. x \in nodes /\ y \in nodes /\ Prepared(x)
    BY <1>5 DEF Complete
  <2> QED BY <1>1, <1>7, <2>1, InputsAfter
<1> DEFINE P == {Big(x) : x \in T}
<1>8. PICK M \in P : \A N \in P : N \subseteq M => N = M
  <2>1. P \in SUBSET SUBSET nodes /\ P # {} /\ \A N \in P : IsFiniteSet(N)
    BY <1>3, <1>5, <1>6
  <2> HIDE DEF P
  <2> QED BY <2>1, LeastOne
<1> DEFINE T2 == {x \in T : Big(x) = M}
           Q == {Upto(x) : x \in T2}
<1>9. ASSUME NEW x \in T2, NEW y \in Inputs(x) \cap T
      PROVE y \in T2 /\ y \in Upto(x)
  <2>1. CASE y \in Upto(x) /\ Big(y) \subseteq Big(x)
    BY <1>8, <2>1
  <2>2. CASE y = ForFinal(y) /\ y \in Big(x)
    <3>1. Big(y) \subseteq Big(x)
      BY <1>1, <1>5, <1>6, <2>2, UptoWithin
    <3>2. Big(y) = Big(x)
      BY <1>8, <3>1
    <3>3. y \in Upto(y) /\ y \in nodes
      BY <1>5, <2>2, <3>2
    <3> QED BY <3>3, Acyclic
  <2> QED BY <1>7, <2>1, <2>2
<1>10. PICK L \in Q : \A N \in Q : N \subseteq L => N = L
  <2>1. Q \in SUBSET SUBSET nodes /\ Q # {} /\ \A N \in Q : IsFiniteSet(N)
    BY <1>5, <1>6, <1>8
  <2> HIDE DEF Q, T2, P, Big
  <2> QED BY <2>1, LeastOne
<1>11. PICK x \in T2 : L = Upto(x)
  BY <1>10
<1>12. PICK y : y \in Inputs(x) \cap T
  BY <1>4
<1>13. y \in T2 /\ y \in Upto(x)
  BY <1>9, <1>12
<1>14. Upto(y) \subseteq Upto(x)
  BY <1>1, <1>5, <1>13, UptoWithin
<1>15. y \in Upto(y)
  BY <1>10, <1>11, <1>13, <1>14
<1> QED BY <1>5, <1>13, <1>15, Acyclic

-----------------------------------------------------------------------------
(* The walk stays within the action graph, and goes to what comes before.  *)

\* calls for what the local executor builds
Known(X) == \A c \in X : Called(c) \in nodes /\ (c.call = "strategies" => IsCompiled(c.of))

\* calls for what comes before a
CallsBefore(X, a) ==
  a # Nothing => \A c \in X : c.call # "strategies" => Called(c) \in Upto(a)

LEMMA MakersKnown ==
  ASSUME Valid, IsFiniteSet(refs), NEW items, Callable(items), NEW a, a # Nothing
  PROVE /\ Makers(items) \subseteq nodes => Known(MakersCalled(items))
        /\ Makers(items) \subseteq Upto(a) => CallsBefore(MakersCalled(items), a)
<1>1. /\ \A c \in MakersCalled(items) : Called(c) \in Makers(items)
      /\ \A c \in MakersCalled(items) : c.call \notin {"target", "strategies"}
  BY MakerCallsAre
<1> QED BY <1>1 DEF Known, CallsBefore

LEMMA RulesKnown ==
  ASSUME NEW gs, NEW a
  PROVE /\ (\A g \in gs : Rule(g) \in nodes) => Known(RulesCalled(gs))
        /\ (\A g \in gs : Rule(g) \in Upto(a)) => CallsBefore(RulesCalled(gs), a)
BY DEF Known, CallsBefore, RulesCalled, Called, Call

\* what only Ninja follows: usage of an object library that compiles nothing
Detour(t) == ConsumerContext(t) /\ CompileUsage(t) # {}

LEMMA FinalKnown ==
  ASSUME Ordered, NEW t \in wanted
  PROVE Known(FinalCalled(t)) /\ (Detour(t) \/ CallsBefore(FinalCalled(t), Final(t)))
<1> DEFINE a == Final(t)
<1>0. Valid /\ IsFiniteSet(refs) /\ t \in Targets /\ FoundAll
  BY DEF Ordered, Whole
<1>1. /\ a \in nodes /\ a # Nothing /\ a.act = "final" /\ a.of = t
      /\ Waits(a) = FinalWaits(t)
      /\ \A g \in ConsumedRules(t) \cup DepRules(t) : Rule(g) \in nodes
  BY TargetFound DEF Final, Nothing, Action
<1>2. Waits(a) \cap nodes \subseteq Upto(a) /\ NamedReads(a) \subseteq Upto(a) /\ Upto(a) \subseteq nodes
  BY <1>1, WaitsUpto, NamedUpto
<1>3. \A g \in DepRules(t) : Rule(g) \in Upto(a)
  BY <1>1, <1>2 DEF FinalWaits, DepWaits
<1>4. Known(RulesCalled(DepRules(t))) /\ CallsBefore(RulesCalled(DepRules(t)), a)
  BY <1>1, <1>3, RulesKnown
<1> HIDE DEF a
<1>5. CASE Kind[t] = "run_target"
  <2> DEFINE I == Items(t, "run_inputs")
             J == Tokens(Items(t, "run_command"))
  <2>1. Callable(I) /\ Callable(J)
    BY <1>0, ItemsCallable DEF Callable, Tokens
  <2>2. Makers(I) \subseteq Upto(a) /\ Makers(J) \subseteq Upto(a)
    <3>1. NamedReads(a) = Makers(J \cup I)
      BY <1>1, <1>5 DEF NamedReads, Consumers
    <3> QED BY <1>2, <3>1, MakersSplit
  <2>3. FinalCalled(t) = RulesCalled(DepRules(t)) \cup (MakersCalled(I) \cup MakersCalled(J))
    BY <1>5 DEF FinalCalled
  <2> HIDE DEF I, J
  <2>4. /\ Known(MakersCalled(I)) /\ CallsBefore(MakersCalled(I), a)
        /\ Known(MakersCalled(J)) /\ CallsBefore(MakersCalled(J), a)
    BY <1>0, <1>1, <1>2, <2>1, <2>2, MakersKnown
  <2> QED BY <1>4, <2>3, <2>4 DEF Known, CallsBefore, a
<1>6. CASE IsCompiled(t)
  <2> DEFINE C == Consumes(t)
             L == Items(t, "link_inputs")
             U == CompileUsage(t)
             V == LinkUsage(t)
             S == Call("strategies", t)
  <2>1. Callable(L) /\ Callable(U) /\ Callable(V)
    BY <1>0, ItemsCallable
  <2>2. Known(RulesCalled(C)) /\ CallsBefore(RulesCalled(C), a)
    <3>1. C = ConsumedRules(t)
      BY DEF Consumes, ConsumedRules
    <3>2. \A g \in C : Rule(g) \in nodes /\ Rule(g) \in Upto(a)
      BY <1>1, <1>2, <1>6, <3>1 DEF FinalWaits, LinkWaits
    <3> QED BY <3>2, RulesKnown
  <2>3. Makers(L) \subseteq Upto(a)
    <3>1. CASE Kind[t] \in Consumers
      <4>1. Makers(L) \subseteq NamedReads(a)
        BY <1>1, <3>1, MakersSplit DEF NamedReads, Consumers
      <4> QED BY <1>2, <4>1
    <3>2. CASE Kind[t] = "objectlib"
      <4>1. L = {}
        BY <1>0, <3>2 DEF Valid, ValidTarget
      <4> QED BY <4>1 DEF Makers
    <3> QED BY <1>6, <3>1, <3>2 DEF IsCompiled, Compiled
  <2>4. Makers(V) \subseteq Upto(a) /\ Makers(V) \subseteq nodes /\ Makers(U) \subseteq nodes
    <3>1. Makers(V) \subseteq nodes /\ Makers(U) \subseteq nodes
      BY UsageFound DEF Ordered
    <3>2. Makers(V) \subseteq Waits(a)
      BY <1>1, <1>6, MakersSplit DEF FinalWaits, LinkWaits
    <3> QED BY <1>2, <3>1, <3>2
  <2>5. Detour(t) \/ Makers(U) \subseteq Upto(a)
    <3>1. CASE ~ConsumerContext(t)
      BY <1>6, <3>1, OwnCompile DEF a
    <3>2. CASE U = {}
      BY <3>2 DEF Makers
    <3> QED BY <3>1, <3>2 DEF Detour
  <2>6. /\ Called(S) = a /\ S.call = "strategies" /\ S.of = t
    BY DEF Called, Call, a
  <2>7. FinalCalled(t) = RulesCalled(DepRules(t)) \cup ({S} \cup RulesCalled(C) \cup MakersCalled(L)
                           \cup MakersCalled(U) \cup MakersCalled(V))
    BY <1>6 DEF FinalCalled, IsCompiled, Compiled, Consumers
  <2> HIDE DEF C, L, U, V, S
  <2>8. /\ Known(MakersCalled(L)) /\ CallsBefore(MakersCalled(L), a)
        /\ Known(MakersCalled(V)) /\ CallsBefore(MakersCalled(V), a)
        /\ Known(MakersCalled(U)) /\ (Detour(t) \/ CallsBefore(MakersCalled(U), a))
    BY <1>0, <1>1, <1>2, <2>1, <2>3, <2>4, <2>5, MakersKnown
  <2>9. Known({S}) /\ CallsBefore({S}, a)
    BY <1>1, <1>6, <2>6 DEF Known, CallsBefore
  <2> QED BY <1>4, <2>2, <2>7, <2>8, <2>9 DEF Known, CallsBefore, a
<1>7. CASE Kind[t] # "run_target" /\ ~IsCompiled(t)
  <2>1. FinalCalled(t) = RulesCalled(DepRules(t))
    BY <1>7 DEF FinalCalled
  <2> QED BY <1>4, <2>1 DEF a
<1> QED BY <1>5, <1>6, <1>7

LEMMA CallsKnown ==
  ASSUME Ordered, NEW a \in nodes, a \in Headed
  PROVE Known(CallsOf(a)) /\ ((a.act = "final" /\ Detour(a.of)) \/ CallsBefore(CallsOf(a), a))
<1>0. Valid /\ IsFiniteSet(refs) /\ NamedReads(a) \subseteq Upto(a) /\ Upto(a) \subseteq nodes
  BY WaitsUpto, NamedUpto DEF Ordered, Whole
<1>1. a # Nothing /\ a.act \in {"final", "rule", "stage"}
  <2>1. a \in AllNodes
    BY DEF Ordered
  <2> QED BY <2>1 DEF AllNodes, TargetNodes, CompileActions, OwnActions, Rule, Stage, Final, Pch, Compile, Action,
                   Headed, Nothing
<1>2. CASE a.act = "final"
  <2>1. a.of \in wanted /\ a = Final(a.of)
    BY <1>2, NodeForms
  <2>2. CallsOf(a) = FinalCalled(a.of)
    BY <1>2 DEF CallsOf
  <2> QED BY <1>2, <2>1, <2>2, FinalKnown
<1>3. CASE a.act = "rule"
  <2>1. Callable(OtherItems(a.of)) /\ CallsOf(a) = MakersCalled(OtherItems(a.of))
    BY <1>0, <1>3, GenruleCallsAre DEF CallsOf
  <2>2. NamedReads(a) = Makers(OtherItems(a.of))
    BY <1>3 DEF NamedReads, OtherItems
  <2> QED BY <1>0, <1>1, <2>1, <2>2, MakersKnown
<1>4. CASE a.act = "stage"
  <2>1. Callable(Items(a.of, "files")) /\ CallsOf(a) = MakersCalled(Items(a.of, "files"))
    BY <1>0, <1>4, ItemsCallable DEF CallsOf
  <2>2. NamedReads(a) = Makers(Items(a.of, "files"))
    BY <1>4 DEF NamedReads
  <2> QED BY <1>0, <1>1, <2>1, <2>2, MakersKnown
<1> QED BY <1>1, <1>2, <1>3, <1>4

\* a closure is of what is wanted, and comes before whatever its target does
LEMMA ClosureUpto ==
  ASSUME Ordered, NEW t \in wanted
  PROVE /\ Closure(t) \subseteq wanted
        /\ \A a \in nodes : Final(t) \in Upto(a) => \A u \in Closure(t) : Final(u) \in Upto(a)
<1> DEFINE next == [x \in Targets |-> Next1(x)]
<1>0. Cardinality(Targets) \in Nat /\ wanted \subseteq Targets /\ \A u \in wanted : Next1(u) \subseteq wanted
  BY NamesAssumption, FS_CardinalityType DEF Ordered, Whole
<1>1. Closure(t) = {t} \cup Grown(Next1(t), next, Cardinality(Targets))
  BY DEF Closure, Least
<1>2. Closure(t) \subseteq wanted
  <2>1. \A x \in wanted : next[x] \subseteq wanted
    BY <1>0
  <2> HIDE DEF next
  <2>2. Grown(Next1(t), next, Cardinality(Targets)) \subseteq wanted
    BY <1>0, <2>1, GrownLeast
  <2> QED BY <1>1, <2>2
<1>3. ASSUME NEW a \in nodes, Final(t) \in Upto(a)
      PROVE \A u \in Closure(t) : Final(u) \in Upto(a)
  <2> DEFINE D == {u \in wanted : Final(u) \in Upto(a)}
  <2>1. \A x \in D : Next1(x) \subseteq D
    BY DepsUpto
  <2>2. t \in D
    BY <1>3
  <2>3. \A x \in D : next[x] \subseteq D
    BY <1>0, <2>1
  <2>4. Next1(t) \subseteq D
    BY <2>1, <2>2
  <2> HIDE DEF next, D
  <2>5. Grown(Next1(t), next, Cardinality(Targets)) \subseteq D
    BY <1>0, <2>3, <2>4, GrownLeast
  <2> QED BY <1>1, <2>2, <2>5 DEF D
<1> QED BY <1>2, <1>3

-----------------------------------------------------------------------------
(* The frames, innermost first: whatever is above one comes before what it *)
(* writes.                                                                 *)

Nested(s) ==
  \A i \in 1..Len(s) :
    /\ \A j \in 1..i : CallsBefore(ToSet(s[j].calls), s[i].writes)
    /\ \A j \in 1..i : j # i /\ s[i].writes # Nothing => s[j].writes \in Upto(s[i].writes)

\* what lies above f when it is put on s
Atop(f, s) ==
  /\ CallsBefore(ToSet(f.calls), f.writes)
  /\ \A a \in Writing(s) : CallsBefore(ToSet(f.calls), a) /\ (a # Nothing => f.writes \in Upto(a))

LEMMA NestedMore ==
  ASSUME NEW s \in Seq(Frames), NEW f \in Frames
  PROVE Nested(<<f>> \o s) <=> Nested(s) /\ Atop(f, s)
<1> DEFINE q == <<f>> \o s
           n == Len(s)
           Row(p, i, j) == /\ CallsBefore(ToSet(p[j].calls), p[i].writes)
                           /\ j # i /\ p[i].writes # Nothing => p[j].writes \in Upto(p[i].writes)
<1>1. /\ q \in Seq(Frames) /\ Len(q) = n + 1 /\ q[1] = f /\ n \in Nat
      /\ \A i \in 1..n : q[i + 1] = s[i]
      /\ \A i \in 1..(n + 1) : i # 1 => i - 1 \in 1..n /\ q[i] = s[i - 1]
  BY OnTop
<1>2. \A p : Nested(p) <=> \A i \in 1..Len(p) : \A j \in 1..i : Row(p, i, j)
  BY DEF Nested
<1>3. Atop(f, s) <=> /\ CallsBefore(ToSet(f.calls), f.writes)
                     /\ \A i \in 1..n : /\ CallsBefore(ToSet(f.calls), s[i].writes)
                                        /\ s[i].writes # Nothing => f.writes \in Upto(s[i].writes)
  BY DEF Atop, Writing
<1> HIDE DEF q, n
<1>4. ASSUME \A i \in 1..(n + 1) : \A j \in 1..i : Row(q, i, j)
      PROVE Nested(s) /\ Atop(f, s)
  <2>1. ASSUME NEW i \in 1..n, NEW j \in 1..i PROVE Row(s, i, j)
    <3>1. i + 1 \in 1..(n + 1) /\ j + 1 \in 1..(i + 1) /\ j \in 1..n
      BY <1>1
    <3>2. Row(q, i + 1, j + 1) /\ q[i + 1] = s[i] /\ q[j + 1] = s[j]
      BY <1>1, <1>4, <3>1
    <3>3. j # i => j + 1 # i + 1
      OBVIOUS
    <3> QED BY <3>2, <3>3
  <2>2. CallsBefore(ToSet(f.calls), f.writes)
    <3>1. 1 \in 1..(n + 1) /\ 1 \in 1..1
      BY <1>1
    <3>2. Row(q, 1, 1)
      BY <1>4, <3>1
    <3> QED BY <1>1, <3>2
  <2>3. ASSUME NEW i \in 1..n
        PROVE CallsBefore(ToSet(f.calls), s[i].writes) /\ (s[i].writes # Nothing => f.writes \in Upto(s[i].writes))
    <3>1. i + 1 \in 1..(n + 1) /\ 1 \in 1..(i + 1) /\ 1 # i + 1
      BY <1>1
    <3>2. Row(q, i + 1, 1)
      BY <1>4, <3>1
    <3> QED BY <1>1, <3>1, <3>2
  <2>4. \A i \in 1..n : \A j \in 1..i : Row(s, i, j)
    <3> HIDE DEF Row
    <3> QED BY <2>1
  <2> HIDE DEF Row
  <2> QED BY <1>2, <1>3, <2>2, <2>3, <2>4 DEF n
<1>5. ASSUME Nested(s), Atop(f, s)
      PROVE \A i \in 1..(n + 1) : \A j \in 1..i : Row(q, i, j)
  <2> SUFFICES ASSUME NEW i \in 1..(n + 1), NEW j \in 1..i PROVE Row(q, i, j)
    <3> HIDE DEF Row
    <3> QED OBVIOUS
  <2>1. CASE i = 1
    <3>1. j = 1
      BY <2>1
    <3> QED BY <1>1, <1>3, <1>5, <2>1, <3>1
  <2>2. CASE i # 1 /\ j = 1
    BY <1>1, <1>3, <1>5, <2>2
  <2>3. CASE i # 1 /\ j # 1
    <3>1. i - 1 \in 1..n /\ q[i] = s[i - 1]
      BY <1>1, <2>3
    <3>2. j \in 1..(n + 1) /\ j - 1 \in 1..(i - 1)
      BY <1>1, <2>3
    <3>3. q[j] = s[j - 1]
      BY <1>1, <2>3, <3>2
    <3>4. Row(s, i - 1, j - 1)
      BY <1>2, <1>5, <3>1, <3>2 DEF n
    <3>5. j # i => j - 1 # i - 1
      OBVIOUS
    <3> QED BY <3>1, <3>3, <3>4, <3>5
  <2> QED BY <2>1, <2>2, <2>3
<1>6. Nested(q) <=> \A i \in 1..(n + 1) : \A j \in 1..i : Row(q, i, j)
  <2> HIDE DEF Row
  <2> QED BY <1>1, <1>2
<1> QED BY <1>4, <1>5, <1>6 DEF q

\* the top frame has its calls exchanged
LEMMA NestedTop ==
  ASSUME NEW s \in Seq(Frames), NEW f \in Frames, Nested(<<f>> \o s),
         NEW q \in Seq(Calls),
         \A a \in {f.writes} \cup Writing(s) : CallsBefore(ToSet(f.calls), a) => CallsBefore(ToSet(q), a)
  PROVE Nested(<<Frame(f.writes, q)>> \o s)
<1> DEFINE g == Frame(f.writes, q)
<1>1. g \in Frames /\ g.writes = f.writes /\ g.calls = q
  BY DEF Frame, Frames
<1>2. Nested(s) /\ Atop(f, s)
  BY NestedMore
<1> HIDE DEF g
<1>3. Atop(g, s)
  BY <1>1, <1>2 DEF Atop
<1>4. Nested(<<g>> \o s)
  BY <1>1, <1>2, <1>3, NestedMore
<1> QED BY <1>4 DEF g

\* the calls of the frame on top come before all that is to be written
LEMMA NestedCalls ==
  ASSUME stack \in Seq(Frames), stack # << >>, Nested(stack)
  PROVE \A a \in Writing(stack) : CallsBefore(ToSet(Top.calls), a)
<1>1. /\ Top \in Frames /\ Tail(stack) \in Seq(Frames) /\ stack = <<Top>> \o Tail(stack)
      /\ Writing(stack) = {Top.writes} \cup Writing(Tail(stack))
  BY TopIs
<1>2. Atop(Top, Tail(stack))
  BY <1>1, NestedMore
<1> QED BY <1>1, <1>2 DEF Atop

\* without the call that is made
LEMMA NestedRest ==
  ASSUME stack \in Seq(Frames), NEW k, Calling(k), Nested(stack)
  PROVE Nested(Rest)
<1>1. /\ Rest = <<Frame(Top.writes, Tail(Top.calls))>> \o Tail(stack)
      /\ ToSet(Tail(Top.calls)) \subseteq ToSet(Top.calls) /\ Tail(Top.calls) \in Seq(Calls)
      /\ stack # << >>
  BY RestIs DEF Calling
<1>2. Top \in Frames /\ Tail(stack) \in Seq(Frames) /\ stack = <<Top>> \o Tail(stack)
  BY <1>1, TopIs
<1>3. \A a : CallsBefore(ToSet(Top.calls), a) => CallsBefore(ToSet(Tail(Top.calls)), a)
  BY <1>1 DEF CallsBefore
<1>4. Nested(<<Top>> \o Tail(stack))
  BY <1>2
<1>5. Nested(<<Frame(Top.writes, Tail(Top.calls))>> \o Tail(stack))
  BY <1>1, <1>2, <1>3, <1>4, NestedTop
<1> QED BY <1>1, <1>5

\* a statement that comes before all that is to be written is put on top
LEMMA NestedPush ==
  ASSUME Ordered, NEW s \in Seq(Frames), Nested(s), Writing(s) \subseteq nodes \cup {Nothing},
         NEW a \in Headed, NEW calls, NEW X, Lists(calls, X), CallsBefore(X, a), a # Nothing,
         \A b \in Writing(s) : b # Nothing => a \in Upto(b)
  PROVE Nested(<<Frame(a, calls)>> \o s)
<1> DEFINE f == Frame(a, calls)
<1>1. f \in Frames /\ f.writes = a /\ f.calls = calls /\ ToSet(calls) = X
  BY DEF Frame, Frames, Lists
<1>2. ASSUME NEW b \in Writing(s), b # Nothing PROVE Upto(a) \subseteq Upto(b)
  BY <1>2, UptoWithin
<1>3. \A b \in Writing(s) : CallsBefore(X, b)
  BY <1>2 DEF CallsBefore
<1> HIDE DEF f
<1>4. Atop(f, s)
  BY <1>1, <1>3 DEF Atop
<1>5. Nested(<<f>> \o s)
  BY <1>1, <1>4, NestedMore
<1> QED BY <1>5 DEF f

-----------------------------------------------------------------------------
(* The walk over what the local executor built.                            *)

\* an open mark is one of a statement that is to be written
OpenWriting ==
  \A x \in Genrules \cup Stages : mark[x] = "open" =>
    (IF x \in Genrules THEN Rule(x) ELSE Stage(x)) \in Writing(stack)

Within ==
  /\ Known(Pending(stack))
  /\ Writing(stack) \subseteq nodes \cup {Nothing}
  /\ OnlyNinjaFollows \/ (Nested(stack) /\ OpenWriting)

Retraces == Complete /\ Walk /\ Within /\ verdict = "emit" /\ \A t \in wanted : ~Cyclic(t)

LEMMA SameNested ==
  ASSUME UNCHANGED <<nodes, edges>>
  PROVE Nested(stack)' <=> Nested(stack')
<1>1. \A a : Upto(a)' = Upto(a)
  BY DEF Upto
<1> QED BY <1>1 DEF Nested, CallsBefore

LEMMA FollowedStill ==
  ASSUME UNCHANGED refs, emitted \subseteq emitted', OnlyNinjaFollows
  PROVE OnlyNinjaFollows'
<1>1. \A t : (ConsumerContext(t)' <=> ConsumerContext(t)) /\ CompileUsage(t)' = CompileUsage(t)
  BY SameCompiles, SameUsage
<1> QED BY <1>1 DEF OnlyNinjaFollows

LEMMA WithinGoes ==
  ASSUME Within, UNCHANGED <<refs, root, nativeVars>>, NEW new,
         Pending(stack') \subseteq Pending(stack) \cup new, Known(new),
         Writing(stack') \subseteq nodes \cup {Nothing}, emitted \subseteq emitted',
         Nested(stack) /\ OpenWriting => OnlyNinjaFollows' \/ (Nested(stack') /\ OpenWriting')
  PROVE Within'
<1>0. UNCHANGED <<nodes, edges>>
  BY DEF nativeVars, graph
<1>1. Known(Pending(stack))'
  BY <1>0 DEF Known, Within
<1>2. OnlyNinjaFollows' \/ (Nested(stack)' /\ OpenWriting')
  BY <1>0, SameNested, FollowedStill DEF Within
<1> QED BY <1>0, <1>1, <1>2 DEF Within

\* what is called for and is no check of strategies comes before all that is
\* to be written
LEMMA CalledNext ==
  ASSUME Retraces, NEW k, Calling(k)
  PROVE /\ stack \in Seq(Frames) /\ Next1Call \in Calls /\ Next1Call.call = k
        /\ Called(Next1Call) \in nodes
        /\ k = "strategies" => IsCompiled(Next1Call.of)
        /\ Nested(stack) => /\ Nested(Rest)
                            /\ k # "strategies" => \A a \in Writing(stack) :
                                 a # Nothing => Called(Next1Call) \in Upto(a)
        /\ Writing(Rest) = Writing(stack) /\ Rest \in Seq(Frames)
<1>1. stack \in Seq(Frames) /\ stack # << >>
  BY DEF Retraces, Walk, Calling
<1>2. /\ Next1Call \in Calls /\ Next1Call.call = k
      /\ Next1Call \in Pending(stack) /\ Next1Call \in ToSet(Top.calls)
      /\ Writing(Rest) = Writing(stack) /\ Rest \in Seq(Frames)
  BY <1>1, RestIs
<1>3. Called(Next1Call) \in nodes /\ (k = "strategies" => IsCompiled(Next1Call.of))
  BY <1>2 DEF Retraces, Within, Known
<1>4. ASSUME Nested(stack)
      PROVE /\ Nested(Rest)
            /\ k # "strategies" => \A a \in Writing(stack) : a # Nothing => Called(Next1Call) \in Upto(a)
  <2>1. Nested(Rest)
    BY <1>1, <1>4, NestedRest
  <2>2. \A a \in Writing(stack) : CallsBefore(ToSet(Top.calls), a)
    BY <1>1, <1>4, NestedCalls
  <2> QED BY <1>2, <2>1, <2>2 DEF CallsBefore
<1> QED BY <1>1, <1>2, <1>3, <1>4

LEMMA ClosureRetraced ==
  ASSUME Retraces, UNCHANGED <<refs, root, nativeVars>>, EnterClosure
  PROVE verdict' = "emit" /\ Within'
<1>0. PICK c : c = Next1Call
  OBVIOUS
<1>n. PICK new : new = ClosureCalled(c.of)
  OBVIOUS
<1>1. Calling("closure") /\ UNCHANGED <<emitted, mark>> /\ Ordered /\ nodes = AllNodes
  BY DEF EnterClosure, Retraces, Complete, Ordered
<1>2. stack \in Seq(Frames) /\ c.call = "closure" /\ c \in Calls /\ Called(c) \in nodes
  BY <1>0, <1>1, CalledNext
<1>3. c.of \in Targets /\ Called(c) = Final(c.of)
  BY <1>2, CallForms DEF Called
<1>4. c.of \in wanted
  <2>1. Final(c.of).act = "final" /\ Final(c.of).of = c.of
    BY DEF Final, Action
  <2> QED BY <1>1, <1>2, <1>3, <2>1, NodeForms
<1>5. /\ ~Cyclic(c.of) /\ verdict' = "emit"
      /\ stack' = <<[Top EXCEPT !.calls = ClosureCalls(c.of) \o Tail(Top.calls)]>> \o Tail(stack)
  BY <1>0, <1>4 DEF EnterClosure, Retraces
<1>6. Lists(ClosureCalls(c.of), new)
  BY <1>n, <1>3, ClosureCallsAre
<1> DEFINE q == ClosureCalls(c.of) \o Tail(Top.calls)
<1>7. /\ Goes(c, new) /\ Writing(stack') = Writing(stack)
      /\ Lists(q, new \cup ToSet(Tail(Top.calls)))
      /\ stack' = <<Frame(Top.writes, q)>> \o Tail(stack)
  BY <1>0, <1>1, <1>2, <1>5, <1>6, Replaces
<1>8. Known(new)
  <2>1. \A u \in Closure(c.of) : Final(u) \in nodes
    BY <1>1, <1>4, ClosureUpto, TargetFound
  <2> QED BY <1>n, <2>1 DEF Known, ClosureCalled, Called, Call
<1>9. ASSUME Nested(stack) PROVE Nested(stack')
  <2>1. /\ Top \in Frames /\ Tail(stack) \in Seq(Frames) /\ stack = <<Top>> \o Tail(stack)
        /\ Writing(stack) = {Top.writes} \cup Writing(Tail(stack))
    BY <1>1, <1>2, TopIs DEF Calling
  <2>2. ToSet(Top.calls) = {c} \cup ToSet(Tail(Top.calls))
    BY <1>0, <1>1, <1>2, RestIs
  <2>3. \A a \in Writing(stack) : CallsBefore(new, a)
    <3>1. \A a \in Writing(stack) : a # Nothing => a \in nodes /\ Final(c.of) \in Upto(a)
      BY <1>0, <1>1, <1>3, <1>9, CalledNext DEF Retraces, Within
    <3>2. \A a \in Writing(stack) : a # Nothing => \A u \in Closure(c.of) : Final(u) \in Upto(a)
      BY <1>1, <1>4, <3>1, ClosureUpto
    <3> QED BY <1>n, <3>2 DEF CallsBefore, ClosureCalled, Called, Call
  <2>4. \A a \in {Top.writes} \cup Writing(Tail(stack)) : CallsBefore(ToSet(Top.calls), a) => CallsBefore(ToSet(q), a)
    <3>1. ToSet(q) = new \cup ToSet(Tail(Top.calls))
      BY <1>7 DEF Lists
    <3> HIDE DEF q
    <3> QED BY <2>1, <2>2, <2>3, <3>1 DEF CallsBefore
  <2>5. q \in Seq(Calls) /\ Nested(<<Top>> \o Tail(stack))
    BY <1>7, <1>9, <2>1 DEF Lists
  <2> HIDE DEF q
  <2>6. Nested(<<Frame(Top.writes, q)>> \o Tail(stack))
    BY <2>1, <2>4, <2>5, NestedTop
  <2> QED BY <1>7, <2>6
<1>10. OpenWriting => OpenWriting'
  BY <1>1, <1>7 DEF OpenWriting
<1>11. Writing(stack') \subseteq nodes \cup {Nothing} /\ Pending(stack') \subseteq Pending(stack) \cup new
  BY <1>7 DEF Goes, Retraces, Within
<1> HIDE DEF q
<1>12. Within'
  BY <1>1, <1>8, <1>9, <1>10, <1>11, WithinGoes DEF Retraces
<1> QED BY <1>5, <1>12

LEMMA TargetRetraced ==
  ASSUME Retraces, UNCHANGED <<refs, root, nativeVars>>, EnterTarget
  PROVE verdict' = "emit" /\ Within'
<1>0. PICK c : c = Next1Call
  OBVIOUS
<1>1. /\ Calling("target") /\ UNCHANGED <<mark, verdict>> /\ verdict = "emit" /\ Ordered
      /\ emitted' = emitted \cup {c.of}
      /\ stack' = (IF c.of \in emitted THEN << >>
                   ELSE <<Frame(Final(c.of), TargetCalls(c.of))>>) \o Rest
  BY <1>0 DEF EnterTarget, Retraces, Complete
<1>2. /\ stack \in Seq(Frames) /\ c.call = "target" /\ c \in Calls /\ Called(c) \in nodes
      /\ Writing(Rest) = Writing(stack) /\ Rest \in Seq(Frames)
      /\ Nested(stack) => Nested(Rest) /\ \A b \in Writing(stack) : b # Nothing => Called(c) \in Upto(b)
  BY <1>0, <1>1, CalledNext
<1>3. c.of \in Targets /\ Called(c) = Final(c.of)
  BY <1>2, CallForms DEF Called
<1>4. Valid /\ IsFiniteSet(refs) /\ Writing(stack) \subseteq nodes \cup {Nothing}
  BY <1>1 DEF Ordered, Whole, Retraces, Within
<1>5. CASE c.of \in emitted
  <2>1. stack' = Rest
    BY <1>1, <1>2, <1>5
  <2>2. Goes(c, {}) /\ Writing(stack') = Writing(stack)
    BY <1>0, <1>1, <1>2, <2>1, Skips
  <2>3. OpenWriting => OpenWriting'
    BY <1>1, <2>2 DEF OpenWriting
  <2>4. Known({}) /\ Pending(stack') \subseteq Pending(stack) \cup {} /\ Writing(stack') \subseteq nodes \cup {Nothing}
    BY <1>4, <2>2 DEF Known, Goes
  <2>5. Within'
    BY <1>1, <1>2, <2>1, <2>3, <2>4, WithinGoes DEF Retraces
  <2> QED BY <1>1, <2>5
<1>6. CASE c.of \notin emitted
  <2>0. PICK new : new = CallsOf(Final(c.of))
    OBVIOUS
  <2>1. Lists(TargetCalls(c.of), new) /\ Final(c.of) \in Headed /\ Final(c.of) # Nothing
    BY <1>3, <1>4, <2>0, CallsOfAre DEF Headed, Nothing, Final, Action
  <2>2. stack' = <<Frame(Final(c.of), TargetCalls(c.of))>> \o Rest
    BY <1>1, <1>6
  <2>3. Goes(c, new) /\ Writing(stack') = {Final(c.of)} \cup Writing(stack)
    BY <1>0, <1>1, <1>2, <2>1, <2>2, Pushes
  <2>4. Known(new) /\ (Detour(c.of) \/ CallsBefore(new, Final(c.of)))
    <3>1. Final(c.of).of = c.of
      BY DEF Final, Action
    <3> QED BY <1>1, <1>2, <1>3, <2>0, <2>1, <3>1, CallsKnown
  <2>5. Pending(stack') \subseteq Pending(stack) \cup new /\ Writing(stack') \subseteq nodes \cup {Nothing}
    BY <1>2, <1>3, <1>4, <2>3 DEF Goes
  <2>6. Nested(stack) /\ OpenWriting => OnlyNinjaFollows' \/ (Nested(stack') /\ OpenWriting')
    <3>1. CASE Detour(c.of)
      <4>1. ConsumerContext(c.of)' /\ CompileUsage(c.of)' # {}
        BY <3>1, SameCompiles, SameUsage DEF Detour
      <4> QED BY <1>1, <4>1 DEF OnlyNinjaFollows
    <3>2. CASE CallsBefore(new, Final(c.of)) /\ Nested(stack) /\ OpenWriting
      <4>1. Nested(stack')
        BY <1>1, <1>2, <1>3, <1>4, <2>1, <2>2, <3>2, NestedPush
      <4>2. OpenWriting'
        BY <1>1, <2>3, <3>2 DEF OpenWriting
      <4> QED BY <4>1, <4>2
    <3> QED BY <2>4, <3>1, <3>2
  <2>7. Within'
    BY <1>1, <2>4, <2>5, <2>6, WithinGoes DEF Retraces
  <2> QED BY <1>1, <2>7
<1> QED BY <1>5, <1>6

\* an action whose mark is open would come before itself
LEMMA MarkedRetraced ==
  ASSUME Retraces, UNCHANGED <<refs, root, nativeVars>>,
         NEW k \in {"rule", "stage"}, NEW a, NEW calls, EnterMarked(k, a, calls),
         a = IF k = "rule" THEN Rule(Next1Call.of) ELSE Stage(Next1Call.of),
         Lists(calls, CallsOf(a))
  PROVE IF verdict' = "circular" THEN OnlyNinjaFollows' ELSE verdict' = "emit" /\ Within'
<1>0. PICK c : c = Next1Call
  OBVIOUS
<1>1. /\ Calling(k) /\ UNCHANGED emitted /\ Ordered /\ verdict = "emit"
      /\ verdict' = IF mark[c.of] = "open" THEN "circular" ELSE verdict
      /\ mark' = IF mark[c.of] = "new" THEN [mark EXCEPT ![c.of] = "open"] ELSE mark
      /\ stack' = (IF mark[c.of] = "new" THEN <<Frame(a, calls)>> ELSE << >>) \o Rest
  BY <1>0 DEF EnterMarked, Retraces, Complete
<1>2. /\ stack \in Seq(Frames) /\ c.call = k /\ c \in Calls /\ Called(c) \in nodes
      /\ Writing(Rest) = Writing(stack) /\ Rest \in Seq(Frames)
      /\ Nested(stack) => Nested(Rest) /\ \A b \in Writing(stack) : b # Nothing => Called(c) \in Upto(b)
      /\ mark \in [Genrules \cup Stages -> {"new", "open", "written"}]
  <2>1. mark \in [Genrules \cup Stages -> {"new", "open", "written"}]
    BY DEF Retraces, Walk
  <2> QED BY <1>0, <1>1, <2>1, CalledNext
<1>3. /\ k = "rule" => c.of \in Genrules
      /\ k = "stage" => c.of \in Stages /\ c.of \notin Genrules
      /\ c.of \in Genrules \cup Stages
      /\ a = Called(c) /\ a \in Headed /\ a # Nothing
      /\ a = IF c.of \in Genrules THEN Rule(c.of) ELSE Stage(c.of)
  BY <1>0, <1>2, CallForms, NamesAssumption DEF Called, Headed, Nothing, Rule, Stage, Action
<1>4. Writing(stack) \subseteq nodes \cup {Nothing} /\ (OnlyNinjaFollows \/ (Nested(stack) /\ OpenWriting))
  BY DEF Retraces, Within
<1>5. CASE mark[c.of] = "open"
  <2>1. ~(Nested(stack) /\ OpenWriting)
    <3> SUFFICES ASSUME Nested(stack), OpenWriting PROVE FALSE
      OBVIOUS
    <3>1. a \in Writing(stack)
      BY <1>3, <1>5 DEF OpenWriting
    <3>2. a \in Upto(a) /\ a \in nodes
      BY <1>2, <1>3, <3>1
    <3> QED BY <3>2, Acyclic DEF Retraces
  <2>2. OnlyNinjaFollows'
    BY <1>1, <1>4, <2>1, FollowedStill
  <2> QED BY <1>1, <1>5, <2>2
<1>6. CASE mark[c.of] = "written"
  <2>1. stack' = Rest /\ mark' = mark /\ verdict' = "emit"
    BY <1>1, <1>2, <1>6
  <2>2. Goes(c, {}) /\ Writing(stack') = Writing(stack)
    BY <1>0, <1>1, <1>2, <2>1, Skips
  <2>3. OpenWriting => OpenWriting'
    BY <2>1, <2>2 DEF OpenWriting
  <2>4. Known({}) /\ Pending(stack') \subseteq Pending(stack) \cup {} /\ Writing(stack') \subseteq nodes \cup {Nothing}
    BY <1>4, <2>2 DEF Known, Goes
  <2>5. Within'
    BY <1>1, <1>2, <2>1, <2>3, <2>4, WithinGoes DEF Retraces
  <2> QED BY <2>1, <2>5
<1>7. CASE mark[c.of] = "new"
  <2>0. PICK new : new = CallsOf(a)
    OBVIOUS
  <2>1. /\ stack' = <<Frame(a, calls)>> \o Rest /\ verdict' = "emit"
        /\ mark' = [mark EXCEPT ![c.of] = "open"]
    BY <1>1, <1>7
  <2>2. Goes(c, new) /\ Writing(stack') = {a} \cup Writing(stack)
    BY <1>0, <1>1, <1>2, <1>3, <2>0, <2>1, Pushes
  <2>3. Known(new) /\ CallsBefore(new, a)
    <3>1. a.act # "final"
      BY <1>3 DEF Rule, Stage, Action
    <3> QED BY <1>1, <1>2, <1>3, <2>0, <3>1, CallsKnown
  <2>4. Pending(stack') \subseteq Pending(stack) \cup new /\ Writing(stack') \subseteq nodes \cup {Nothing}
    BY <1>2, <1>3, <1>4, <2>2 DEF Goes
  <2>5. ASSUME Nested(stack), OpenWriting PROVE Nested(stack') /\ OpenWriting'
    <3>1. Nested(stack')
      BY <1>1, <1>2, <1>3, <1>4, <2>0, <2>1, <2>3, <2>5, NestedPush
    <3>2. OpenWriting'
      BY <1>2, <1>3, <2>1, <2>2, <2>5 DEF OpenWriting
    <3> QED BY <3>1, <3>2
  <2>6. Within'
    BY <1>1, <2>3, <2>4, <2>5, WithinGoes DEF Retraces
  <2> QED BY <2>1, <2>6
<1> QED BY <1>2, <1>3, <1>5, <1>6, <1>7

LEMMA StrategiesRetraced ==
  ASSUME Retraces, UNCHANGED <<refs, root, nativeVars>>, CheckStrategies
  PROVE verdict' = "emit" /\ Within'
<1>0. PICK c : c = Next1Call
  OBVIOUS
<1>1. /\ Calling("strategies") /\ UNCHANGED <<emitted, mark>> /\ verdict = "emit" /\ Ordered
      /\ verdict' = IF ValidStrategies(c.of) THEN verdict ELSE "unsupported"
      /\ stack' = Rest
  BY <1>0 DEF CheckStrategies, Retraces, Complete
<1>2. /\ stack \in Seq(Frames) /\ c.call = "strategies" /\ c \in Calls /\ Called(c) \in nodes
      /\ IsCompiled(c.of) /\ (Nested(stack) => Nested(Rest))
  BY <1>0, <1>1, CalledNext
<1>3. verdict' = "emit"
  <2>1. Called(c) = Final(c.of)
    BY <1>2 DEF Called
  <2>2. Final(c.of).act = "final" /\ Final(c.of).of = c.of
    BY DEF Final, Action
  <2>3. c.of \in wanted
    BY <1>1, <1>2, <2>1, <2>2, NodeForms
  <2> QED BY <1>1, <1>2, <2>3 DEF Ordered
<1>4. Goes(c, {}) /\ Writing(stack') = Writing(stack)
  BY <1>0, <1>1, <1>2, Skips
<1>5. OpenWriting => OpenWriting'
  BY <1>1, <1>4 DEF OpenWriting
<1>6. Known({}) /\ Pending(stack') \subseteq Pending(stack) \cup {} /\ Writing(stack') \subseteq nodes \cup {Nothing}
  BY <1>4 DEF Known, Goes, Retraces, Within
<1>7. Within'
  BY <1>1, <1>2, <1>5, <1>6, WithinGoes DEF Retraces
<1> QED BY <1>3, <1>7

\* whatever is written can be compiled
LEMMA WriteRetraced ==
  ASSUME Retraces, UNCHANGED <<refs, root, nativeVars>>, Write
  PROVE verdict' = "emit" /\ Within'
<1>0. PICK a : a = Top.writes
  OBVIOUS
<1>1. /\ stack # << >> /\ Top.calls = << >> /\ stack' = Tail(stack)
      /\ mark' = IF a.act \in {"rule", "stage"} THEN [mark EXCEPT ![a.of] = "written"] ELSE mark
      /\ verdict' = IF \E b \in Statements(a) : CannotCompile(b) THEN "unsupported" ELSE verdict
      /\ UNCHANGED emitted /\ verdict = "emit" /\ Ordered
  BY <1>0 DEF Write, Retraces, Complete
<1>2. stack \in Seq(Frames) /\ mark \in [Genrules \cup Stages -> {"new", "open", "written"}]
  BY DEF Retraces, Walk
<1>3. /\ a \in Headed /\ Pending(stack') = Pending(stack)
      /\ Writing(stack) = {a} \cup Writing(stack') /\ a \in nodes \cup {Nothing}
  BY <1>0, <1>1, <1>2, WalkPops DEF Retraces, Within
<1>4. verdict' = "emit"
  <2>1. \A b \in Statements(a) : b \in nodes \/ b.act # "compile"
    <3>1. CASE a.act = "final" /\ IsCompiled(a.of)
      <4>1. a \in nodes
        BY <1>3, <3>1 DEF Nothing, Action
      <4>2. a.of \in wanted
        BY <1>1, <3>1, <4>1, NodeForms
      <4>3. CompileActions(a.of) \subseteq nodes
        BY <1>1, <3>1, <4>2, TargetFound
      <4> QED BY <3>1, <4>3 DEF Statements, Pch, Action
    <3>2. CASE ~(a.act = "final" /\ IsCompiled(a.of))
      BY <1>3, <3>2 DEF Statements, Nothing, Action
    <3> QED BY <3>1, <3>2
  <2>2. \A b \in nodes : Prepared(b)
    BY DEF Retraces, Complete
  <2>3. \A b \in Statements(a) : ~CannotCompile(b)
    BY <2>1, <2>2 DEF CannotCompile, Prepared, ValidSource
  <2> QED BY <1>1, <2>3
<1>5. Nested(stack) => Nested(stack')
  <2>1. Top \in Frames /\ Tail(stack) \in Seq(Frames) /\ stack = <<Top>> \o Tail(stack)
    BY <1>1, <1>2, TopIs
  <2>2. Nested(<<Top>> \o Tail(stack)) => Nested(Tail(stack))
    BY <2>1, NestedMore
  <2> QED BY <1>1, <2>1, <2>2
<1>6. OpenWriting => OpenWriting'
  <2> SUFFICES ASSUME OpenWriting, NEW x \in Genrules \cup Stages, mark'[x] = "open"
               PROVE (IF x \in Genrules THEN Rule(x) ELSE Stage(x)) \in Writing(stack')
    BY DEF OpenWriting
  <2>1. mark[x] = "open" /\ (a.act \in {"rule", "stage"} => x # a.of)
    BY <1>1, <1>2
  <2>2. (IF x \in Genrules THEN Rule(x) ELSE Stage(x)) \in Writing(stack)
    BY <2>1 DEF OpenWriting
  <2>3. (IF x \in Genrules THEN Rule(x) ELSE Stage(x)) # a
    BY <2>1 DEF Rule, Stage, Action
  <2> QED BY <1>3, <2>2, <2>3
<1>7. Known({}) /\ Pending(stack') \subseteq Pending(stack) \cup {} /\ Writing(stack') \subseteq nodes \cup {Nothing}
  BY <1>3 DEF Known, Retraces, Within
<1>8. Within'
  BY <1>1, <1>5, <1>6, <1>7, WithinGoes DEF Retraces
<1> QED BY <1>4, <1>8

LEMMA StillWithin ==
  ASSUME Within, UNCHANGED <<refs, nodes, edges, stack, emitted, mark>>
  PROVE Within'
<1>1. Known(Pending(stack))'
  BY DEF Known, Within
<1>2. Nested(stack) => Nested(stack)'
  BY SameNested
<1>3. OpenWriting => OpenWriting'
  BY DEF OpenWriting
<1> QED BY <1>1, <1>2, <1>3, FollowedStill DEF Within

LEMMA WithinBegins ==
  ASSUME NinjaInit, RootAction \in nodes
  PROVE Within
<1> DEFINE f == Frame(Nothing, <<RootCall>>)
<1>1. stack = <<f>> /\ \A x \in Genrules \cup Stages : mark[x] = "new"
  BY DEF NinjaInit, RootCall
<1>2. Len(stack) = 1 /\ stack[1].writes = Nothing /\ stack[1].calls = <<RootCall>>
  BY <1>1 DEF Frame
<1>3. ToSet(<<RootCall>>) = {RootCall}
  BY DEF ToSet
<1>4. Pending(stack) = {RootCall} /\ Writing(stack) = {Nothing}
  BY <1>2, <1>3 DEF Pending, Writing
<1>5. Called(RootCall) = RootAction /\ RootCall.call # "strategies"
  BY DEF RootCall, RootAction, Called, Call
<1>6. Nested(stack)
  BY <1>2 DEF Nested, CallsBefore
<1>7. OpenWriting
  BY <1>1 DEF OpenWriting
<1> QED BY <1>4, <1>5, <1>6, <1>7 DEF Within, Known

\* while the local executor is at work, and once it has built
PInv ==
  /\ verdict \in {"emit", "circular", "unsupported", "missing", "stalled", "built"}
  /\ ~Ended \/ phase = "refused" => NinjaInit
  /\ phase = "built" =>
       /\ verdict # "unsupported"
       /\ verdict = "circular" => OnlyNinjaFollows
       /\ verdict = "emit" => Within

LEMMA BuiltComplete ==
  ASSUME FInv, NInv, phase = "built"
  PROVE Complete /\ RootAction \in nodes /\ \A t \in wanted : ~Cyclic(t)
<1>1. Ordered
  BY ConnectedIsOrdered DEF FInv, Connected
<1>2. nodes = Completes(nodes, edges) /\ \A a \in nodes : Prepared(a)
  BY DEF FInv, AllRan, NInv
<1>3. RootAction \in nodes
  BY <1>1 DEF FInv, RootFound, Ready, RootAction, Ordered, AllNodes, TargetNodes
<1> QED BY <1>1, <1>2, <1>3 DEF Complete, NInv

LEMMA NativeRetraced ==
  ASSUME FInv, PInv, Native
  PROVE PInv'
<1>1. NativeNext /\ UNCHANGED ninjaVars /\ UNCHANGED <<refs, root>>
  BY DEF Native, NativeNext, Start, Pass, Connect, Execute
<1>2. NinjaInit
  BY <1>1 DEF NativeNext, Start, Pass, Connect, Execute, Ended, PInv
<1>3. NinjaInit' /\ verdict' = "emit"
  BY <1>1, <1>2 DEF NinjaInit, ninjaVars
<1>4. ASSUME phase' = "built" PROVE Within'
  <2>1. Execute
    BY <1>1, <1>4 DEF NativeNext, Start, Pass, Connect
  <2>2. phase = "connected" /\ UNCHANGED <<nodes, edges>>
    BY <2>1 DEF Execute, graph
  <2>3. Ordered
    BY <2>2, ConnectedIsOrdered DEF FInv, Connected
  <2>4. RootAction \in nodes
    BY <2>2, <2>3 DEF FInv, RootFound, Ready, RootAction, Ordered, AllNodes, TargetNodes
  <2>5. Within
    BY <1>2, <2>4, WithinBegins
  <2> QED BY <1>1, <2>2, <2>5, StillWithin DEF ninjaVars
<1> QED BY <1>3, <1>4 DEF PInv

LEMMA NinjaRetraced ==
  ASSUME FInv, WInv, NInv, PInv, Ninja
  PROVE PInv'
<1>1. /\ Ended /\ phase # "refused" /\ NinjaNext /\ UNCHANGED <<refs, root, nativeVars>> /\ UNCHANGED phase
      /\ verdict = "emit"
      /\ verdict' \in {"emit", "circular", "unsupported", "missing", "stalled", "built"}
  BY DEF Ninja, nativeVars, NinjaNext, EnterClosure, EnterTarget, EnterRule, EnterStage,
         EnterMarked, CheckStrategies, Write, NinjaBuild, Calling
<1>2. Ended' /\ phase' # "refused"
  BY <1>1 DEF Ended
<1>3. ASSUME phase = "built"
      PROVE /\ verdict' # "unsupported"
            /\ verdict' = "circular" => OnlyNinjaFollows'
            /\ verdict' = "emit" => Within'
  <2>1. Retraces
    BY <1>1, <1>3, BuiltComplete DEF Retraces, WInv, PInv
  <2>2. Valid /\ IsFiniteSet(refs)
    BY <2>1 DEF Retraces, Complete, Ordered, Whole
  <2>3. CASE NinjaBuild
    BY <2>3 DEF NinjaBuild
  <2>4. CASE EnterRule
    <3>1. Lists(GenruleCalls(Next1Call.of), CallsOf(Rule(Next1Call.of)))
      BY <2>2, CallsOfAre
    <3>2. EnterMarked("rule", Rule(Next1Call.of), GenruleCalls(Next1Call.of))
      BY <2>4 DEF EnterRule
    <3>3. IF verdict' = "circular" THEN OnlyNinjaFollows' ELSE verdict' = "emit" /\ Within'
      BY <1>1, <2>1, <3>1, <3>2, MarkedRetraced
    <3> QED BY <3>3
  <2>5. CASE EnterStage
    <3>1. Lists(StageCalls(Next1Call.of), CallsOf(Stage(Next1Call.of)))
      BY <2>2, CallsOfAre
    <3>2. EnterMarked("stage", Stage(Next1Call.of), StageCalls(Next1Call.of))
      BY <2>5 DEF EnterStage
    <3>3. IF verdict' = "circular" THEN OnlyNinjaFollows' ELSE verdict' = "emit" /\ Within'
      BY <1>1, <2>1, <3>1, <3>2, MarkedRetraced
    <3> QED BY <3>3
  <2>6. CASE EnterClosure \/ EnterTarget \/ CheckStrategies \/ Write
    <3>1. verdict' = "emit" /\ Within'
      BY <1>1, <2>1, <2>6, ClosureRetraced, TargetRetraced, StrategiesRetraced, WriteRetraced
    <3> QED BY <3>1
  <2> QED BY <1>1, <2>3, <2>4, <2>5, <2>6 DEF NinjaNext
<1> QED BY <1>1, <1>2, <1>3 DEF PInv

LEMMA FailureInvariance == Spec => []NInv
<1>1. Init => NInv
  BY DEF Init, NativeInit, NInv
<1>2. FInv /\ NInv /\ [Next]_vars => NInv'
  <2> SUFFICES ASSUME FInv, NInv, [Next]_vars PROVE NInv'
    OBVIOUS
  <2>1. CASE Native
    BY <2>1, FailureStep DEF Native, FInv, GInv, Whole
  <2>2. CASE UNCHANGED <<refs, root, nativeVars>>
    BY <2>2, SameFailures
  <2> QED BY <2>1, <2>2 DEF Next, Ninja, Stay, vars
<1> QED BY <1>1, <1>2, FinishInvariance, PTL DEF Spec

LEMMA RetraceInvariance == Spec => []PInv
<1>1. Init => PInv
  BY DEF Init, NativeInit, NinjaInit, PInv
<1>2. FInv /\ WInv /\ NInv /\ PInv /\ [Next]_vars => PInv'
  <2> SUFFICES ASSUME FInv, WInv, NInv, PInv, [Next]_vars PROVE PInv'
    OBVIOUS
  <2>1. CASE Native
    BY <2>1, NativeRetraced
  <2>2. CASE Ninja
    BY <2>2, NinjaRetraced
  <2>3. CASE UNCHANGED vars
    <3>1. /\ UNCHANGED <<refs, root, phase, nodes, edges, stack, emitted, mark, written, verdict>>
      BY <2>3 DEF vars, nativeVars, ninjaVars, graph
    <3>2. NinjaInit => NinjaInit'
      BY <3>1 DEF NinjaInit
    <3>3. Within => Within'
      BY <3>1, StillWithin
    <3>4. OnlyNinjaFollows => OnlyNinjaFollows'
      BY <3>1, FollowedStill
    <3> QED BY <3>1, <3>2, <3>3, <3>4 DEF PInv, Ended
  <2> QED BY <2>1, <2>2, <2>3 DEF Next, Stay
<1> QED BY <1>1, <1>2, FinishInvariance, WalkInvariance, FailureInvariance, PTL DEF Spec

LEMMA NativeAlone ==
  ASSUME FInv, WInv, NInv, PInv, Compared, phase = "built"
  PROVE verdict = "built" \/ (verdict = "circular" /\ OnlyNinjaFollows)
<1>1. /\ verdict \in {"circular", "missing", "stalled", "built"} /\ verdict # "missing"
      /\ verdict = "circular" => OnlyNinjaFollows
  BY DEF Compared, PInv, WInv
<1>2. CASE verdict = "stalled"
  <2>1. Complete /\ RootAction \in nodes
    BY BuiltComplete
  <2>2. Over /\ IsFiniteSet(written)
    BY <1>2, <2>1 DEF Over, WInv, FInv, GInv, Whole, Complete, Ordered
  <2>3. AllRunByNinja
    BY <2>1, <2>2, NinjaRunsAll
  <2> QED BY <1>2, <2>3 DEF WInv
<1> QED BY <1>1, <1>2

(***************************************************************************)
(* Whatever the references are: the two backends end alike, but for what   *)
(* only one of them follows to.                                            *)
(***************************************************************************)
THEOREM SameVerdictInBoth == Spec => []SameVerdict
<1>1. FInv /\ WInv /\ NInv /\ PInv => SameVerdict
  BY NativeAlone, NinjaAlone DEF SameVerdict
<1> QED BY <1>1, FinishInvariance, WalkInvariance, FailureInvariance, RetraceInvariance, PTL
=============================================================================
