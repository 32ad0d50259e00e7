--------------------------- MODULE BuildStateProofs ---------------------------
(***************************************************************************)
(* Theorems about BuildState, for every program, every set of goals and    *)
(* any number of edits and builds.                                         *)
(***************************************************************************)
EXTENDS BuildState, FiniteSetTheorems, SequenceTheorems, TLAPS

Memory == [loaded : BOOLEAN, state : [Action -> Keys],
           depsLoaded : BOOLEAN, deps : [Action -> DepLists]]

TreeType ==
    /\ edition \in [File -> 0..edits] /\ option \in Option
    /\ DOMAIN obj = Action /\ \A a \in Action : Stamped(obj[a])
    /\ depfile \in [Action -> DepLists] /\ \A a \in Final : depfile[a] = NoDeps
    /\ second \in Nat /\ edits \in 1..MaxEdits

StoredType ==
    stateDb \in [Action -> Keys] /\ depsDb \in [Action -> DepLists] /\ mem \in Memory

BuildType ==
    /\ phase \in {"idle", "build", "state", "deps"}
    /\ goal \in Goals \cup {{}} /\ frontend \in Frontends \cup {None}
    /\ st \in [Action -> {"todo", "running", "skipped", "built"}]
    /\ prev \in [Action -> Keys] /\ next \in [Action -> Keys]
    /\ depsPrev \in [Action -> DepLists] /\ depsNext \in [Action -> DepLists]
    /\ DOMAIN memo = Input
    /\ \A x \in Input : memo[x] = <<>> \/ memo[x] \in {x} \X Nat
    /\ plan \in [Action -> [key : Keys, deps : Seq(File)]]
    /\ builds \in 0..MaxBuilds

HistoryType == sure \subseteq Action /\ owed \subseteq Action /\ steady \in BOOLEAN

TypeInv == TreeType /\ StoredType /\ BuildType /\ HistoryType

\* Where the actions of a build are, and what there is between builds.
OrderInv ==
    /\ phase = "idle" =>
         /\ \A a \in Action : st[a] = "todo" /\ depsPrev[a] = NoDeps /\ depsNext[a] = NoDeps
         /\ \A x \in Input : memo[x] = <<>>
         /\ \A a \in Action : next[a] = NoKey
    /\ phase # "idle" => goal \in Goals /\ frontend \in Frontends
    /\ phase \in {"state", "deps"} => \A a \in goal : st[a] \in {"skipped", "built"}
    /\ \A a \in Action :
         /\ st[a] # "todo" => a \in goal /\ \A b \in Needs(a) : st[b] \in {"skipped", "built"}
         /\ next[a] # NoKey => st[a] \in {"skipped", "built"}
         /\ st[a] = "skipped" => next[a] = prev[a]

\* The daemon's copies are the files, if the daemon alone builds.
MirrorInv ==
    /\ mem.loaded => mem.state = stateDb
    /\ mem.depsLoaded => mem.deps = depsDb
    /\ "daemon" \notin Frontends => mem = NoMemory
    /\ phase \in {"build", "state"} => prev = stateDb

\* A stamp on a depfile tells which list it has.
ListInv ==
    /\ \A a \in Action : depfile[a].print <= second
    /\ \A d \in {depsDb, mem.deps, depsPrev, depsNext} : \A a \in Action :
         /\ d[a].print <= second
         /\ d[a].print # 0 /\ d[a].print = depfile[a].print => d[a].list = depfile[a].list

-----------------------------------------------------------------------------
\* The key a build that starts now would give an action.

List0(a) == IF a \in Compile /\ depfile[a].print # 0 THEN depfile[a].list ELSE <<>>
Inputs0(a) == Static[a] \o Without(List0(a), Static[a])
Hash0(x) == <<x, IF x \in File THEN edition[x] ELSE obj[x].stamp>>
Key0(a) == [opt |-> option,
            inputs |-> [i \in DOMAIN Inputs0(a) |-> Hash0(Inputs0(a)[i])],
            deps |-> [i \in DOMAIN List0(a) |-> Hash0(List0(a)[i])]]

\* A recorded digest is of something that was there.
Dated(d) == d[2] # 0 /\ d[2] <= (IF d[1] \in File THEN edits ELSE second)
Bound(K) == /\ \A i \in DOMAIN K.inputs : Dated(K.inputs[i])
            /\ \A i \in DOMAIN K.deps : Dated(K.deps[i])

\* A key recorded for a compilation lists what the source includes in the
\* edition that it gives for the source.
Lists(K, x) == \E i \in DOMAIN K.deps : K.deps[i][1] = x
Cover(K, a) ==
    a \in Compile =>
      \E e \in 1..edits :
        /\ \E i \in DOMAIN K.deps : K.deps[i] = <<SourceOf[a], e>>
        /\ \A h \in ToSet(Includes[SourceOf[a]][e]) : Lists(K, h)

Fresh(a) == obj[a].stamp # 0 /\ obj[a].of = Content(a)
Good(K, a) == K # NoKey => Bound(K) /\ Cover(K, a) /\ (K = Key0(a) => Fresh(a))

\* A digest computed in this build is right while its file is there.
MemoInv ==
    \A x \in Input : memo[x] # <<>> =>
      IF x \in File
      THEN memo[x] # <<x, edition[x]>> => edition[x] = 0 /\ ~steady
      ELSE memo[x] = <<x, obj[x].stamp>> /\ st[x] \in {"skipped", "built"}

\* A compilation of this build that has ended.
BuiltInv ==
    \A a \in Action :
      /\ st[a] \in {"skipped", "built"} => obj[a].stamp # 0
      /\ st[a] = "built" /\ a \in Compile =>
           /\ depfile[a].print # 0 /\ depfile[a].list = Discovered(a)
           /\ (\A x \in ToSet(Discovered(a)) : edition[x] # 0) => Fresh(a)

\* What runs was not up to date.
RunInv ==
    \A a \in Action : st[a] = "running" =>
      /\ phase = "build" /\ prev[a] # Key0(a)
      /\ a \in Final => Bound(plan[a].key)

VouchInv ==
    \A a \in Action :
      /\ Good(stateDb[a], a)
      /\ phase \in {"state", "deps"} \/ (phase = "build" /\ a \notin Refreshed) => Good(next[a], a)

SourcesInv ==
    /\ \A a \in Compile : edition[SourceOf[a]] # 0
    /\ May("remove-file") \/ \A f \in File : edition[f] # 0

SureInv ==
    /\ \A a \in sure : Fresh(a) /\ Needs(a) \subseteq sure
    /\ phase # "idle" /\ steady => \A a \in goal : st[a] \in {"skipped", "built"} => Fresh(a)

\* No edit under a running build, no two stamps in one second; nothing goes
\* back to a state it had: outputs stay, options stay, and an input the graph
\* lists for a compilation stays or is a source.
Forward ==
    /\ {"edit-while-building", "same-second", "delete-output"} \cap Hazards = {}
    /\ OptionMoves = {}
    /\ May("remove-file") =>
         \A a \in Compile : \A f \in ToSet(Static[a]) : \E b \in Compile : f = SourceOf[b]

VInv == MemoInv /\ BuiltInv /\ RunInv /\ VouchInv /\ SourcesInv /\ SureInv

OneFrontend == Frontends # {"cli", "daemon"}

\* What the depfile of a compilation can list.
DepfilesOf(a) == {<<SourceOf[a]>> \o Includes[SourceOf[a]][e] : e \in 0..MaxEdits}

\* The order in which a key is made from a new depfile, less the list known
\* before, is the order in which the next build makes it.
ListedFirst ==
    \A a \in Compile, e \in 0..MaxEdits : \A known \in DepfilesOf(a) \cup {<<>>} :
        LET list == <<SourceOf[a]>> \o Includes[SourceOf[a]][e]
            static == Without(Static[a], known)
        IN  static \o Without(list, static) = Static[a] \o Without(list, Static[a])

\* Depfiles, and the lists remembered of them, are what a compiler has written.
WrittenInv ==
    \A a \in Compile :
      /\ depfile[a].print # 0 => depfile[a].list \in DepfilesOf(a)
      /\ plan[a].deps \in DepfilesOf(a) \cup {<<>>}
      /\ st[a] = "built" => depfile[a].print # 0

\* While nothing changes, the digests and the keys of a build are those a build
\* that starts now would compute.
MemoIsTrue ==
    steady => \A x \in Input : memo[x] # <<>> =>
                memo[x] = Hash0(x) /\ (x \notin File => st[x] \in {"skipped", "built"})

NextIsKey ==
    phase # "idle" /\ steady =>
      \A a \in goal :
        /\ st[a] \in {"skipped", "built"} =>
             obj[a].stamp # 0 /\ ((phase = "build" /\ a \in Refreshed) \/ next[a] = Key0(a))
        /\ st[a] = "running" /\ a \in Final => plan[a].key = Key0(a)
        /\ phase = "deps" => stateDb[a] = Key0(a)

\* What is up to date is recorded with the key that it has.
KeptInv ==
    /\ phase # "idle" /\ ~steady => sure = {}
    /\ \A a \in sure : stateDb[a] = Key0(a) /\ obj[a].stamp # 0
                       /\ Needs(a) \subseteq sure /\ st[a] # "running"

NInv == WrittenInv /\ MemoIsTrue /\ NextIsKey /\ KeptInv

-----------------------------------------------------------------------------
\* Lists.

LEMMA ToSetOf ==
  ASSUME NEW S, NEW s \in Seq(S)
  PROVE  /\ ToSet(s) \subseteq S
         /\ \A x : x \in ToSet(s) <=> \E i \in 1..Len(s) : s[i] = x
BY DEF ToSet

\* The elements that Without keeps have the ranks from 1 to their number.
LEMMA Ranks ==
  ASSUME NEW kept \in SUBSET Nat, IsFiniteSet(kept)
  PROVE  LET Rank(i) == Cardinality({h \in kept : h <= i})
         IN  \A n \in 1..Cardinality(kept) : \E i \in kept : Rank(i) = n
<1> DEFINE Below(i) == {h \in kept : h <= i}
           Rank(i) == Cardinality(Below(i))
           N == Cardinality(kept)
<1>1. N \in Nat
  BY FS_CardinalityType
<1>2. ASSUME NEW i \in kept
      PROVE  IsFiniteSet(Below(i)) /\ Rank(i) \in Nat /\ Rank(i) <= N /\ Rank(i) # 0
  <2>1. Below(i) \in SUBSET kept /\ i \in Below(i)
    OBVIOUS
  <2>2. IsFiniteSet(Below(i)) /\ Rank(i) <= N
    BY <2>1, FS_Subset
  <2> QED
    BY <2>1, <2>2, FS_CardinalityType, FS_EmptySet
<1>3. ASSUME NEW i \in kept, NEW j \in kept, Rank(i) = Rank(j), i < j PROVE FALSE
  <2> i \in Nat /\ j \in Nat /\ ~(j <= i) /\ j <= j
    BY <1>3
  <2>0. \A h \in Below(i) : h \in Nat /\ h <= i /\ h <= j
    BY <1>3
  <2>1. Below(i) \in SUBSET Below(j) /\ j \in Below(j) /\ j \notin Below(i)
    BY <2>0
  <2>2. Below(j) = Below(i)
    BY <1>2, <1>3, <2>1, FS_Subset
  <2> QED
    BY <2>1, <2>2
<1>4. \A i, j \in kept : Rank(i) = Rank(j) => i = j
  BY <1>3
<1> DEFINE f == [i \in kept |-> Rank(i)]
<1>5. f \in Injection(kept, 1..N)
  <2>1. \A i \in kept : Rank(i) \in 1..N
    BY <1>1, <1>2
  <2> HIDE DEF Rank, N
  <2>2. f \in [kept -> 1..N]
    BY <2>1
  <2>3. \A i, j \in DOMAIN f : f[i] = f[j] => i = j
    BY <1>4
  <2> QED
    BY <2>2, <2>3 DEF Injection, IsInjective
<1>6. IsFiniteSet(1..N) /\ Cardinality(1..N) = N
  BY <1>1, FS_Interval
<1>7. f \in Surjection(kept, 1..N)
  BY <1>5, <1>6, FS_Injection
<1>8. \A n \in 1..N : \E i \in kept : Rank(i) = n
  BY <1>7 DEF Surjection
<1> QED
  BY <1>8

LEMMA WithoutOf ==
  ASSUME NEW S, NEW s \in Seq(S), NEW t
  PROVE  Without(s, t) \in Seq(S)
<1> DEFINE kept == {i \in DOMAIN s : s[i] \notin ToSet(t)}
           Rank(i) == Cardinality({h \in kept : h <= i})
           N == Cardinality(kept)
           w == [n \in 1..N |-> s[CHOOSE i \in kept : Rank(i) = n]]
<1>1. kept \in SUBSET Nat /\ kept \subseteq 1..Len(s) /\ IsFiniteSet(kept) /\ N \in Nat
  <2>1. kept \in SUBSET (1..Len(s)) /\ Len(s) \in Nat
    OBVIOUS
  <2>2. IsFiniteSet(kept)
    BY <2>1, FS_Interval, FS_Subset
  <2> QED
    BY <2>1, <2>2, FS_CardinalityType
<1>2. \A n \in 1..N : \E i \in kept : Rank(i) = n
  BY <1>1, Ranks
<1>3. Without(s, t) = w
  BY DEF Without
<1> HIDE DEF Rank
<1>4. \A n \in 1..N : (CHOOSE i \in kept : Rank(i) = n) \in kept
  BY <1>2
<1> HIDE DEF N
<1>5. w \in [1..N -> S]
  <2>1. \A i \in kept : s[i] \in S
    BY <1>1
  <2> HIDE DEF kept
  <2> QED
    BY <1>4, <2>1
<1>6. w \in Seq(S) /\ Len(w) = N
  <2> HIDE DEF w
  <2>1. \A g \in [1..N -> S] : g \in Seq(S) /\ Len(g) = N
    BY <1>1
  <2> QED
    BY <1>5, <2>1
<1> QED
  BY <1>3, <1>6

LEMMA ListOfItself ==
  ASSUME NEW S, NEW s \in Seq(S)
  PROVE  s \in Seq(ToSet(s)) /\ ToSet(s) \subseteq S
<1>1. Len(s) \in Nat /\ s \in [1..Len(s) -> S]
  OBVIOUS
<1>2. s \in [1..Len(s) -> ToSet(s)]
  BY <1>1 DEF ToSet
<1> QED
  BY <1>1, <1>2, ToSetOf

\* One digest for each element of a list.
LEMMA OneEach ==
  ASSUME NEW S, NEW T, NEW s \in Seq(S), NEW h, \A x \in S : h[x] \in T
  PROVE  [i \in DOMAIN s |-> h[s[i]]] \in Seq(T)
<1>1. DOMAIN s = 1..Len(s) /\ Len(s) \in Nat /\ \A i \in 1..Len(s) : s[i] \in S
  OBVIOUS
<1>2. [i \in 1..Len(s) |-> h[s[i]]] \in [1..Len(s) -> T]
  BY <1>1
<1> QED
  BY <1>1, <1>2

-----------------------------------------------------------------------------
\* Types.

LEMMA Program ==
  ASSUME NEW a \in Action
  PROVE  /\ Static[a] \in Seq(Input)
         /\ a \in Compile => /\ Static[a] \in Seq(File) /\ Needs(a) = {} /\ a \notin Final
                             /\ SourceOf[a] \in ToSet(Static[a]) /\ SourceOf[a] \in File
         /\ a \in Final => /\ Static[a] \in Seq(Compile) /\ Needs(a) = ToSet(Static[a])
                           /\ Needs(a) \subseteq Compile /\ a \notin Compile
         /\ a \in Compile \cup Final
<1>1. Static[a] \in Seq(Input) /\ a \in Compile \cup Final
  BY TreeAssumption DEF Action
<1>2. Static[a] \in Seq(ToSet(Static[a]))
  BY <1>1, ListOfItself
<1>3. \A S : ToSet(Static[a]) \subseteq S => Static[a] \in Seq(S)
  BY <1>2
<1> QED
  BY <1>1, <1>3, TreeAssumption DEF Action, Needs

LEMMA NothingTyped ==
  NoKey \in Keys /\ NoDeps \in DepLists /\ NoPlan \in [key : Keys, deps : Seq(File)]
  /\ NoMemory \in Memory
BY DEF NoKey, Keys, NoDeps, DepLists, NoPlan, NoMemory, Memory

LEMMA HashTyped ==
  ASSUME TypeInv, NEW x \in Input
  PROVE  HashFile(x) \in {x} \X Nat
<1>1. x \in File => edition[x] \in Nat
  BY DEF TypeInv, TreeType, BuildType
<1>2. x \in Action => obj[x].stamp \in Nat
  BY DEF TypeInv, TreeType, BuildType, Stamped
<1>3. memo[x] = <<>> \/ memo[x] \in {x} \X Nat
  BY DEF TypeInv, TreeType, BuildType
<1> QED
  BY <1>1, <1>2, <1>3 DEF HashFile, Input

LEMMA DigestsTyped ==
  ASSUME TypeInv, NEW S \in SUBSET Input, NEW s \in Seq(S)
  PROVE  [i \in DOMAIN s |-> HashFile(s[i])] \in Seq(S \X Nat)
<1> DEFINE h == [x \in S |-> HashFile(x)]
<1>1. \A x \in S : h[x] \in S \X Nat
  BY HashTyped
<1>2. [i \in DOMAIN s |-> h[s[i]]] \in Seq(S \X Nat)
  <2> HIDE DEF h
  <2> QED
    BY <1>1, OneEach
<1>3. \A i \in DOMAIN s : s[i] \in S
  OBVIOUS
<1> QED
  BY <1>2, <1>3

LEMMA ActionKeyTyped ==
  ASSUME TypeInv, NEW s \in Seq(Input), NEW l \in Seq(File)
  PROVE  ActionKey(s, l) \in Keys /\ ActionKey(s, l) # NoKey
<1>1. [i \in DOMAIN s |-> HashFile(s[i])] \in Seq(Input \X Nat)
  BY DigestsTyped
<1>2. [i \in DOMAIN l |-> HashFile(l[i])] \in Seq(File \X Nat)
  BY DigestsTyped DEF Input
<1>3. option \in Option /\ option # None
  BY TreeAssumption DEF TypeInv, TreeType, BuildType
<1> QED
  BY <1>1, <1>2, <1>3 DEF ActionKey, Keys, NoKey

LEMMA DepInputsTyped ==
  ASSUME TypeInv, NEW a \in Action
  PROVE  DepInputs(a) \in Seq(File) /\ (a \notin Compile => DepInputs(a) = <<>>)
<1>1. depfile[a].list \in Seq(File) /\ depsPrev[a].list \in Seq(File)
  BY DEF TypeInv, TreeType, BuildType, DepLists
<1> QED
  BY <1>1 DEF DepInputs

LEMMA RecordDepsTyped ==
  ASSUME TypeInv, NEW a \in Action
  PROVE  RecordDeps(a) \in DepLists
BY DepInputsTyped DEF RecordDeps, TypeInv, TreeType, BuildType, DepLists

\* The inputs of a key are those of the graph and those of the depfile.
LEMMA PreparedTyped ==
  ASSUME TypeInv, NEW a \in Action
  PROVE  /\ PreparedInputs(a) \in Seq(ToSet(Static[a]) \cup ToSet(DepInputs(a)))
         /\ ToSet(PreparedInputs(a)) \subseteq ToSet(Static[a]) \cup ToSet(DepInputs(a))
         /\ PreparedInputs(a) \in Seq(Input)
         /\ PreparedKey(a) \in Keys /\ PreparedKey(a) # NoKey
<1> DEFINE s == Static[a]
           l == DepInputs(a)
<1>1. s \in Seq(ToSet(s)) /\ l \in Seq(ToSet(l)) /\ ToSet(s) \subseteq Input /\ ToSet(l) \subseteq Input
      /\ l \in Seq(File)
  BY Program, DepInputsTyped, ListOfItself DEF Input
<1> HIDE DEF s, l
<1>2. Without(l, s) \in Seq(ToSet(l))
  BY <1>1, WithoutOf
<1>3. s \o Without(l, s) \in Seq(ToSet(s) \cup ToSet(l))
  BY <1>1, <1>2
<1>4. s \o Without(l, s) \in Seq(Input)
  BY <1>1, <1>2
<1>5. PreparedInputs(a) = s \o Without(l, s) /\ PreparedKey(a) = ActionKey(PreparedInputs(a), l)
  BY DEF PreparedInputs, PreparedKey, s, l
<1>6. ToSet(s \o Without(l, s)) \subseteq ToSet(s) \cup ToSet(l)
  BY <1>3, ListOfItself
<1>7. ActionKey(PreparedInputs(a), l) \in Keys /\ ActionKey(PreparedInputs(a), l) # NoKey
  BY <1>1, <1>4, <1>5, ActionKeyTyped
<1> QED
  BY <1>3, <1>4, <1>5, <1>6, <1>7 DEF s, l

LEMMA RefreshedTyped ==
  ASSUME TypeInv, NEW a \in Compile
  PROVE  /\ RefreshedInputs(a) \in Seq(ToSet(Static[a]) \cup ToSet(DepInputs(a)))
         /\ ActionKey(RefreshedInputs(a), DepInputs(a)) \in Keys
         /\ ActionKey(RefreshedInputs(a), DepInputs(a)) # NoKey
<1> DEFINE s == Static[a]
           l == DepInputs(a)
           t == Without(s, plan[a].deps)
<1>0. a \in Action
  BY DEF Action
<1>1. s \in Seq(ToSet(s)) /\ l \in Seq(ToSet(l)) /\ ToSet(s) \subseteq Input /\ ToSet(l) \subseteq Input
      /\ l \in Seq(File)
  BY <1>0, Program, DepInputsTyped, ListOfItself DEF Input
<1>2. t \in Seq(ToSet(s))
  <2> HIDE DEF s
  <2> QED
    BY <1>1, WithoutOf
<1>3. RefreshedInputs(a) = t \o Without(l, t)
  BY DEF RefreshedInputs
<1> HIDE DEF s, l, t
<1>4. Without(l, t) \in Seq(ToSet(l))
  BY <1>1, WithoutOf
<1>5. t \o Without(l, t) \in Seq(ToSet(s) \cup ToSet(l)) /\ t \o Without(l, t) \in Seq(Input)
  BY <1>1, <1>2, <1>4
<1>6. ActionKey(RefreshedInputs(a), l) \in Keys /\ ActionKey(RefreshedInputs(a), l) # NoKey
  BY <1>1, <1>3, <1>5, ActionKeyTyped
<1> QED
  BY <1>3, <1>5, <1>6 DEF s, l

LEMMA DiscoveredTyped ==
  ASSUME TypeInv, NEW a \in Compile
  PROVE  Discovered(a) \in Seq(File)
<1>1. edition[SourceOf[a]] \in 0..MaxEdits /\ SourceOf[a] \in File
  BY TreeAssumption DEF TypeInv, TreeType, BuildType
<1>2. Includes[SourceOf[a]][edition[SourceOf[a]]] \in Seq(File)
  BY <1>1, TreeAssumption
<1> QED
  BY <1>1, <1>2 DEF Discovered

LEMMA RememberTyped ==
  ASSUME TypeInv, NEW s
  PROVE  /\ DOMAIN Remember(s) = Input
         /\ \A x \in Input : Remember(s)[x] = <<>> \/ Remember(s)[x] \in {x} \X Nat
BY HashTyped DEF Remember, TypeInv, BuildType

-----------------------------------------------------------------------------
\* What every build keeps to.

LEMMA ForgetKeeps ==
  ASSUME TypeInv, Forget
  PROVE  BuildType' /\ OrderInv'
<1>1. BuildType'
  BY NothingTyped DEF TypeInv, BuildType, Forget
<1>2. OrderInv'
  BY DEF Forget, OrderInv
<1> QED
  BY <1>1, <1>2

LEMMA LeftoversTyped ==
  ASSUME TypeInv, Leftovers(Running)
  PROVE  TreeType'
<1>1. /\ second' = second + 1 /\ UNCHANGED <<edition, option, edits>>
      /\ \E whole \in SUBSET {a \in Running : InputsExist(a)} :
         \E part \in SUBSET (Running \ whole) :
         \E gone \in SUBSET (Running \ (whole \cup part)) :
           /\ obj' = [a \in Action |->
                IF a \in whole THEN [stamp |-> second + 1, of |-> Content(a)]
                ELSE IF a \in part THEN [stamp |-> second + 1, of |-> Nothing]
                ELSE IF a \in gone THEN NoOutput ELSE obj[a]]
           /\ depfile' = [a \in Action |->
                IF a \in whole \cap Compile
                THEN [print |-> second + 1, list |-> Discovered(a)] ELSE depfile[a]]
  BY DEF Leftovers
<1>2. PICK whole \in SUBSET {a \in Running : InputsExist(a)} :
           \E part \in SUBSET (Running \ whole) :
           \E gone \in SUBSET (Running \ (whole \cup part)) :
             /\ obj' = [a \in Action |->
                  IF a \in whole THEN [stamp |-> second + 1, of |-> Content(a)]
                  ELSE IF a \in part THEN [stamp |-> second + 1, of |-> Nothing]
                  ELSE IF a \in gone THEN NoOutput ELSE obj[a]]
             /\ depfile' = [a \in Action |->
                  IF a \in whole \cap Compile
                  THEN [print |-> second + 1, list |-> Discovered(a)] ELSE depfile[a]]
  BY <1>1
<1>3. DOMAIN obj' = Action
      /\ \A a \in Action : obj'[a].stamp = second + 1 \/ obj'[a] = NoOutput \/ obj'[a] = obj[a]
  BY <1>2
<1>4. second \in Nat /\ second' \in Nat /\ second' = second + 1 /\ second + 1 # 0
  BY <1>1 DEF TypeInv, TreeType
<1>5. \A a \in Action : Stamped(obj[a])'
  BY <1>3, <1>4 DEF Stamped, NoOutput, TypeInv, TreeType
<1>6. depfile' \in [Action -> DepLists]
  <2>1. \A a \in Compile : [print |-> second + 1, list |-> Discovered(a)] \in DepLists
    BY <1>4, DiscoveredTyped DEF DepLists
  <2> QED
    BY <1>2, <2>1 DEF TypeInv, TreeType
<1>7. \A a \in Final : depfile'[a] = NoDeps
  BY <1>2, TreeAssumption DEF TypeInv, TreeType, Action
<1> QED
  BY <1>1, <1>3, <1>4, <1>5, <1>6, <1>7 DEF TypeInv, TreeType

LEMMA GiveUpKeeps ==
  ASSUME TypeInv, GiveUp
  PROVE  TreeType' /\ BuildType' /\ HistoryType' /\ OrderInv'
<1>1. BuildType' /\ OrderInv'
  BY ForgetKeeps DEF GiveUp
<1>2. TreeType'
  <2>1. CASE Running = {}
    BY <2>1 DEF GiveUp, tree, TypeInv, TreeType, Stamped
  <2>2. CASE Running # {}
    BY <2>2, LeftoversTyped DEF GiveUp
  <2> QED
    BY <2>1, <2>2
<1>3. HistoryType'
  BY DEF GiveUp, TypeInv, HistoryType, Running
<1> QED
  BY <1>1, <1>2, <1>3

LEMMA ChangedKeeps ==
  ASSUME TypeInv, OrderInv, Changed
  PROVE  StoredType' /\ BuildType' /\ HistoryType' /\ OrderInv'
<1>1. UNCHANGED <<stored, phase, ctx, owed>> /\ sure' = {} /\ steady' = FALSE
  BY DEF Changed
<1>2. StoredType' /\ BuildType' /\ HistoryType'
  BY <1>1 DEF TypeInv, StoredType, BuildType, HistoryType, stored, ctx
<1>3. OrderInv'
  BY <1>1 DEF OrderInv, stored, ctx
<1> QED
  BY <1>2, <1>3

LEMMA EditTyped ==
  ASSUME TypeInv, OrderInv, NEW f \in File, Edit(f)
  PROVE  TypeInv' /\ OrderInv'
<1>1. edits' = edits + 1 /\ edits' \in 1..MaxEdits /\ edits \in Nat
      /\ edition' = [edition EXCEPT ![f] = edits + 1]
      /\ UNCHANGED <<option, obj, depfile, second>>
  BY TreeAssumption DEF Edit, TypeInv, TreeType
<1>2. edition' \in [File -> 0..edits']
  BY <1>1 DEF TypeInv, TreeType
<1>3. TreeType'
  BY <1>1, <1>2 DEF TypeInv, TreeType, Stamped
<1> QED
  BY <1>3, ChangedKeeps DEF Edit, TypeInv

LEMMA OtherChangesTyped ==
  ASSUME TypeInv, OrderInv,
         \/ \E f \in File : RemoveFile(f)
         \/ \E o \in Option : SetOption(o)
         \/ \E a \in Action : DeleteOutput(a) \/ DeleteDepfile(a)
  PROVE  TypeInv' /\ OrderInv'
<1>1. Changed
  BY DEF RemoveFile, SetOption, DeleteOutput, DeleteDepfile
<1>2. CASE \E f \in File : RemoveFile(f)
  <2>1. PICK f \in File : RemoveFile(f)
    BY <1>2
  <2>2. edits \in 1..MaxEdits
    BY DEF TypeInv, TreeType
  <2>3. edition' \in [File -> 0..edits]
    BY <2>1, <2>2 DEF RemoveFile, TypeInv, TreeType
  <2> QED
    BY <2>1, <2>3, <1>1, ChangedKeeps DEF RemoveFile, TypeInv, TreeType, Stamped
<1>3. CASE \E o \in Option : SetOption(o)
  <2>1. PICK o \in Option : SetOption(o)
    BY <1>3
  <2>2. edits' = edits + 1 /\ edits' \in 1..MaxEdits /\ edits \in Nat /\ option' = o
        /\ UNCHANGED <<edition, obj, depfile, second>>
    BY <2>1, TreeAssumption DEF SetOption, TypeInv, TreeType
  <2>3. edition' \in [File -> 0..edits']
    BY <2>2 DEF TypeInv, TreeType
  <2>4. TreeType'
    BY <2>2, <2>3 DEF TypeInv, TreeType, Stamped
  <2> QED
    BY <2>4, <1>1, ChangedKeeps DEF TypeInv
<1>4. CASE \E a \in Action : DeleteOutput(a)
  <2>1. PICK a \in Action : DeleteOutput(a)
    BY <1>4
  <2>2. obj' = [obj EXCEPT ![a] = NoOutput]
        /\ UNCHANGED <<edition, option, depfile, second, edits>>
    BY <2>1 DEF DeleteOutput
  <2>3. DOMAIN obj' = Action /\ \A b \in Action : obj'[b] = NoOutput \/ obj'[b] = obj[b]
    BY <2>2 DEF TypeInv, TreeType
  <2>4. TreeType'
    BY <2>2, <2>3 DEF TypeInv, TreeType, Stamped, NoOutput
  <2> QED
    BY <2>4, <1>1, ChangedKeeps DEF TypeInv
<1>5. CASE \E a \in Action : DeleteDepfile(a)
  <2>1. PICK a \in Action : DeleteDepfile(a)
    BY <1>5
  <2>2. depfile' = [depfile EXCEPT ![a] = NoDeps]
        /\ UNCHANGED <<edition, option, obj, second, edits>>
    BY <2>1 DEF DeleteDepfile
  <2>3. depfile' \in [Action -> DepLists] /\ \A b \in Final : depfile'[b] = NoDeps
    BY <2>2, NothingTyped DEF TypeInv, TreeType, Action
  <2>4. TreeType'
    BY <2>2, <2>3 DEF TypeInv, TreeType, Stamped
  <2> QED
    BY <2>4, <1>1, ChangedKeeps DEF TypeInv
<1> QED
  BY <1>2, <1>3, <1>4, <1>5

LEMMA BeginTyped ==
  ASSUME TypeInv, OrderInv, NEW g \in Goals, NEW who \in Frontends, Begin(g, who)
  PROVE  TypeInv' /\ OrderInv'
<1>1. /\ phase = "idle" /\ phase' = "build" /\ goal' = g /\ frontend' = who
      /\ builds' = builds + 1 /\ builds < MaxBuilds /\ steady' = TRUE
      /\ prev' = LoadedState(who) /\ depsPrev' = LoadedDeps(who)
      /\ UNCHANGED <<tree, stateDb, depsDb, st, next, depsNext, memo, plan, sure, owed>>
  BY DEF Begin
<1>2. prev' \in [Action -> Keys] /\ depsPrev' \in [Action -> DepLists]
  BY <1>1 DEF LoadedState, LoadedDeps, TypeInv, StoredType, Memory
<1>3. mem' \in Memory
  <2>1. SomeDeps(depsPrev') \in BOOLEAN
    BY DEF SomeDeps
  <2>2. mem' = IF who = "cli" THEN mem
               ELSE [loaded |-> TRUE, state |-> prev',
                     depsLoaded |-> SomeDeps(depsPrev'), deps |-> depsPrev']
    BY DEF Begin
  <2> QED
    BY <1>2, <2>1, <2>2 DEF TypeInv, StoredType, Memory
<1>4. TreeType' /\ StoredType' /\ HistoryType'
  BY <1>1, <1>3 DEF TypeInv, TreeType, StoredType, HistoryType, Stamped, tree
<1>5. BuildType'
  <2>1. builds' \in 0..MaxBuilds
    BY <1>1, TreeAssumption DEF TypeInv, BuildType
  <2> QED
    BY <1>1, <1>2, <2>1 DEF TypeInv, BuildType
<1>6. OrderInv'
  BY <1>1 DEF OrderInv, NoKey
<1> QED
  BY <1>4, <1>5, <1>6 DEF TypeInv

LEMMA PrepareTyped ==
  ASSUME TypeInv, NEW a \in Action, Prepare(a)
  PROVE  /\ DOMAIN memo' = Input /\ \A x \in Input : memo'[x] = <<>> \/ memo'[x] \in {x} \X Nat
         /\ depsNext' \in [Action -> DepLists]
         /\ phase = "build" /\ a \in goal /\ st[a] = "todo"
         /\ \A b \in Needs(a) : st[b] \in {"skipped", "built"} /\ b # a
<1>1. memo' = Remember(PreparedInputs(a)) /\ depsNext' = [depsNext EXCEPT ![a] = RecordDeps(a)]
      /\ Ready(a)
  BY DEF Prepare
<1>2. DOMAIN memo' = Input /\ \A x \in Input : memo'[x] = <<>> \/ memo'[x] \in {x} \X Nat
  BY <1>1, RememberTyped
<1>3. depsNext' \in [Action -> DepLists]
  BY <1>1, RecordDepsTyped DEF TypeInv, BuildType
<1> QED
  BY <1>1, <1>2, <1>3 DEF Ready

LEMMA SkipTyped ==
  ASSUME TypeInv, OrderInv, NEW a \in Action, Skip(a)
  PROVE  TypeInv' /\ OrderInv'
<1>1. /\ Prepare(a) /\ prev[a] = PreparedKey(a)
      /\ st' = [st EXCEPT ![a] = "skipped"] /\ next' = [next EXCEPT ![a] = PreparedKey(a)]
      /\ UNCHANGED <<tree, stored, phase, goal, frontend, prev, depsPrev, plan, builds, history>>
  BY DEF Skip, CacheHit
<1>2. TreeType' /\ StoredType' /\ HistoryType'
  BY <1>1 DEF TypeInv, TreeType, StoredType, HistoryType, Stamped, tree, stored, history
<1>3. BuildType'
  BY <1>1, PrepareTyped, PreparedTyped DEF TypeInv, BuildType
<1>4. /\ DOMAIN st = Action /\ DOMAIN next = Action /\ st[a] = "todo" /\ phase = "build"
      /\ a \in goal /\ \A b \in Needs(a) : st[b] \in {"skipped", "built"} /\ b # a
  BY <1>1, PrepareTyped DEF TypeInv, BuildType
<1>5. OrderInv'
  BY <1>1, <1>4 DEF OrderInv
<1> QED
  BY <1>2, <1>3, <1>5 DEF TypeInv

LEMMA StartTyped ==
  ASSUME TypeInv, OrderInv, NEW a \in Action, Start(a)
  PROVE  TypeInv' /\ OrderInv'
<1>1. /\ Prepare(a)
      /\ st' = [st EXCEPT ![a] = "running"]
      /\ plan' = [plan EXCEPT ![a] = [key |-> PreparedKey(a), deps |-> DepInputs(a)]]
      /\ UNCHANGED <<tree, stored, phase, goal, frontend, prev, next, depsPrev, builds, history>>
  BY DEF Start
<1>2. TreeType' /\ StoredType' /\ HistoryType'
  BY <1>1 DEF TypeInv, TreeType, StoredType, HistoryType, Stamped, tree, stored, history
<1>3. BuildType'
  <2>1. [key |-> PreparedKey(a), deps |-> DepInputs(a)] \in [key : Keys, deps : Seq(File)]
    BY PreparedTyped, DepInputsTyped
  <2>2. plan' \in [Action -> [key : Keys, deps : Seq(File)]]
    BY <1>1, <2>1 DEF TypeInv, BuildType
  <2> QED
    BY <1>1, <2>2, PrepareTyped DEF TypeInv, BuildType
<1>4. /\ DOMAIN st = Action /\ st[a] = "todo" /\ phase = "build"
      /\ a \in goal /\ \A b \in Needs(a) : st[b] \in {"skipped", "built"} /\ b # a
  BY <1>1, PrepareTyped DEF TypeInv, BuildType
<1>5. OrderInv'
  BY <1>1, <1>4 DEF OrderInv
<1> QED
  BY <1>2, <1>3, <1>5 DEF TypeInv

LEMMA FinishTyped ==
  ASSUME TypeInv, OrderInv, NEW a \in Action, Finish(a)
  PROVE  TypeInv' /\ OrderInv'
<1>1. /\ phase = "build" /\ st[a] = "running" /\ second' \in Seconds
      /\ obj' = [obj EXCEPT ![a] = [stamp |-> second', of |-> Content(a)]]
      /\ depfile' = IF a \in Compile
                    THEN [depfile EXCEPT ![a] = [print |-> second', list |-> Discovered(a)]]
                    ELSE depfile
      /\ st' = [st EXCEPT ![a] = "built"] /\ next' = [next EXCEPT ![a] = plan[a].key]
      /\ owed' = owed \ {a}
      /\ UNCHANGED <<edition, option, edits, stored, phase, goal, frontend, prev,
                     depsPrev, depsNext, memo, plan, builds, sure, steady>>
  BY DEF Finish
<1>2. second \in Nat /\ second' \in Nat /\ second' >= second /\ second' # 0
  BY <1>1 DEF Seconds, TypeInv, TreeType
<1>3. DOMAIN obj' = Action /\ obj'[a].stamp = second' /\ \A b \in Action \ {a} : obj'[b] = obj[b]
  BY <1>1 DEF TypeInv, TreeType
<1>4. \A b \in Action : Stamped(obj[b])'
  BY <1>2, <1>3 DEF TypeInv, TreeType, Stamped
<1>5. depfile' \in [Action -> DepLists] /\ \A b \in Final : depfile'[b] = NoDeps
  <2>1. a \in Compile => [print |-> second', list |-> Discovered(a)] \in DepLists
    BY <1>2, DiscoveredTyped DEF DepLists
  <2>2. \A b \in Final : b # a \/ a \notin Compile
    BY TreeAssumption
  <2> QED
    BY <1>1, <2>1, <2>2 DEF TypeInv, TreeType, Action
<1>6. TreeType' /\ StoredType' /\ HistoryType'
  BY <1>1, <1>2, <1>3, <1>4, <1>5 DEF TypeInv, TreeType, StoredType, HistoryType, stored
<1>7. BuildType'
  <2>1. plan[a].key \in Keys
    BY DEF TypeInv, BuildType
  <2> QED
    BY <1>1, <2>1 DEF TypeInv, BuildType
<1>8. OrderInv'
  <2>1. DOMAIN st = Action /\ DOMAIN next = Action
    BY DEF TypeInv, BuildType
  <2> QED
    BY <1>1, <2>1 DEF OrderInv
<1> QED
  BY <1>6, <1>7, <1>8 DEF TypeInv

LEMMA FlushTyped ==
  ASSUME TypeInv, OrderInv, Flush
  PROVE  TypeInv' /\ OrderInv'
<1>1. /\ phase = "build" /\ phase' = "state" /\ next' = FlushedKeys
      /\ \A a \in goal : st[a] \in {"skipped", "built"}
      /\ depsNext' = [a \in Action |-> IF a \in Refreshed THEN RecordDeps(a) ELSE depsNext[a]]
      /\ UNCHANGED <<tree, stored, goal, frontend, st, prev, depsPrev, memo, plan, builds, history>>
  BY DEF Flush, Settled
<1>2. TreeType' /\ StoredType' /\ HistoryType'
  BY <1>1 DEF TypeInv, TreeType, StoredType, HistoryType, Stamped, tree, stored, history
<1>3. next' \in [Action -> Keys]
  BY <1>1, RefreshedTyped DEF FlushedKeys, Refreshed, TypeInv, BuildType
<1>4. depsNext' \in [Action -> DepLists]
  BY <1>1, RecordDepsTyped DEF TypeInv, BuildType
<1>5. BuildType'
  BY <1>1, <1>3, <1>4 DEF TypeInv, BuildType
<1>6. \A a \in Action : IF a \in Refreshed THEN st[a] = "built" ELSE next'[a] = next[a]
  BY <1>1 DEF FlushedKeys, Refreshed
<1>7. OrderInv'
  BY <1>1, <1>6 DEF OrderInv, Refreshed
<1> QED
  BY <1>2, <1>5, <1>7 DEF TypeInv

LEMMA WriteStateTyped ==
  ASSUME TypeInv, OrderInv, WriteState
  PROVE  TypeInv' /\ OrderInv'
<1>1. /\ phase = "state" /\ phase' = "deps" /\ stateDb' = Preserved /\ mem' = StateInMemory
      /\ UNCHANGED <<tree, depsDb, ctx, history>>
  BY DEF WriteState
<1>2. Preserved \in [Action -> Keys]
  BY DEF Preserved, TypeInv, BuildType
<1>3. mem' \in Memory
  BY <1>1, <1>2 DEF StateInMemory, TypeInv, StoredType, Memory
<1>4. TreeType' /\ StoredType' /\ HistoryType' /\ BuildType'
  BY <1>1, <1>2, <1>3
     DEF TypeInv, TreeType, StoredType, HistoryType, BuildType, Stamped, tree, ctx, history
<1>5. OrderInv'
  BY <1>1 DEF OrderInv, ctx
<1> QED
  BY <1>4, <1>5 DEF TypeInv

LEMMA WriteDepsTyped ==
  ASSUME TypeInv, OrderInv, WriteDeps
  PROVE  TypeInv' /\ OrderInv'
<1>1. /\ phase = "deps" /\ depsDb' = IF SomeDeps(depsNext) THEN depsNext ELSE depsDb
      /\ mem' = DepsInMemory /\ sure' = IF steady THEN sure \cup goal ELSE {}
      /\ Forget /\ UNCHANGED <<tree, stateDb, steady, owed>>
  BY DEF WriteDeps
<1>2. mem' \in Memory
  BY <1>1 DEF DepsInMemory, TypeInv, StoredType, BuildType, Memory
<1>3. goal \subseteq Action
  BY TreeAssumption DEF TypeInv, BuildType
<1>4. TreeType' /\ StoredType' /\ HistoryType'
  BY <1>1, <1>2, <1>3
     DEF TypeInv, TreeType, StoredType, HistoryType, BuildType, Stamped, tree
<1> QED
  BY <1>1, <1>4, ForgetKeeps DEF TypeInv

\* A build that does not get to its end leaves the databases as they are.
EndsEarly == ExitBad \/ MissingInput \/ Kill \/ FlushFails \/ WriteFails

LEMMA EndsEarlyDoes ==
  ASSUME EndsEarly
  PROVE  GiveUp /\ phase # "idle" /\ UNCHANGED <<stateDb, depsDb>>
         /\ mem' \in {mem, NoMemory} /\ (frontend # "daemon" => mem' = mem)
<1>1. CASE Kill
  BY <1>1 DEF Kill
<1>2. CASE MissingInput
  BY <1>2 DEF MissingInput, stored
<1>3. CASE ExitBad \/ FlushFails \/ WriteFails
  BY <1>3 DEF ExitBad, FlushFails, WriteFails, Settled, stored
<1> QED
  BY <1>1, <1>2, <1>3 DEF EndsEarly

LEMMA EndsEarlyTyped ==
  ASSUME TypeInv, OrderInv, EndsEarly
  PROVE  TypeInv' /\ OrderInv'
<1>1. StoredType'
  BY EndsEarlyDoes, NothingTyped DEF TypeInv, StoredType
<1> QED
  BY <1>1, EndsEarlyDoes, GiveUpKeeps DEF TypeInv

LEMMA DaemonRestartTyped ==
  ASSUME TypeInv, OrderInv, DaemonRestart
  PROVE  TypeInv' /\ OrderInv'
<1>1. mem' = NoMemory /\ UNCHANGED <<tree, stateDb, depsDb, phase, ctx, history>>
  BY DEF DaemonRestart
<1>2. TypeInv'
  BY <1>1, NothingTyped
     DEF TypeInv, TreeType, StoredType, HistoryType, BuildType, Stamped, tree, ctx, history
<1>3. OrderInv'
  BY <1>1 DEF OrderInv, ctx
<1> QED
  BY <1>2, <1>3

LEMMA StutterTyped ==
  ASSUME TypeInv, OrderInv, UNCHANGED vars
  PROVE  TypeInv' /\ OrderInv'
<1>1. UNCHANGED <<tree, stored, phase, ctx, history>>
  BY DEF vars
<1>2. TypeInv'
  BY <1>1 DEF TypeInv, TreeType, StoredType, HistoryType, BuildType, Stamped, tree, stored, ctx,
              history
<1>3. OrderInv'
  BY <1>1 DEF OrderInv, ctx
<1> QED
  BY <1>2, <1>3

\* The types, and where the actions of a build are.
THEOREM Types == Spec => [](TypeInv /\ OrderInv)
<1>1. Init => TypeInv /\ OrderInv
  <2> SUFFICES ASSUME Init PROVE TypeInv /\ OrderInv
    OBVIOUS
  <2>1. TreeType
    BY TreeAssumption, NothingTyped DEF Init, TreeType, Stamped, NoOutput, Action
  <2>2. StoredType /\ HistoryType
    BY NothingTyped DEF Init, StoredType, HistoryType
  <2>3. BuildType
    BY TreeAssumption, NothingTyped DEF Init, BuildType
  <2>4. OrderInv
    BY DEF Init, OrderInv
  <2> QED
    BY <2>1, <2>2, <2>3, <2>4 DEF TypeInv
<1>2. TypeInv /\ OrderInv /\ [Next]_vars => TypeInv' /\ OrderInv'
  <2> SUFFICES ASSUME TypeInv, OrderInv, [Next]_vars PROVE TypeInv' /\ OrderInv'
    OBVIOUS
  <2>1. CASE Change
    BY <2>1, EditTyped, OtherChangesTyped DEF Change
  <2>2. CASE \E g \in Goals, who \in Frontends : Begin(g, who)
    BY <2>2, BeginTyped
  <2>3. CASE \E a \in Action : Skip(a) \/ Start(a) \/ Finish(a)
    BY <2>3, SkipTyped, StartTyped, FinishTyped
  <2>4. CASE EndsEarly \/ DaemonRestart
    BY <2>4, EndsEarlyTyped, DaemonRestartTyped
  <2>5. CASE Flush \/ WriteState \/ WriteDeps
    BY <2>5, FlushTyped, WriteStateTyped, WriteDepsTyped
  <2>6. CASE UNCHANGED vars
    BY <2>6, StutterTyped
  <2> QED
    BY <2>1, <2>2, <2>3, <2>4, <2>5, <2>6 DEF Next, Build, EndsEarly
<1> QED
  BY <1>1, <1>2, PTL DEF Spec

-----------------------------------------------------------------------------
\* The daemon's copies.

LEMMA MirrorStep ==
  ASSUME OneFrontend, TypeInv, OrderInv, MirrorInv, [Next]_vars
  PROVE  MirrorInv'
<1>1. CASE UNCHANGED <<stateDb, depsDb, mem, prev, phase>>
  BY <1>1 DEF MirrorInv
<1>2. CASE Change \/ UNCHANGED vars
  BY <1>1, <1>2
     DEF Change, Edit, RemoveFile, SetOption, DeleteOutput, DeleteDepfile, Changed, vars, stored, ctx
<1>3. CASE \E g \in Goals, who \in Frontends : Begin(g, who)
  <2>1. PICK g \in Goals, who \in Frontends : Begin(g, who)
    BY <1>3
  <2>2. /\ prev' = (IF who = "daemon" /\ mem.loaded THEN mem.state ELSE stateDb)
        /\ depsPrev' = (IF who = "daemon" /\ mem.depsLoaded THEN mem.deps ELSE depsDb)
        /\ mem' = IF who = "cli" THEN mem
                  ELSE [loaded |-> TRUE, state |-> prev',
                        depsLoaded |-> SomeDeps(depsPrev'), deps |-> depsPrev']
        /\ stateDb' = stateDb /\ depsDb' = depsDb /\ phase' = "build"
    BY <2>1 DEF Begin, LoadedState, LoadedDeps
  <2>3. prev' = stateDb /\ depsPrev' = depsDb
    BY <2>2 DEF MirrorInv
  <2>4. who = "cli" \/ who = "daemon"
    BY TreeAssumption
  <2> QED
    BY <2>2, <2>3, <2>4 DEF MirrorInv
<1>4. CASE \E a \in Action : Skip(a) \/ Start(a) \/ Finish(a)
  BY <1>1, <1>4 DEF Skip, Start, Finish, stored
<1>5. CASE EndsEarly \/ DaemonRestart
  <2>1. mem' \in {mem, NoMemory} /\ stateDb' = stateDb /\ depsDb' = depsDb /\ phase' = "idle"
    BY <1>5, EndsEarlyDoes DEF DaemonRestart, GiveUp, Forget
  <2> QED
    BY <2>1 DEF MirrorInv, NoMemory
<1>6. CASE Flush
  BY <1>6 DEF Flush, Settled, stored, MirrorInv
<1>7. CASE WriteState
  <2>1. /\ stateDb' = Preserved /\ depsDb' = depsDb /\ phase' = "deps"
        /\ mem' = IF frontend = "daemon" THEN [mem EXCEPT !.loaded = TRUE, !.state = Preserved]
                  ELSE mem
        /\ frontend \in Frontends
    BY <1>7 DEF WriteState, StateInMemory, OrderInv
  <2>2. CASE frontend = "daemon"
    <3>1. mem'.loaded /\ mem'.state = Preserved /\ mem'.depsLoaded = mem.depsLoaded
          /\ mem'.deps = mem.deps
      BY <2>1, <2>2 DEF MirrorInv, TypeInv, StoredType, Memory
    <3> QED
      BY <2>1, <2>2, <3>1 DEF MirrorInv
  <2>3. CASE frontend # "daemon"
    <3>1. mem = NoMemory /\ mem' = mem
      BY <2>1, <2>3, TreeAssumption DEF MirrorInv, OneFrontend
    <3> QED
      BY <2>1, <3>1 DEF MirrorInv, NoMemory
  <2> QED
    BY <2>2, <2>3
<1>8. CASE WriteDeps
  <2>1. /\ stateDb' = stateDb /\ depsDb' = (IF SomeDeps(depsNext) THEN depsNext ELSE depsDb)
        /\ phase' = "idle" /\ frontend \in Frontends
        /\ mem' = IF frontend = "daemon" /\ SomeDeps(depsNext)
                  THEN [mem EXCEPT !.depsLoaded = TRUE, !.deps = depsNext] ELSE mem
    BY <1>8 DEF WriteDeps, DepsInMemory, OrderInv, Forget
  <2>2. CASE frontend = "daemon"
    <3>1. mem'.loaded = mem.loaded /\ mem'.state = mem.state
          /\ (mem'.depsLoaded => mem'.deps = depsDb')
      BY <2>1, <2>2 DEF MirrorInv, TypeInv, StoredType, Memory
    <3> QED
      BY <2>1, <2>2, <3>1 DEF MirrorInv
  <2>3. CASE frontend # "daemon"
    <3>1. mem = NoMemory /\ mem' = mem
      BY <2>1, <2>3, TreeAssumption DEF MirrorInv, OneFrontend
    <3> QED
      BY <2>1, <3>1 DEF MirrorInv, NoMemory
  <2> QED
    BY <2>2, <2>3
<1> QED
  BY <1>2, <1>3, <1>4, <1>5, <1>6, <1>7, <1>8 DEF Next, Build, EndsEarly

\* As long as the builds of a directory all go through the daemon, or none does,
\* what it remembers of state.db and deps.db is what they contain.
THEOREM Mirror == ASSUME OneFrontend PROVE Spec => []MirrorInv
<1>1. Init => MirrorInv
  BY DEF Init, MirrorInv, NoMemory
<1>2. TypeInv /\ OrderInv /\ MirrorInv /\ [Next]_vars => MirrorInv'
  BY MirrorStep
<1> QED
  BY <1>1, <1>2, Types, PTL DEF Spec

-----------------------------------------------------------------------------
\* Depfile lists.

\* A list taken from a record is the list in the depfile.
LEMMA ListTaken ==
  ASSUME TypeInv, ListInv, NEW a \in Action
  PROVE  DepInputs(a) = List0(a)
BY DEF ListInv, DepInputs, DepsHit, List0

LEMMA ListKept ==
  ASSUME TypeInv, ListInv, second' \in Nat, second' >= second, depfile' \in [Action -> DepLists],
         \A a \in Action : \/ depfile'[a] = depfile[a] \/ depfile'[a] = NoDeps
                           \/ depfile'[a].print = second' /\ second' > second,
         \A d \in {depsDb', mem'.deps, depsPrev', depsNext'} : \A a \in Action :
            \/ \E e \in {depsDb, mem.deps, depsPrev, depsNext} : d[a] = e[a]
            \/ d[a] = NoDeps
            \/ depfile'[a] = depfile[a] /\ d[a] = RecordDeps(a)
  PROVE  ListInv'
<1> second \in Nat /\ \A a \in Action : depfile[a].print \in Nat /\ depfile'[a].print \in Nat
  BY DEF TypeInv, TreeType, DepLists
<1>1. \A a \in Action : depfile'[a].print <= second'
  BY DEF ListInv, NoDeps
<1>2. ASSUME NEW d \in {depsDb', mem'.deps, depsPrev', depsNext'}, NEW a \in Action
      PROVE  /\ d[a].print <= second'
             /\ d[a].print # 0 /\ d[a].print = depfile'[a].print => d[a].list = depfile'[a].list
  <2>1. CASE \E e \in {depsDb, mem.deps, depsPrev, depsNext} : d[a] = e[a]
    <3>1. PICK e \in {depsDb, mem.deps, depsPrev, depsNext} : d[a] = e[a]
      BY <2>1
    <3>2. e[a].print \in Nat /\ e[a].print <= second
      BY DEF ListInv, TypeInv, StoredType, BuildType, Memory, DepLists
    <3>3. e[a].print # 0 /\ e[a].print = depfile[a].print => e[a].list = depfile[a].list
      BY DEF ListInv
    <3> QED
      BY <3>1, <3>2, <3>3 DEF NoDeps
  <2>2. CASE d[a] = NoDeps
    BY <2>2 DEF NoDeps
  <2>3. CASE depfile'[a] = depfile[a] /\ d[a] = RecordDeps(a)
    <3>1. depfile[a].print # 0 /\ a \in Compile => DepInputs(a) = depfile[a].list
      BY ListTaken DEF List0
    <3>2. depsNext[a].print \in Nat /\ depsNext[a].print <= second
      BY DEF ListInv, TypeInv, BuildType, DepLists
    <3> QED
      BY <2>3, <3>1, <3>2 DEF RecordDeps, ListInv
  <2> QED
    BY <1>2, <2>1, <2>2, <2>3
<1> QED
  BY <1>1, <1>2 DEF ListInv

\* What the processes of a build that gives up leave of depfiles and stamps.
LEMMA GiveUpDepfiles ==
  ASSUME TypeInv, GiveUp
  PROVE  /\ second' \in Nat /\ second' >= second
         /\ \A a \in Action : depfile'[a] = depfile[a]
                                \/ (depfile'[a].print = second' /\ second' > second)
<1> second \in Nat
  BY DEF TypeInv, TreeType
<1>1. CASE Running = {}
  BY <1>1 DEF GiveUp, tree
<1>2. CASE Running # {}
  <2>1. second' = second + 1 /\ \E whole \in SUBSET Running :
           depfile' = [a \in Action |->
                IF a \in whole \cap Compile
                THEN [print |-> second + 1, list |-> Discovered(a)] ELSE depfile[a]]
    BY <1>2 DEF GiveUp, Leftovers
  <2> QED
    BY <2>1
<1> QED
  BY <1>1, <1>2

LEMMA ListStep ==
  ASSUME ~May("same-second"), TypeInv, TypeInv', OrderInv, ListInv, [Next]_vars
  PROVE  ListInv'
<1> second \in Nat /\ second' \in Nat /\ depfile' \in [Action -> DepLists]
  BY DEF TypeInv, TreeType
<1>1. CASE UNCHANGED <<depfile, second, depsDb, mem, depsPrev, depsNext>>
  BY <1>1, ListKept
<1>2. CASE \E f \in File : Edit(f) \/ RemoveFile(f)
  BY <1>1, <1>2 DEF Edit, RemoveFile, Changed, stored, ctx
<1>3. CASE (\E o \in Option : SetOption(o)) \/ (\E a \in Action : DeleteOutput(a)) \/ UNCHANGED vars
  BY <1>1, <1>3 DEF SetOption, DeleteOutput, Changed, stored, ctx, vars, tree
<1>4. CASE \E a \in Action : DeleteDepfile(a)
  <2>1. PICK a \in Action : DeleteDepfile(a)
    BY <1>4
  <2>2. depfile' = [depfile EXCEPT ![a] = NoDeps]
        /\ UNCHANGED <<second, depsDb, mem, depsPrev, depsNext>>
    BY <2>1 DEF DeleteDepfile, Changed, stored, ctx
  <2>3. \A b \in Action : depfile'[b] = depfile[b] \/ depfile'[b] = NoDeps
    BY <2>2 DEF TypeInv, TreeType
  <2> QED
    BY <2>2, <2>3, ListKept
<1>5. CASE \E g \in Goals, who \in Frontends : Begin(g, who)
  <2>1. PICK g \in Goals, who \in Frontends : Begin(g, who)
    BY <1>5
  <2>2. /\ depsPrev' \in {mem.deps, depsDb} /\ mem'.deps \in {mem.deps, depsPrev'}
        /\ depsDb' = depsDb /\ depsNext' = depsNext
        /\ depfile' = depfile /\ second' = second
    BY <2>1 DEF Begin, LoadedDeps, tree
  <2> QED
    BY <2>2, ListKept
<1>6. CASE \E a \in Action : Skip(a) \/ Start(a)
  <2>1. PICK a \in Action : Skip(a) \/ Start(a)
    BY <1>6
  <2>2. /\ depsNext' = [depsNext EXCEPT ![a] = RecordDeps(a)]
        /\ depsDb' = depsDb /\ mem' = mem /\ depsPrev' = depsPrev
        /\ depfile' = depfile /\ second' = second
    BY <2>1 DEF Skip, Start, Prepare, tree, stored
  <2>3. \A b \in Action : depsNext'[b] = depsNext[b] \/ depsNext'[b] = RecordDeps(b)
    BY <2>2 DEF TypeInv, BuildType
  <2> QED
    BY <2>2, <2>3, ListKept
<1>7. CASE \E a \in Action : Finish(a)
  <2>1. PICK a \in Action : Finish(a)
    BY <1>7
  <2>2. /\ depsNext' = depsNext /\ depsDb' = depsDb /\ mem' = mem /\ depsPrev' = depsPrev
        /\ second' = second + 1
        /\ depfile' = IF a \in Compile
                      THEN [depfile EXCEPT ![a] = [print |-> second', list |-> Discovered(a)]]
                      ELSE depfile
    BY <2>1 DEF Finish, Seconds, stored
  <2>3. \A b \in Action : depfile'[b] = depfile[b] \/ depfile'[b].print = second'
    BY <2>2 DEF TypeInv, TreeType
  <2> QED
    BY <2>2, <2>3, ListKept
<1>8. CASE EndsEarly \/ DaemonRestart
  <2>1. CASE DaemonRestart
    BY <2>1, ListKept DEF DaemonRestart, NoMemory, tree, ctx
  <2>2. CASE EndsEarly
    <3>1. /\ GiveUp /\ depsDb' = depsDb /\ mem' \in {mem, NoMemory}
          /\ depsPrev' = [a \in Action |-> NoDeps] /\ depsNext' = depsPrev'
      BY <2>2, EndsEarlyDoes DEF GiveUp, Forget
    <3> QED
      BY <3>1, GiveUpDepfiles, ListKept DEF NoMemory
  <2> QED
    BY <1>8, <2>1, <2>2
<1>9. CASE Flush
  <2>1. /\ depsNext' = [a \in Action |-> IF a \in Refreshed THEN RecordDeps(a) ELSE depsNext[a]]
        /\ depsDb' = depsDb /\ mem' = mem /\ depsPrev' = depsPrev
        /\ depfile' = depfile /\ second' = second
    BY <1>9 DEF Flush, tree, stored
  <2> QED
    BY <2>1, ListKept
<1>10. CASE WriteState
  <2>1. /\ mem'.deps = mem.deps /\ UNCHANGED <<depfile, second, depsDb, depsPrev, depsNext>>
    BY <1>10 DEF WriteState, StateInMemory, tree, ctx, TypeInv, StoredType, Memory
  <2> QED
    BY <2>1, ListKept
<1>11. CASE WriteDeps
  <2>1. /\ depsDb' \in {depsDb, depsNext} /\ mem'.deps \in {mem.deps, depsNext}
        /\ depsPrev' = [a \in Action |-> NoDeps] /\ depsNext' = depsPrev'
        /\ depfile' = depfile /\ second' = second
    BY <1>11 DEF WriteDeps, DepsInMemory, Forget, tree, TypeInv, StoredType, Memory
  <2> QED
    BY <2>1, ListKept
<1> QED
  BY <1>2, <1>3, <1>4, <1>5, <1>6, <1>7, <1>8, <1>9, <1>10, <1>11
     DEF Next, Change, Build, EndsEarly

\* A list that deps.db or the daemon's memory offers for a depfile is the list
\* in it, whatever is interrupted, as long as two depfiles of one action are
\* not written in one second.
THEOREM ListsAreTrue == ASSUME ~May("same-second") PROVE Spec => [](ListInv /\ DepsDbTransparent)
<1>1. Init => ListInv
  BY DEF Init, ListInv, NoDeps, NoMemory
<1>2. TypeInv /\ TypeInv' /\ OrderInv /\ ListInv /\ [Next]_vars => ListInv'
  BY ListStep
<1>3. ListInv => DepsDbTransparent
  BY DEF ListInv, DepsDbTransparent
<1> QED
  BY <1>1, <1>2, <1>3, Types, PTL DEF Spec

-----------------------------------------------------------------------------
\* Keys.

\* What the key of an action is made of.
Elems(a) == ToSet(Inputs0(a)) \cup ToSet(List0(a))

LEMMA List0Typed ==
  ASSUME TypeInv, NEW a \in Action
  PROVE  /\ List0(a) \in Seq(File) /\ Inputs0(a) \in Seq(Input)
         /\ Inputs0(a) \in Seq(ToSet(Static[a]) \cup ToSet(List0(a)))
         /\ ToSet(Static[a]) \subseteq ToSet(Inputs0(a))
         /\ Elems(a) \subseteq Input /\ Elems(a) = ToSet(Static[a]) \cup ToSet(List0(a))
<1> DEFINE s == Static[a]
           l == List0(a)
<1>1. l \in Seq(File)
  BY DEF List0, TypeInv, TreeType, DepLists
<1>2. s \in Seq(ToSet(s)) /\ l \in Seq(ToSet(l)) /\ ToSet(s) \subseteq Input
      /\ ToSet(l) \subseteq Input /\ s \in Seq(Input)
  BY <1>1, Program, ListOfItself DEF Input
<1> HIDE DEF s, l
<1>3. Without(l, s) \in Seq(ToSet(l))
  BY <1>2, WithoutOf
<1>4. s \o Without(l, s) \in Seq(ToSet(s) \cup ToSet(l)) /\ s \o Without(l, s) \in Seq(Input)
  BY <1>2, <1>3
<1>5. Inputs0(a) = s \o Without(l, s)
  BY DEF Inputs0, s, l
<1>6. ASSUME NEW x \in ToSet(s) PROVE x \in ToSet(s \o Without(l, s))
  <2>1. PICK i \in 1..Len(s) : s[i] = x
    BY <1>2, ToSetOf
  <2>2. i \in 1..Len(s \o Without(l, s)) /\ (s \o Without(l, s))[i] = x
    BY <1>2, <1>3, <2>1
  <2> QED
    BY <1>4, <2>2, ToSetOf
<1>7. ToSet(s \o Without(l, s)) \subseteq ToSet(s) \cup ToSet(l)
  BY <1>4, ListOfItself
<1> QED
  BY <1>1, <1>2, <1>4, <1>5, <1>6, <1>7 DEF s, l, Elems

\* Whatever a key is made of has its digest in it.
LEMMA Listed ==
  ASSUME TypeInv, NEW a \in Action, NEW x \in Elems(a)
  PROVE  \/ \E i \in DOMAIN Key0(a).inputs : Key0(a).inputs[i] = Hash0(x)
         \/ \E i \in DOMAIN Key0(a).deps : Key0(a).deps[i] = Hash0(x)
<1>1. CASE x \in ToSet(Inputs0(a))
  <2>1. PICK i \in DOMAIN Inputs0(a) : Inputs0(a)[i] = x
    BY <1>1 DEF ToSet
  <2> QED
    BY <2>1 DEF Key0
<1>2. CASE x \in ToSet(List0(a))
  <2>1. PICK i \in DOMAIN List0(a) : List0(a)[i] = x
    BY <1>2 DEF ToSet
  <2> QED
    BY <2>1 DEF Key0
<1> QED
  BY <1>1, <1>2 DEF Elems

\* The key a build prepares, when the digests it has computed are right.
LEMMA PreparedIsKey0 ==
  ASSUME TypeInv, ListInv, NEW a \in Action, \A x \in Elems(a) : HashFile(x) = Hash0(x)
  PROVE  PreparedKey(a) = Key0(a)
<1>1. DepInputs(a) = List0(a) /\ PreparedInputs(a) = Inputs0(a)
  BY ListTaken DEF PreparedInputs, Inputs0
<1>2. \A i \in DOMAIN Inputs0(a) : HashFile(Inputs0(a)[i]) = Hash0(Inputs0(a)[i])
  BY DEF Elems, ToSet
<1>3. \A i \in DOMAIN List0(a) : HashFile(List0(a)[i]) = Hash0(List0(a)[i])
  BY DEF Elems, ToSet
<1> QED
  BY <1>1, <1>2, <1>3 DEF PreparedKey, ActionKey, Key0

\* Nothing goes back to what it was.
Onward ==
    /\ option' = option /\ edits' >= edits /\ second' >= second
    /\ \A f \in File : edition'[f] = edition[f] \/ edition'[f] = 0 \/ edition'[f] > edits
    /\ \A b \in Action : obj'[b] = obj[b] \/ obj'[b].stamp = 0 \/ obj'[b].stamp > second

LEMMA BoundKept ==
  ASSUME TypeInv, TypeInv', edits' >= edits, second' >= second,
         NEW a \in Action, NEW K \in Keys, Bound(K), Cover(K, a)
  PROVE  Bound(K)' /\ Cover(K, a)'
<1>1. edits \in Nat /\ edits' \in Nat /\ second \in Nat /\ second' \in Nat
  BY DEF TypeInv, TreeType
<1>2. /\ \A i \in DOMAIN K.inputs : K.inputs[i][2] \in Nat
      /\ \A i \in DOMAIN K.deps : K.deps[i][2] \in Nat
  BY DEF Keys
<1>3. Bound(K)'
  BY <1>1, <1>2 DEF Bound, Dated
<1>4. Cover(K, a)'
  BY <1>1 DEF Cover, Lists
<1> QED
  BY <1>3, <1>4

LEMMA KeyKept ==
  ASSUME TypeInv, TypeInv', Onward, NEW a \in Action, NEW K \in Keys, Bound(K), Cover(K, a),
         depfile'[a] = depfile[a] \/ depfile'[a] = NoDeps,
         K = Key0(a)'
  PROVE  K = Key0(a) /\ Content(a)' = Content(a)
<1> USE DEF Onward
<1> edits \in Nat /\ second \in Nat
  BY DEF TypeInv, TreeType
<1>1. depfile'[a] = depfile[a]
  <2>1. CASE a \in Compile
    <3>1. PICK e \in 1..edits : \E i \in DOMAIN K.deps : K.deps[i] = <<SourceOf[a], e>>
      BY <2>1 DEF Cover
    <3>2. DOMAIN K.deps # {}
      BY <3>1
    <3>3. List0(a)' # <<>>
      BY <3>2 DEF Key0
    <3> QED
      BY <3>3 DEF List0, NoDeps
  <2>2. CASE a \in Final
    BY <2>2 DEF TypeInv, TreeType
  <2> QED
    BY <2>1, <2>2 DEF Action
<1>2. List0(a)' = List0(a) /\ Inputs0(a)' = Inputs0(a) /\ Elems(a)' = Elems(a)
  BY <1>1 DEF List0, Inputs0, Elems
<1>3. ASSUME NEW x \in Elems(a) PROVE Hash0(x)' = Hash0(x) /\ (x \in Action => obj'[x] = obj[x])
  <2>1. \/ \E i \in DOMAIN K.inputs : K.inputs[i] = Hash0(x)'
        \/ \E i \in DOMAIN K.deps : K.deps[i] = Hash0(x)'
    <3>1. CASE x \in ToSet(Inputs0(a))
      <4>1. PICK i \in DOMAIN Inputs0(a) : Inputs0(a)[i] = x
        BY <3>1 DEF ToSet
      <4> QED
        BY <1>2, <4>1 DEF Key0
    <3>2. CASE x \in ToSet(List0(a))
      <4>1. PICK i \in DOMAIN List0(a) : List0(a)[i] = x
        BY <3>2 DEF ToSet
      <4> QED
        BY <1>2, <4>1 DEF Key0
    <3> QED
      BY <1>3, <3>1, <3>2 DEF Elems
  <2>2. x \in Input
    BY List0Typed
  <2>3. CASE x \in File
    <3>1. Hash0(x)' = <<x, edition'[x]>> /\ x \notin Action
      BY <2>3, TreeAssumption DEF Hash0
    <3>2. edition'[x] # 0 /\ edition'[x] <= edits
      BY <2>1, <2>3, <3>1 DEF Bound, Dated
    <3>3. edition'[x] = edition[x]
      BY <2>3, <3>2 DEF TypeInv, TreeType
    <3> QED
      BY <2>3, <3>1, <3>3 DEF Hash0
  <2>4. CASE x \notin File
    <3>1. Hash0(x)' = <<x, obj'[x].stamp>> /\ x \in Action
      BY <2>2, <2>4 DEF Hash0, Input
    <3>2. obj'[x].stamp # 0 /\ obj'[x].stamp <= second
      BY <2>1, <2>4, <3>1 DEF Bound, Dated
    <3>3. obj'[x] = obj[x]
      BY <3>1, <3>2 DEF TypeInv, TreeType, Stamped
    <3> QED
      BY <3>1, <3>3, <2>4 DEF Hash0
  <2> QED
    BY <2>3, <2>4
<1>4. K = Key0(a)
  <2>1. \A i \in DOMAIN Inputs0(a) : Hash0(Inputs0(a)[i])' = Hash0(Inputs0(a)[i])
    BY <1>2, <1>3 DEF Elems, ToSet
  <2>2. \A i \in DOMAIN List0(a) : Hash0(List0(a)[i])' = Hash0(List0(a)[i])
    BY <1>2, <1>3 DEF Elems, ToSet
  <2> QED
    BY <1>2, <2>1, <2>2 DEF Key0
<1>5. Content(a)' = Content(a)
  <2>1. CASE a \in Compile
    <3>1. PICK e \in 1..edits :
             /\ \E i \in DOMAIN K.deps : K.deps[i] = <<SourceOf[a], e>>
             /\ \A h \in ToSet(Includes[SourceOf[a]][e]) : Lists(K, h)
      BY <2>1 DEF Cover
    <3>2. \A i \in DOMAIN K.deps : i \in DOMAIN List0(a) /\ K.deps[i] = Hash0(List0(a)[i])
      BY <1>4 DEF Key0
    <3>3. \A x : Lists(K, x) => x \in ToSet(List0(a))
      BY <3>2 DEF Lists, Hash0, ToSet
    <3>4. SourceOf[a] \in ToSet(List0(a)) /\ edition[SourceOf[a]] = e
      <4>1. SourceOf[a] \in File
        BY <2>1, Program
      <4> QED
        BY <3>1, <3>2, <4>1 DEF Hash0, ToSet
    <3>5. Discovered(a) = <<SourceOf[a]>> \o Includes[SourceOf[a]][e]
      BY <3>4 DEF Discovered
    <3>6. Includes[SourceOf[a]][e] \in Seq(File) /\ <<SourceOf[a]>> \in Seq(File)
      BY <2>1, TreeAssumption DEF TypeInv, TreeType
    <3>7. ASSUME NEW x \in ToSet(Discovered(a)) PROVE x \in ToSet(List0(a))
      <4>1. PICK i \in DOMAIN Discovered(a) : Discovered(a)[i] = x
        BY <3>7 DEF ToSet
      <4>2. x = SourceOf[a] \/ x \in ToSet(Includes[SourceOf[a]][e])
        BY <3>5, <3>6, <4>1 DEF ToSet
      <4> QED
        BY <3>1, <3>3, <3>4, <4>2
    <3>8. \A x \in ToSet(List0(a)) : x \in File /\ edition'[x] = edition[x]
      <4>1. ToSet(List0(a)) \subseteq File
        BY List0Typed, ListOfItself
      <4> QED
        BY <1>3, <4>1 DEF Elems, Hash0
    <3>9. Discovered(a)' = Discovered(a)
      BY <3>4, <3>8 DEF Discovered
    <3>10. Reads(a) = ToSet(Discovered(a)) /\ Reads(a)' = Reads(a)
      BY <2>1, <3>9 DEF Reads
    <3>11. \A x \in Reads(a) : x \in File /\ edition'[x] = edition[x]
      BY <3>7, <3>8, <3>10
    <3> QED
      BY <3>10, <3>11 DEF Content
  <2>2. CASE a \in Final
    <3>1. Reads(a) = ToSet(Static[a]) /\ Reads(a)' = Reads(a) /\ Reads(a) \subseteq Compile
      BY <2>2, Program DEF Reads
    <3>2. \A x \in Reads(a) : x \in Elems(a) /\ x \in Action /\ x \notin File
      <4>1. ToSet(Static[a]) \subseteq Elems(a)
        BY List0Typed
      <4>2. \A x \in Compile : x \in Action /\ x \notin File
        BY TreeAssumption DEF Action
      <4> QED
        BY <3>1, <4>1, <4>2
    <3>3. \A x \in Reads(a) : x \notin File /\ obj'[x] = obj[x]
      BY <1>3, <3>2
    <3> QED
      BY <3>1, <3>3 DEF Content
  <2> QED
    BY <2>1, <2>2 DEF Action
<1> QED
  BY <1>4, <1>5

LEMMA Key0IsAKey ==
  ASSUME TypeInv, NEW a \in Action
  PROVE  Key0(a) # NoKey
<1>1. option # None
  BY TreeAssumption DEF TypeInv, TreeType
<1> QED
  BY <1>1 DEF Key0, NoKey

LEMMA UnfreshKept ==
  ASSUME TypeInv, TypeInv', Onward, NEW a \in Action, NEW K \in Keys, Good(K, a),
         depfile'[a] = depfile[a] \/ depfile'[a] = NoDeps,
         K # Key0(a)
  PROVE  K # Key0(a)'
<1>1. CASE K = NoKey
  <2>1. option' # None
    BY TreeAssumption DEF TypeInv, TreeType
  <2> QED
    BY <1>1, <2>1 DEF Key0, NoKey
<1>2. CASE K # NoKey
  BY <1>2, KeyKept DEF Good
<1> QED
  BY <1>1, <1>2

LEMMA GoodUnless ==
  ASSUME TypeInv, TypeInv', Onward, NEW a \in Action, NEW K \in Keys, Good(K, a),
         K # Key0(a)' \/ Fresh(a)'
  PROVE  Good(K, a)'
<1>1. K # NoKey => Bound(K)' /\ Cover(K, a)'
  BY BoundKept DEF Good, Onward
<1> QED
  BY <1>1 DEF Good

LEMMA GoodKept ==
  ASSUME TypeInv, TypeInv', Onward, NEW a \in Action, NEW K \in Keys, Good(K, a),
         depfile'[a] = depfile[a] \/ depfile'[a] = NoDeps, obj'[a] = obj[a]
  PROVE  Good(K, a)'
<1>1. CASE K # Key0(a)' \/ K = NoKey
  BY <1>1, GoodUnless DEF Good
<1>2. CASE K = Key0(a)' /\ K # NoKey
  <2>1. K = Key0(a) /\ Content(a)' = Content(a)
    BY <1>2, KeyKept DEF Good
  <2>2. Fresh(a)'
    BY <1>2, <2>1 DEF Good, Fresh
  <2> QED
    BY <2>2, GoodUnless
<1> QED
  BY <1>1, <1>2

\* What does not touch the tree does not touch what keys say of it.
LEMMA TreeStays ==
  ASSUME UNCHANGED tree
  PROVE  /\ \A a : Fresh(a)' <=> Fresh(a)
         /\ \A a : Key0(a)' = Key0(a)
         /\ \A K : Bound(K)' <=> Bound(K)
         /\ \A K, a : Good(K, a)' <=> Good(K, a)
         /\ \A a : Discovered(a)' = Discovered(a)
<1>1. \A a : Discovered(a)' = Discovered(a)
  BY DEF Discovered, tree
<1>2. \A a : Fresh(a)' <=> Fresh(a)
  BY DEF Fresh, Content, Reads, Discovered, tree
<1>3. \A a : Key0(a)' = Key0(a)
  BY DEF Key0, Inputs0, List0, Hash0, tree
<1>4. \A K : Bound(K)' <=> Bound(K)
  BY DEF Bound, Dated, tree
<1>5. \A K, a : Cover(K, a)' <=> Cover(K, a)
  BY DEF Cover, Lists, tree
<1> QED
  BY <1>1, <1>2, <1>3, <1>4, <1>5 DEF Good

\* The content of an action depends on the editions and on what it needs.
LEMMA ContentStays ==
  ASSUME TypeInv, edition' = edition, option' = option, NEW a \in Action,
         \A b \in Needs(a) : obj'[b].of = obj[b].of
  PROVE  Content(a)' = Content(a)
<1>1. Reads(a)' = Reads(a)
  BY DEF Reads, Discovered
<1>2. \A x \in Reads(a) : x \in File \/ x \in Needs(a)
  <2>1. CASE a \in Compile
    <3>1. ToSet(Discovered(a)) \subseteq File
      BY <2>1, DiscoveredTyped, ListOfItself
    <3> QED
      BY <2>1, <3>1 DEF Reads
  <2>2. CASE a \in Final
    BY <2>2, Program DEF Reads
  <2> QED
    BY <2>1, <2>2 DEF Action
<1> QED
  BY <1>1, <1>2 DEF Content

-----------------------------------------------------------------------------
\* The steps, with what is known of the states before and after each.

Known == TypeInv /\ OrderInv /\ MirrorInv /\ ListInv

\* Between builds.
LEMMA IdleChangeKeeps ==
  ASSUME Forward, Known, Known', VInv,
         (\E f \in File : Edit(f)) \/ (\E a \in Action : DeleteDepfile(a))
  PROVE  VInv'
<1>1. /\ phase = "idle" /\ phase' = "idle" /\ stateDb' = stateDb
      /\ sure' = {} /\ option' = option /\ obj' = obj /\ second' = second
      /\ edits' >= edits
      /\ \A f \in File : edition'[f] = edition[f] \/ edition'[f] > edits
      /\ \A a \in Action : depfile'[a] = depfile[a] \/ depfile'[a] = NoDeps
  <2> edits \in Nat
    BY DEF Known, TypeInv, TreeType
  <2>1. CASE \E f \in File : Edit(f)
    BY <2>1 DEF Edit, Changed, stored, Forward, May, Known, TypeInv, TreeType
  <2>2. CASE \E a \in Action : DeleteDepfile(a)
    BY <2>2 DEF DeleteDepfile, Changed, stored, Known, TypeInv, TreeType
  <2> QED
    BY <2>1, <2>2
<1>2. Onward /\ TypeInv /\ TypeInv'
  BY <1>1 DEF Onward, Known, TypeInv, TreeType
<1>3. MemoInv' /\ BuiltInv' /\ RunInv'
  BY <1>1 DEF Known, OrderInv, MemoInv, BuiltInv, RunInv
<1>4. VouchInv'
  <2>1. ASSUME NEW a \in Action PROVE Good(stateDb[a], a)'
    <3>1. PICK K \in Keys : K = stateDb[a] /\ Good(K, a) /\ stateDb'[a] = K
      BY <1>1 DEF Known, TypeInv, StoredType, VInv, VouchInv
    <3>2. Good(K, a)'
      BY <1>1, <1>2, <3>1, GoodKept
    <3> QED
      BY <3>1, <3>2
  <2> QED
    BY <1>1, <2>1 DEF VouchInv
<1>5. SourcesInv'
  <2>1. \A f \in File : edition[f] # 0 => edition'[f] # 0
    BY <1>1 DEF Known, TypeInv, TreeType
  <2> QED
    BY <2>1, TreeAssumption DEF VInv, SourcesInv
<1>6. SureInv'
  BY <1>1 DEF SureInv
<1> QED
  BY <1>3, <1>4, <1>5, <1>6 DEF VInv

\* A header goes, perhaps under a running build.
LEMMA RemoveFileKeeps ==
  ASSUME OneFrontend, Forward, Known, Known', VInv, NEW f \in File, RemoveFile(f)
  PROVE  VInv'
<1>1. /\ edition' = [edition EXCEPT ![f] = 0] /\ \A a \in Compile : f # SourceOf[a]
      /\ UNCHANGED <<option, obj, depfile, second, edits, stored, phase, ctx>>
      /\ sure' = {} /\ steady' = FALSE /\ May("remove-file")
  BY DEF RemoveFile, Changed
<1>2. Onward /\ TypeInv /\ TypeInv'
  BY <1>1 DEF Onward, Known, TypeInv, TreeType
<1>3. \A x \in File : edition'[x] = edition[x] \/ (x = f /\ edition'[x] = 0)
  BY <1>1 DEF Known, TypeInv, TreeType
<1>4. MemoInv'
  BY <1>1, <1>3 DEF VInv, MemoInv, ctx, Input
<1>5. SourcesInv'
  BY <1>1, <1>3, TreeAssumption DEF VInv, SourcesInv
<1>6. BuiltInv'
  <2>1. ASSUME NEW a \in Compile
        PROVE  /\ Discovered(a)' = Discovered(a)
               /\ (\A x \in ToSet(Discovered(a)) : edition'[x] # 0) =>
                    (\A x \in ToSet(Discovered(a)) : edition[x] # 0)
                      /\ Content(a)' = Content(a)
    <3>1. SourceOf[a] \in File /\ edition'[SourceOf[a]] = edition[SourceOf[a]]
      BY <1>1, <1>3, TreeAssumption
    <3>2. Discovered(a)' = Discovered(a)
      BY <3>1 DEF Discovered
    <3>3. ToSet(Discovered(a)) \subseteq File
      BY <1>2, DiscoveredTyped, ListOfItself
    <3>4. ASSUME \A x \in ToSet(Discovered(a)) : edition'[x] # 0
          PROVE  /\ \A x \in ToSet(Discovered(a)) : edition[x] # 0
                 /\ Content(a)' = Content(a)
      <4>1. \A x \in ToSet(Discovered(a)) : x \in File /\ edition'[x] = edition[x]
        BY <1>3, <3>3, <3>4
      <4>2. Reads(a) = ToSet(Discovered(a)) /\ Reads(a)' = Reads(a)
        BY <3>2 DEF Reads
      <4>3. Content(a)' = Content(a)
        BY <1>1, <4>1, <4>2 DEF Content
      <4> QED
        BY <3>4, <4>1, <4>3
    <3> QED
      BY <3>2, <3>4
  <2>2. st' = st /\ obj' = obj /\ depfile' = depfile
    BY <1>1 DEF ctx
  <2> QED
    BY <2>1, <2>2 DEF VInv, BuiltInv, Fresh
<1>7. RunInv'
  <2>1. ASSUME NEW a \in Action, st[a] = "running" PROVE prev[a] # Key0(a)'
    <3>1. PICK K \in Keys : K = prev[a] /\ Good(K, a) /\ K # Key0(a)
      BY <2>1 DEF Known, MirrorInv, TypeInv, StoredType, VInv, VouchInv, RunInv
    <3> QED
      BY <1>1, <1>2, <3>1, UnfreshKept
  <2>2. \A K : Bound(K)' <=> Bound(K)
    BY <1>1 DEF Bound, Dated
  <2> QED
    BY <1>1, <2>1, <2>2 DEF VInv, RunInv, ctx
<1>8. VouchInv'
  <2>1. ASSUME NEW a \in Action PROVE Good(stateDb[a], a)'
    <3>1. PICK K \in Keys : K = stateDb[a] /\ Good(K, a) /\ stateDb'[a] = K
      BY <1>1 DEF Known, TypeInv, StoredType, VInv, VouchInv, stored
    <3>2. Good(K, a)'
      BY <1>1, <1>2, <3>1, GoodKept
    <3> QED
      BY <3>1, <3>2
  <2>2. ASSUME NEW a \in Action, Good(next[a], a) PROVE Good(next[a], a)'
    <3>1. PICK K \in Keys : K = next[a] /\ Good(K, a) /\ next'[a] = K
      BY <1>1, <2>2 DEF Known, TypeInv, BuildType, ctx
    <3>2. Good(K, a)'
      BY <1>1, <1>2, <3>1, GoodKept
    <3> QED
      BY <3>1, <3>2
  <2>3. Refreshed' = Refreshed /\ phase' = phase
    BY <1>1 DEF Refreshed, ctx
  <2> QED
    BY <2>1, <2>2, <2>3 DEF VInv, VouchInv
<1>9. SureInv'
  BY <1>1 DEF SureInv
<1> QED
  BY <1>4, <1>5, <1>6, <1>7, <1>8, <1>9 DEF VInv

LEMMA BeginKeeps ==
  ASSUME Known, VInv, NEW g \in Goals, NEW who \in Frontends, Begin(g, who)
  PROVE  VInv'
<1>1. /\ phase = "idle" /\ phase' = "build" /\ goal' = g
      /\ UNCHANGED <<tree, stateDb, st, next, memo, sure>>
  BY DEF Begin
<1>2. /\ \A a \in Action : st'[a] = "todo" /\ next'[a] = NoKey
      /\ \A x \in Input : memo'[x] = <<>>
  BY <1>1 DEF Known, OrderInv
<1>3. MemoInv' /\ BuiltInv' /\ RunInv'
  BY <1>2 DEF MemoInv, BuiltInv, RunInv
<1>4. VouchInv'
  <2>1. \A K, a : Good(K, a)' <=> Good(K, a)
    BY <1>1, TreeStays
  <2>2. \A a : Good(NoKey, a)
    BY DEF Good
  <2> QED
    BY <1>1, <1>2, <2>1, <2>2 DEF VInv, VouchInv
<1>5. SourcesInv'
  BY <1>1 DEF VInv, SourcesInv, tree
<1>6. SureInv'
  <2>1. \A a : Fresh(a)' <=> Fresh(a)
    BY <1>1, TreeStays
  <2>2. \A a \in g : a \in Action
    BY TreeAssumption
  <2> QED
    BY <1>1, <1>2, <2>1, <2>2 DEF VInv, SureInv
<1> QED
  BY <1>3, <1>4, <1>5, <1>6 DEF VInv

-----------------------------------------------------------------------------
\* An action is prepared.

\* A digest that has been computed, or is now, of something the key is made of.
LEMMA DigestOf ==
  ASSUME Known, VInv, NEW a \in Action, Ready(a), NEW x \in Elems(a)
  PROVE  /\ x \in Input /\ (x \notin File => x \in Needs(a) /\ st[x] \in {"skipped", "built"})
         /\ HashFile(x) # Hash0(x) => x \in File /\ edition[x] = 0 /\ ~steady
<1>1. x \in Input /\ (x \in ToSet(Static[a]) \/ x \in ToSet(List0(a)))
  BY List0Typed DEF Known
<1>2. ToSet(List0(a)) \subseteq File
  BY List0Typed, ListOfItself DEF Known
<1>3. x \notin File => x \in Needs(a) /\ st[x] \in {"skipped", "built"}
  BY <1>1, <1>2 DEF Needs, Input, Ready
<1>4. HashFile(x) # Hash0(x) => x \in File /\ edition[x] = 0 /\ ~steady
  BY <1>1 DEF HashFile, Hash0, VInv, MemoInv
<1> QED
  BY <1>1, <1>3, <1>4

LEMMA PrepareKeeps ==
  ASSUME Known, VInv, NEW a \in Action, Prepare(a), UNCHANGED <<tree, steady>>,
         \A b \in Action : st[b] \in {"skipped", "built"} => st'[b] = st[b]
  PROVE  MemoInv'
<1>1. memo' = Remember(PreparedInputs(a)) /\ Ready(a)
  BY DEF Prepare
<1>2. ToSet(PreparedInputs(a)) \subseteq Elems(a)
  <2>1. PreparedInputs(a) = Inputs0(a)
    BY ListTaken DEF Known, PreparedInputs, Inputs0
  <2> QED
    BY <2>1 DEF Elems
<1>3. ASSUME NEW x \in Input, memo'[x] # <<>>
      PROVE  IF x \in File
             THEN memo'[x] # <<x, edition[x]>> => edition[x] = 0 /\ ~steady
             ELSE memo'[x] = <<x, obj[x].stamp>> /\ st'[x] \in {"skipped", "built"}
  <2>1. CASE x \in ToSet(PreparedInputs(a))
    <3>1. memo'[x] = HashFile(x) /\ x \in Elems(a)
      BY <1>1, <1>2, <2>1 DEF Remember
    <3>2. /\ x \notin File => x \in Action /\ st[x] \in {"skipped", "built"}
          /\ HashFile(x) # Hash0(x) => x \in File /\ edition[x] = 0 /\ ~steady
      BY <1>1, <3>1, DigestOf DEF Input
    <3> QED
      BY <3>1, <3>2 DEF Hash0
  <2>2. CASE x \notin ToSet(PreparedInputs(a))
    <3>1. memo'[x] = memo[x]
      BY <1>1, <2>2 DEF Remember
    <3> QED
      BY <1>3, <3>1 DEF VInv, MemoInv, Input
  <2> QED
    BY <2>1, <2>2
<1>4. edition' = edition /\ obj' = obj /\ steady' = steady
  BY DEF tree
<1> QED
  BY <1>3, <1>4 DEF MemoInv

LEMMA SkipKeeps ==
  ASSUME Known, VInv, NEW a \in Action, Skip(a)
  PROVE  VInv'
<1>1. /\ Prepare(a) /\ Ready(a) /\ prev[a] = PreparedKey(a) /\ obj[a].stamp # 0
      /\ st' = [st EXCEPT ![a] = "skipped"] /\ next' = [next EXCEPT ![a] = prev[a]]
      /\ UNCHANGED <<tree, stateDb, phase, goal, prev, plan, sure, steady>>
  BY DEF Skip, CacheHit, Prepare, stored, history
<1>2. /\ phase = "build" /\ a \in goal /\ st[a] = "todo" /\ DOMAIN st = Action
      /\ DOMAIN next = Action /\ prev[a] = stateDb[a]
  BY <1>1 DEF Ready, Known, TypeInv, BuildType, MirrorInv
<1>3. \A b \in Action : IF b = a THEN st'[b] = "skipped" ELSE st'[b] = st[b]
  BY <1>1, <1>2
<1>4. MemoInv'
  BY <1>1, <1>2, <1>3, PrepareKeeps
<1>5. BuiltInv'
  BY <1>1, <1>2, <1>3, TreeStays DEF VInv, BuiltInv, tree
<1>6. RunInv'
  BY <1>1, <1>3, TreeStays DEF VInv, RunInv
<1>7. VouchInv'
  <2>1. \A K, b : Good(K, b)' <=> Good(K, b)
    BY <1>1, TreeStays
  <2>2. Refreshed' = Refreshed
    BY <1>2, <1>3 DEF Refreshed, Action
  <2>3. \A b \in Action : IF b = a THEN next'[b] = stateDb[b] ELSE next'[b] = next[b]
    BY <1>1, <1>2
  <2> QED
    BY <1>1, <2>1, <2>2, <2>3 DEF VInv, VouchInv
<1>8. SourcesInv'
  BY <1>1 DEF VInv, SourcesInv, tree
<1>9. steady => Fresh(a)
  <2>1. ASSUME steady PROVE Fresh(a)
    <3>1. \A x \in Elems(a) : HashFile(x) = Hash0(x)
      BY <1>1, <2>1, DigestOf
    <3>2. prev[a] = Key0(a) /\ Key0(a) # NoKey
      BY <1>1, <3>1, PreparedIsKey0, Key0IsAKey DEF Known
    <3> QED
      BY <1>2, <3>2 DEF VInv, VouchInv, Good
  <2> QED
    BY <2>1
<1>10. SureInv'
  <2>1. \A b : Fresh(b)' <=> Fresh(b)
    BY <1>1, TreeStays
  <2>2. \A b \in goal : b \in Action
    BY TreeAssumption DEF Known, TypeInv, BuildType
  <2> QED
    BY <1>1, <1>2, <1>3, <1>9, <2>1, <2>2 DEF VInv, SureInv
<1> QED
  BY <1>4, <1>5, <1>6, <1>7, <1>8, <1>10 DEF VInv

LEMMA StartKeeps ==
  ASSUME Known, VInv, NEW a \in Action, Start(a)
  PROVE  VInv'
<1>1. /\ Prepare(a) /\ Ready(a) /\ ~(prev[a] = PreparedKey(a) /\ obj[a].stamp # 0)
      /\ st' = [st EXCEPT ![a] = "running"]
      /\ plan' = [plan EXCEPT ![a] = [key |-> PreparedKey(a), deps |-> DepInputs(a)]]
      /\ UNCHANGED <<tree, stateDb, phase, goal, prev, next, sure, steady>>
  BY DEF Start, CacheHit, Prepare, stored, history
<1>2. /\ phase = "build" /\ a \in goal /\ st[a] = "todo" /\ DOMAIN st = Action
      /\ DOMAIN plan = Action /\ prev[a] = stateDb[a]
  BY <1>1 DEF Ready, Known, TypeInv, BuildType, MirrorInv
<1>3. \A b \in Action : IF b = a THEN st'[b] = "running" ELSE st'[b] = st[b] /\ plan'[b] = plan[b]
  BY <1>1, <1>2
<1>4. MemoInv'
  BY <1>1, <1>2, <1>3, PrepareKeeps
<1>5. BuiltInv'
  BY <1>1, <1>2, <1>3, TreeStays DEF VInv, BuiltInv, tree
<1>6. prev[a] # Key0(a)
  <2> SUFFICES ASSUME prev[a] = Key0(a) PROVE FALSE
    OBVIOUS
  <2>1. Bound(Key0(a)) /\ Fresh(a)
    BY <1>2, Key0IsAKey DEF VInv, VouchInv, Good, Known
  <2>2. ASSUME NEW x \in Elems(a) PROVE HashFile(x) = Hash0(x)
    <3>1. Dated(Hash0(x))
      BY <2>1, Listed DEF Bound, Known
    <3>2. x \in File => edition[x] # 0
      BY <3>1 DEF Dated, Hash0
    <3> QED
      BY <1>1, <3>2, DigestOf
  <2>3. PreparedKey(a) = Key0(a)
    BY <2>2, PreparedIsKey0 DEF Known
  <2> QED
    BY <1>1, <2>1, <2>3 DEF Fresh
<1>7. a \in Final => Bound(PreparedKey(a))
  <2> SUFFICES ASSUME a \in Final PROVE Bound(PreparedKey(a))
    OBVIOUS
  <2>1. DepInputs(a) = <<>> /\ PreparedInputs(a) = Inputs0(a) /\ Inputs0(a) \in Seq(Input)
    <3>1. a \notin Compile
      BY Program
    <3> QED
      BY <3>1, DepInputsTyped, ListTaken, List0Typed DEF PreparedInputs, Inputs0, Known
  <2>2. ASSUME NEW i \in DOMAIN Inputs0(a) PROVE Dated(HashFile(Inputs0(a)[i]))
    <3>1. PICK x \in Elems(a) : x = Inputs0(a)[i]
      BY DEF Elems, ToSet
    <3>2. x \in ToSet(Static[a]) /\ x \in Compile /\ x \in Action /\ x \notin File
      <4>1. List0(a) = <<>>
        BY Program DEF List0
      <4>2. Elems(a) = ToSet(Static[a])
        <5>1. ToSet(List0(a)) = {}
          BY <4>1 DEF ToSet
        <5>2. Elems(a) = ToSet(Static[a]) \cup ToSet(List0(a))
          BY List0Typed DEF Known
        <5> QED
          BY <5>1, <5>2
      <4>3. ToSet(Static[a]) \subseteq Compile
        BY Program
      <4> QED
        BY <3>1, <4>2, <4>3, TreeAssumption DEF Action
    <3>3. HashFile(x) = <<x, obj[x].stamp>> /\ obj[x].stamp # 0
      BY <1>1, <3>2, DigestOf DEF Hash0, VInv, BuiltInv
    <3>4. obj[x].stamp \in 0..second
      BY <3>2 DEF Known, TypeInv, TreeType, Stamped
    <3> QED
      BY <3>1, <3>2, <3>3, <3>4 DEF Dated, Known, TypeInv, TreeType
  <2>3. PreparedKey(a).inputs = [i \in DOMAIN Inputs0(a) |-> HashFile(Inputs0(a)[i])]
        /\ DOMAIN PreparedKey(a).deps = {}
    BY <2>1 DEF PreparedKey, ActionKey
  <2> QED
    BY <2>2, <2>3 DEF Bound
<1>8. RunInv'
  <2>1. plan'[a].key = PreparedKey(a)
    BY <1>1, <1>2
  <2> QED
    BY <1>1, <1>2, <1>3, <1>6, <1>7, <2>1, TreeStays DEF VInv, RunInv
<1>9. VouchInv'
  <2>1. \A K, b : Good(K, b)' <=> Good(K, b)
    BY <1>1, TreeStays
  <2>2. Refreshed' = Refreshed
    BY <1>2, <1>3 DEF Refreshed, Action
  <2> QED
    BY <1>1, <2>1, <2>2 DEF VInv, VouchInv
<1>10. SourcesInv'
  BY <1>1 DEF VInv, SourcesInv, tree
<1>11. SureInv'
  <2>1. \A b : Fresh(b)' <=> Fresh(b)
    BY <1>1, TreeStays
  <2>2. \A b \in goal : b \in Action
    BY TreeAssumption DEF Known, TypeInv, BuildType
  <2> QED
    BY <1>1, <1>2, <1>3, <2>1, <2>2 DEF VInv, SureInv
<1> QED
  BY <1>4, <1>5, <1>8, <1>9, <1>10, <1>11 DEF VInv

-----------------------------------------------------------------------------
\* A process ends.

LEMMA NeedsOthers ==
  ASSUME NEW a \in Action
  PROVE  a \notin Needs(a) /\ \A b \in Needs(a) : b \in Action /\ Needs(b) = {}
<1>1. CASE a \in Compile
  BY <1>1, Program
<1>2. CASE a \in Final
  BY <1>2, Program DEF Action
<1> QED
  BY <1>1, <1>2 DEF Action

LEMMA FinishKeeps ==
  ASSUME OneFrontend, Forward, Known, Known', VInv, NEW a \in Action, Finish(a)
  PROVE  VInv'
<1>1. /\ phase = "build" /\ st[a] = "running" /\ second' = second + 1 /\ second \in Nat
      /\ obj' = [obj EXCEPT ![a] = [stamp |-> second', of |-> Content(a)]]
      /\ depfile' = IF a \in Compile
                    THEN [depfile EXCEPT ![a] = [print |-> second', list |-> Discovered(a)]]
                    ELSE depfile
      /\ st' = [st EXCEPT ![a] = "built"] /\ next' = [next EXCEPT ![a] = plan[a].key]
      /\ UNCHANGED <<edition, option, edits, stateDb, phase, goal, prev, memo, plan, sure, steady>>
  BY DEF Finish, Seconds, Forward, May, stored, Known, TypeInv, TreeType
<1>2. /\ DOMAIN st = Action /\ DOMAIN next = Action /\ DOMAIN obj = Action
      /\ DOMAIN depfile = Action /\ DOMAIN plan = Action /\ TypeInv /\ TypeInv'
      /\ \A b \in Needs(a) : st[b] \in {"skipped", "built"}
  BY <1>1 DEF Known, TypeInv, TreeType, BuildType, OrderInv
<1>3. /\ st'[a] = "built" /\ obj'[a].stamp = second' /\ obj'[a].of = Content(a)
      /\ next'[a] = plan[a].key
      /\ a \in Compile => depfile'[a].print = second' /\ depfile'[a].list = Discovered(a)
      /\ \A b \in Action \ {a} : st'[b] = st[b] /\ obj'[b] = obj[b] /\ next'[b] = next[b]
                                   /\ depfile'[b] = depfile[b]
  BY <1>1, <1>2
<1>4. Onward
  BY <1>1, <1>3 DEF Onward, Known, TypeInv, TreeType
<1>5. ASSUME NEW b \in Action, a \notin Needs(b) PROVE Content(b)' = Content(b)
  <2>1. \A c \in Needs(b) : obj'[c].of = obj[c].of
    BY <1>3, <1>5, NeedsOthers
  <2> QED
    BY <1>1, <1>2, <2>1, ContentStays
<1>6. Fresh(a)'
  BY <1>1, <1>3, <1>5, NeedsOthers DEF Fresh
<1>7. \A b \in Action \ {a} : st[b] # "todo" => a \notin Needs(b)
  BY <1>1 DEF Known, OrderInv
<1>8. \A b \in Action \ {a} : a \notin Needs(b) => (Fresh(b)' <=> Fresh(b))
  BY <1>3, <1>5 DEF Fresh
<1>9. MemoInv'
  <2>1. ASSUME NEW x \in Input, memo[x] # <<>>, x \notin File
        PROVE  obj'[x] = obj[x] /\ st'[x] = st[x]
    BY <1>1, <1>3, <2>1 DEF VInv, MemoInv, Input
  <2> QED
    BY <1>1, <2>1 DEF VInv, MemoInv
<1>10. BuiltInv'
  <2>1. \A b \in Compile : Discovered(b)' = Discovered(b)
    BY <1>1 DEF Discovered
  <2>2. second' # 0
    BY <1>1
  <2>3. ASSUME NEW b \in Action, st'[b] \in {"skipped", "built"} PROVE obj'[b].stamp # 0
    BY <1>3, <2>2, <2>3 DEF VInv, BuiltInv
  <2>4. ASSUME NEW b \in Action, st'[b] = "built", b \in Compile
        PROVE  /\ depfile'[b].print # 0 /\ depfile'[b].list = Discovered(b)'
               /\ (\A x \in ToSet(Discovered(b)') : edition'[x] # 0) => Fresh(b)'
    <3>1. CASE b = a
      BY <1>3, <1>6, <2>1, <2>2, <2>4, <3>1
    <3>2. CASE b # a
      BY <1>1, <1>3, <1>7, <1>8, <2>1, <2>4, <3>2 DEF VInv, BuiltInv
    <3> QED
      BY <3>1, <3>2
  <2> QED
    BY <2>3, <2>4 DEF BuiltInv
<1>11. RunInv'
  <2>1. ASSUME NEW b \in Action, st'[b] = "running"
        PROVE  prev[b] # Key0(b)' /\ (b \in Final => Bound(plan[b].key)')
    <3>1. b # a /\ st[b] = "running" /\ depfile'[b] = depfile[b]
      BY <1>3, <2>1
    <3>2. PICK K \in Keys : K = prev[b] /\ Good(K, b) /\ K # Key0(b)
      BY <3>1 DEF Known, MirrorInv, TypeInv, StoredType, VInv, VouchInv, RunInv
    <3>3. K # Key0(b)'
      BY <1>2, <1>4, <3>1, <3>2, UnfreshKept
    <3>4. PICK P \in Keys : P = plan[b].key
      BY DEF Known, TypeInv, BuildType
    <3>5. ASSUME b \in Final PROVE Bound(P)'
      <4>1. Bound(P) /\ Cover(P, b)
        BY <3>1, <3>4, <3>5, Program DEF VInv, RunInv, Cover
      <4> QED
        BY <1>2, <1>4, <4>1, BoundKept DEF Onward
    <3> QED
      BY <1>1, <3>2, <3>3, <3>4, <3>5
  <2> QED
    BY <1>1, <2>1 DEF RunInv
<1>12. VouchInv'
  <2>1. ASSUME NEW b \in Action PROVE Good(stateDb[b], b)'
    <3>1. PICK K \in Keys : K = stateDb[b] /\ Good(K, b) /\ stateDb'[b] = K
      BY <1>1 DEF Known, TypeInv, StoredType, VInv, VouchInv
    <3>2. Good(K, b)'
      <4>1. CASE b = a
        BY <1>2, <1>4, <1>6, <3>1, <4>1, GoodUnless
      <4>2. CASE b # a
        BY <1>2, <1>3, <1>4, <3>1, <4>2, GoodKept
      <4> QED
        BY <4>1, <4>2
    <3> QED
      BY <3>1, <3>2
  <2>2. ASSUME NEW b \in Action, b \notin Refreshed' PROVE Good(next[b], b)'
    <3>1. CASE b = a
      <4>1. a \in Final
        BY <1>3, <2>2, <3>1 DEF Refreshed, Action
      <4>2. PICK P \in Keys : P = plan[a].key /\ next'[a] = P
        BY <1>3 DEF Known, TypeInv, BuildType
      <4>3. Bound(P) /\ Cover(P, a)
        BY <1>1, <4>1, <4>2, Program DEF VInv, RunInv, Cover
      <4>4. Good(P, a)'
        BY <1>2, <1>4, <1>6, <4>3, BoundKept DEF Good, Onward
      <4> QED
        BY <3>1, <4>2, <4>4
    <3>2. CASE b # a
      <4>1. b \notin Refreshed
        BY <1>3, <2>2, <3>2 DEF Refreshed
      <4>2. PICK K \in Keys : K = next[b] /\ Good(K, b) /\ next'[b] = K
        BY <1>1, <1>3, <3>2, <4>1 DEF Known, TypeInv, BuildType, VInv, VouchInv
      <4>3. Good(K, b)'
        BY <1>2, <1>3, <1>4, <3>2, <4>2, GoodKept
      <4> QED
        BY <4>2, <4>3
    <3> QED
      BY <3>1, <3>2
  <2> QED
    BY <1>1, <2>1, <2>2 DEF VouchInv
<1>13. SourcesInv'
  BY <1>1 DEF VInv, SourcesInv
<1>14. SureInv'
  <2>1. ASSUME NEW b \in sure PROVE Fresh(b)' /\ Needs(b) \subseteq sure
    <3>1. b \in Action /\ Fresh(b) /\ Needs(b) \subseteq sure
      BY DEF VInv, SureInv, Known, TypeInv, HistoryType
    <3>2. CASE b = a
      BY <1>6, <3>1, <3>2
    <3>3. CASE b # a
      <4>1. \A c \in Needs(b) : obj'[c].of = obj[c].of
        <5>1. a \in Needs(b) => obj[a].of = Content(a)
          BY <3>1 DEF VInv, SureInv, Fresh
        <5> QED
          BY <1>3, <3>1, <5>1, NeedsOthers
      <4>2. Content(b)' = Content(b)
        BY <1>1, <1>2, <3>1, <4>1, ContentStays
      <4> QED
        BY <1>3, <3>1, <3>3, <4>2 DEF Fresh
    <3> QED
      BY <3>2, <3>3
  <2>2. ASSUME steady, NEW b \in goal, st'[b] \in {"skipped", "built"} PROVE Fresh(b)'
    <3>1. b \in Action
      BY TreeAssumption DEF Known, TypeInv, BuildType
    <3>2. CASE b = a
      BY <1>6, <3>2
    <3>3. CASE b # a
      BY <1>1, <1>3, <1>7, <1>8, <2>2, <3>1, <3>3 DEF VInv, SureInv
    <3> QED
      BY <3>2, <3>3
  <2> QED
    BY <1>1, <2>1, <2>2 DEF SureInv
<1> QED
  BY <1>9, <1>10, <1>11, <1>12, <1>13, <1>14 DEF VInv

-----------------------------------------------------------------------------
\* A build ends early.

LEMMA LeftBehind ==
  ASSUME TypeInv, Leftovers(Running)
  PROVE  /\ second' = second + 1 /\ UNCHANGED <<edition, option, edits>>
         /\ \A a \in Action : a \notin Running => obj'[a] = obj[a] /\ depfile'[a] = depfile[a]
         /\ \A a \in Running : \/ obj'[a].stamp = second' /\ obj'[a].of = Content(a)
                               \/ depfile'[a] = depfile[a]
         /\ \A a \in Action : obj'[a] = obj[a] \/ obj'[a].stamp = 0 \/ obj'[a].stamp = second'
         /\ \A a \in Action : \/ depfile'[a] = depfile[a]
                              \/ a \in Compile /\ depfile'[a].list = Discovered(a)
<1>1. second' = second + 1 /\ UNCHANGED <<edition, option, edits>>
  BY DEF Leftovers
<1>2. PICK whole \in SUBSET {a \in Running : InputsExist(a)} :
           \E part \in SUBSET (Running \ whole) :
           \E gone \in SUBSET (Running \ (whole \cup part)) :
             /\ obj' = [a \in Action |->
                  IF a \in whole THEN [stamp |-> second + 1, of |-> Content(a)]
                  ELSE IF a \in part THEN [stamp |-> second + 1, of |-> Nothing]
                  ELSE IF a \in gone THEN NoOutput ELSE obj[a]]
             /\ depfile' = [a \in Action |->
                  IF a \in whole \cap Compile
                  THEN [print |-> second + 1, list |-> Discovered(a)] ELSE depfile[a]]
  BY DEF Leftovers
<1>3. \A a \in Action : a \notin Running => obj'[a] = obj[a] /\ depfile'[a] = depfile[a]
  BY <1>2
<1>4. \A a \in Running : \/ obj'[a].stamp = second + 1 /\ obj'[a].of = Content(a)
                         \/ depfile'[a] = depfile[a]
  BY <1>2 DEF Running
<1>5. \A a \in Action : obj'[a] = obj[a] \/ obj'[a].stamp = 0 \/ obj'[a].stamp = second + 1
  BY <1>2 DEF NoOutput
<1>6. \A a \in Action : \/ depfile'[a] = depfile[a]
                        \/ a \in Compile /\ depfile'[a].list = Discovered(a)
  BY <1>2
<1> QED
  BY <1>1, <1>3, <1>4, <1>5, <1>6

\* What dies leaves an output that its action makes now, or one that no record
\* speaks for: it ran because its record did not.
LEMMA GiveUpVouches ==
  ASSUME Known, Known', VInv, GiveUp, stateDb' = stateDb
  PROVE  /\ \A a \in Action : Good(stateDb[a], a)'
         /\ \A a \in Action : ({a} \cup Needs(a)) \cap Running = {} => (Fresh(a)' <=> Fresh(a))
         /\ edition' = edition
<1>1. CASE Running = {}
  <2>1. UNCHANGED tree
    BY <1>1 DEF GiveUp
  <2>2. \A a \in Action : Good(stateDb[a], a)' <=> Good(stateDb[a], a)
    BY <2>1, TreeStays
  <2> QED
    BY <2>1, <2>2, TreeStays DEF VInv, VouchInv, tree
<1>2. CASE Running # {}
  <2>1. Leftovers(Running) /\ TypeInv /\ TypeInv'
    BY <1>2 DEF GiveUp, Known
  <2>2. /\ second' = second + 1 /\ UNCHANGED <<edition, option, edits>>
        /\ \A a \in Action : a \notin Running => obj'[a] = obj[a] /\ depfile'[a] = depfile[a]
        /\ \A a \in Running : \/ obj'[a].stamp = second' /\ obj'[a].of = Content(a)
                              \/ depfile'[a] = depfile[a]
        /\ \A a \in Action : obj'[a] = obj[a] \/ obj'[a].stamp = 0 \/ obj'[a].stamp = second'
    BY <2>1, LeftBehind
  <2>3. second \in Nat /\ edits \in Nat
    BY <2>1 DEF TypeInv, TreeType
  <2>4. Onward
    BY <2>2, <2>3 DEF Onward
  <2>5. ASSUME NEW a \in Action, Needs(a) \cap Running = {} PROVE Content(a)' = Content(a)
    <3>1. \A b \in Needs(a) : obj'[b].of = obj[b].of
      BY <2>2, <2>5, NeedsOthers
    <3> QED
      BY <2>1, <2>2, <3>1, ContentStays
  <2>6. ASSUME NEW a \in Action PROVE Good(stateDb[a], a)'
    <3>1. PICK K \in Keys : K = stateDb[a] /\ Good(K, a) /\ stateDb'[a] = K
      BY DEF Known, TypeInv, StoredType, VInv, VouchInv
    <3>2. CASE a \notin Running
      <4>1. Good(K, a)'
        BY <2>1, <2>2, <2>4, <3>1, <3>2, GoodKept
      <4> QED
        BY <3>1, <4>1
    <3>3. CASE a \in Running
      <4>1. st[a] = "running" /\ K # Key0(a) /\ Needs(a) \cap Running = {}
        BY <3>1, <3>3 DEF Running, Known, OrderInv, MirrorInv, VInv, RunInv
      <4>2. CASE obj'[a].stamp = second' /\ obj'[a].of = Content(a)
        <5>1. Fresh(a)'
          BY <2>2, <2>3, <2>5, <4>1, <4>2 DEF Fresh
        <5>2. Good(K, a)'
          BY <2>1, <2>4, <3>1, <5>1, GoodUnless
        <5> QED
          BY <3>1, <5>2
      <4>3. CASE depfile'[a] = depfile[a]
        <5>1. K # Key0(a)'
          BY <2>1, <2>4, <3>1, <4>1, <4>3, UnfreshKept
        <5>2. Good(K, a)'
          BY <2>1, <2>4, <3>1, <5>1, GoodUnless
        <5> QED
          BY <3>1, <5>2
      <4> QED
        BY <2>2, <3>3, <4>2, <4>3
    <3> QED
      BY <3>2, <3>3
  <2>7. ASSUME NEW a \in Action, ({a} \cup Needs(a)) \cap Running = {} PROVE Fresh(a)' <=> Fresh(a)
    BY <2>2, <2>5, <2>7 DEF Fresh
  <2> QED
    BY <2>2, <2>6, <2>7
<1> QED
  BY <1>1, <1>2

LEMMA EndsEarlyKeeps ==
  ASSUME Known, Known', VInv, EndsEarly
  PROVE  VInv'
<1>1. /\ GiveUp /\ phase' = "idle" /\ stateDb' = stateDb
      /\ sure' = {a \in sure : ({a} \cup Needs(a)) \cap Running = {}}
  BY EndsEarlyDoes DEF GiveUp, Forget
<1>2. /\ \A a \in Action : Good(stateDb[a], a)'
      /\ \A a \in Action : ({a} \cup Needs(a)) \cap Running = {} => (Fresh(a)' <=> Fresh(a))
      /\ edition' = edition
  BY <1>1, GiveUpVouches
<1>3. MemoInv' /\ BuiltInv' /\ RunInv'
  BY <1>1 DEF Known, OrderInv, MemoInv, BuiltInv, RunInv
<1>4. VouchInv'
  BY <1>1, <1>2 DEF VouchInv
<1>5. SourcesInv'
  BY <1>2 DEF VInv, SourcesInv
<1>6. SureInv'
  <2>1. ASSUME NEW a \in sure' PROVE Fresh(a)' /\ Needs(a) \subseteq sure'
    <3>1. a \in Action /\ Fresh(a) /\ Needs(a) \subseteq sure
          /\ ({a} \cup Needs(a)) \cap Running = {}
      BY <1>1, <2>1 DEF VInv, SureInv, Known, TypeInv, HistoryType
    <3>2. \A b \in Needs(a) : b \in sure /\ ({b} \cup Needs(b)) \cap Running = {}
      BY <3>1, NeedsOthers
    <3> QED
      BY <1>1, <1>2, <3>1, <3>2
  <2> QED
    BY <1>1, <2>1 DEF SureInv
<1> QED
  BY <1>3, <1>4, <1>5, <1>6 DEF VInv

-----------------------------------------------------------------------------
\* A build ends well.

\* The key recorded from the depfile a compilation has just written.
LEMMA RefreshedKeyIsGood ==
  ASSUME Forward, Known, VInv, NEW a \in Refreshed, DepsPresent(a)
  PROVE  Good(ActionKey(RefreshedInputs(a), DepInputs(a)), a)
<1> DEFINE S == RefreshedInputs(a)
           L == DepInputs(a)
           K == ActionKey(S, L)
           src == SourceOf[a]
<1>1. a \in Compile /\ a \in Action /\ st[a] = "built" /\ TypeInv
  BY DEF Refreshed, Action, Known
<1>2. L = Discovered(a) /\ L \in Seq(File) /\ ToSet(L) \subseteq File
  <2>1. L = List0(a)
    BY <1>1, ListTaken DEF Known
  <2>2. List0(a) = Discovered(a)
    BY <1>1 DEF List0, VInv, BuiltInv
  <2> QED
    BY <1>1, <2>1, <2>2, DiscoveredTyped, ListOfItself
<1>3. /\ S \in Seq(ToSet(Static[a]) \cup ToSet(L)) /\ Static[a] \in Seq(File)
      /\ ToSet(Static[a]) \subseteq File /\ src \in File
  <2>1. Static[a] \in Seq(File) /\ src \in File
    BY <1>1, Program
  <2> QED
    BY <1>1, <2>1, RefreshedTyped, ListOfItself
<1>4. \A x \in ToSet(Static[a]) \cup ToSet(L) : x \in File /\ edition[x] # 0
  <2>1. \A x \in ToSet(L) : edition[x] # 0
    BY DEF DepsPresent
  <2>2. \A x \in ToSet(Static[a]) : edition[x] # 0
    <3>1. CASE May("remove-file")
      <4>1. \A x \in ToSet(Static[a]) : \E b \in Compile : x = SourceOf[b]
        BY <1>1, <3>1 DEF Forward
      <4>2. \A b \in Compile : edition[SourceOf[b]] # 0
        BY DEF VInv, SourcesInv
      <4> QED
        BY <4>1, <4>2
    <3>2. CASE ~May("remove-file")
      <4>1. \A x \in File : edition[x] # 0
        BY <3>2 DEF VInv, SourcesInv
      <4> QED
        BY <1>3, <4>1
    <3> QED
      BY <3>1, <3>2
  <2> QED
    BY <1>2, <1>3, <2>1, <2>2
<1>5. \A x \in ToSet(Static[a]) \cup ToSet(L) : HashFile(x) = <<x, edition[x]>> /\ Dated(HashFile(x))
  <2>1. ASSUME NEW x \in ToSet(Static[a]) \cup ToSet(L) PROVE HashFile(x) = <<x, edition[x]>>
    <3>1. x \in File /\ x \in Input /\ edition[x] # 0
      BY <1>4 DEF Input
    <3>2. memo[x] # <<>> => memo[x] = <<x, edition[x]>>
      BY <3>1 DEF VInv, MemoInv
    <3> QED
      BY <3>1, <3>2 DEF HashFile
  <2>2. \A x \in File : edition[x] <= edits
    BY <1>1 DEF TypeInv, TreeType
  <2> QED
    BY <1>4, <2>1, <2>2 DEF Dated
<1>6. /\ K.inputs = [i \in DOMAIN S |-> HashFile(S[i])]
      /\ K.deps = [i \in DOMAIN L |-> HashFile(L[i])]
  BY DEF ActionKey
<1> HIDE DEF K, S
<1>7. Bound(K)
  <2>1. \A i \in DOMAIN S : S[i] \in ToSet(Static[a]) \cup ToSet(L)
    BY <1>3
  <2>2. \A i \in DOMAIN L : L[i] \in ToSet(L)
    BY DEF ToSet
  <2> HIDE DEF L
  <2> QED
    BY <1>5, <1>6, <2>1, <2>2 DEF Bound
<1>8. Cover(K, a)
  <2>1. edition[src] \in 1..edits
    <3>1. edition[src] # 0
      BY <1>1 DEF VInv, SourcesInv
    <3> QED
      BY <1>1, <1>3, <3>1 DEF TypeInv, TreeType
  <2>2. PICK e \in 1..edits : e = edition[src]
    BY <2>1
  <2>3. L = <<src>> \o Includes[src][e] /\ Includes[src][e] \in Seq(File) /\ <<src>> \in Seq(File)
    <3>1. e \in 0..MaxEdits
      BY <1>1, <2>2, TreeAssumption DEF TypeInv, TreeType
    <3> QED
      BY <1>1, <1>2, <1>3, <2>2, <3>1, TreeAssumption DEF Discovered
  <2> HIDE DEF L
  <2>4. 1 \in DOMAIN L /\ L[1] = src
    BY <2>3
  <2>5. K.deps[1] = <<src, e>> /\ 1 \in DOMAIN K.deps
    <3>1. src \in ToSet(L)
      BY <2>4 DEF ToSet
    <3> QED
      BY <1>5, <1>6, <2>2, <2>4, <3>1
  <2>6. ASSUME NEW h \in ToSet(Includes[src][e]) PROVE Lists(K, h)
    <3>1. PICK j \in 1..Len(Includes[src][e]) : Includes[src][e][j] = h
      BY <2>3, ToSetOf
    <3>2. j + 1 \in DOMAIN L /\ L[j + 1] = h
      BY <2>3, <3>1
    <3>3. h \in ToSet(L)
      BY <3>2 DEF ToSet
    <3>4. K.deps[j + 1] = <<h, edition[h]>> /\ j + 1 \in DOMAIN K.deps
      BY <1>5, <1>6, <3>2, <3>3
    <3> QED
      BY <3>4 DEF Lists
  <2> QED
    BY <2>5, <2>6 DEF Cover
<1>9. Fresh(a)
  BY <1>1, <1>2, <1>4 DEF VInv, BuiltInv
<1> QED
  BY <1>7, <1>8, <1>9 DEF Good, K, S

LEMMA FlushKeeps ==
  ASSUME Forward, Known, VInv, Flush
  PROVE  VInv'
<1>1. /\ Settled /\ phase = "build" /\ phase' = "state" /\ next' = FlushedKeys
      /\ \A a \in Refreshed : DepsPresent(a)
      /\ UNCHANGED <<tree, stateDb, goal, st, prev, memo, plan, sure, steady>>
  BY DEF Flush, Settled, stored, history
<1>2. MemoInv'
  BY <1>1 DEF VInv, MemoInv, tree
<1>3. BuiltInv'
  BY <1>1, TreeStays DEF VInv, BuiltInv, tree
<1>4. RunInv'
  BY <1>1 DEF RunInv, Settled, Known, OrderInv
<1>5. VouchInv'
  <2>1. \A K, a : Good(K, a)' <=> Good(K, a)
    BY <1>1, TreeStays
  <2>2. ASSUME NEW a \in Action PROVE Good(next'[a], a)
    <3>1. CASE a \in Refreshed
      <4>1. next'[a] = ActionKey(RefreshedInputs(a), DepInputs(a))
        BY <1>1, <3>1 DEF FlushedKeys
      <4> QED
        BY <1>1, <3>1, <4>1, RefreshedKeyIsGood
    <3>2. CASE a \notin Refreshed
      <4>1. next'[a] = next[a]
        BY <1>1, <3>2 DEF FlushedKeys
      <4> QED
        BY <1>1, <3>2, <4>1 DEF VInv, VouchInv
    <3> QED
      BY <3>1, <3>2
  <2> QED
    BY <1>1, <2>1, <2>2 DEF VInv, VouchInv
<1>6. SourcesInv'
  BY <1>1 DEF VInv, SourcesInv, tree
<1>7. SureInv'
  BY <1>1, TreeStays DEF VInv, SureInv
<1> QED
  BY <1>2, <1>3, <1>4, <1>5, <1>6, <1>7 DEF VInv

LEMMA WriteStateKeeps ==
  ASSUME Known, VInv, WriteState
  PROVE  VInv'
<1>1. /\ phase = "state" /\ phase' = "deps" /\ stateDb' = Preserved
      /\ UNCHANGED <<tree, goal, st, prev, next, memo, plan, sure, steady>>
  BY DEF WriteState, ctx, history
<1>2. MemoInv'
  BY <1>1 DEF VInv, MemoInv, tree
<1>3. BuiltInv'
  BY <1>1, TreeStays DEF VInv, BuiltInv, tree
<1>4. RunInv'
  BY <1>1 DEF VInv, RunInv
<1>5. VouchInv'
  <2>1. \A K, a : Good(K, a)' <=> Good(K, a)
    BY <1>1, TreeStays
  <2>2. \A a \in Action : Good(next[a], a) /\ Good(prev[a], a)
    BY <1>1 DEF VInv, VouchInv, Known, MirrorInv
  <2>3. \A a \in Action : Good(stateDb'[a], a)
    BY <1>1, <2>2 DEF Preserved
  <2> QED
    BY <1>1, <2>1, <2>2, <2>3 DEF VouchInv
<1>6. SourcesInv'
  BY <1>1 DEF VInv, SourcesInv, tree
<1>7. SureInv'
  BY <1>1, TreeStays DEF VInv, SureInv
<1> QED
  BY <1>2, <1>3, <1>4, <1>5, <1>6, <1>7 DEF VInv

LEMMA WriteDepsKeeps ==
  ASSUME Known, Known', VInv, WriteDeps
  PROVE  VInv'
<1>1. /\ phase = "deps" /\ phase' = "idle" /\ UNCHANGED <<tree, stateDb>>
      /\ sure' = IF steady THEN sure \cup goal ELSE {}
  BY DEF WriteDeps, Forget
<1>2. MemoInv' /\ BuiltInv' /\ RunInv'
  BY <1>1 DEF Known, OrderInv, MemoInv, BuiltInv, RunInv
<1>3. VouchInv'
  BY <1>1, TreeStays DEF VInv, VouchInv
<1>4. SourcesInv'
  BY <1>1 DEF VInv, SourcesInv, tree
<1>5. SureInv'
  <2>1. steady => \A a \in goal : Fresh(a) /\ Needs(a) \subseteq goal
    BY <1>1, TreeAssumption DEF VInv, SureInv, Known, OrderInv
  <2>2. \A a \in sure' : Fresh(a) /\ Needs(a) \subseteq sure'
    BY <1>1, <2>1 DEF VInv, SureInv
  <2> QED
    BY <1>1, <2>2, TreeStays DEF SureInv
<1> QED
  BY <1>2, <1>3, <1>4, <1>5 DEF VInv

LEMMA OtherStepsKeep ==
  ASSUME VInv, DaemonRestart \/ UNCHANGED vars
  PROVE  VInv'
<1>1. UNCHANGED <<tree, stateDb, phase, goal, st, prev, next, memo, plan, sure, steady>>
  BY DEF DaemonRestart, vars, stored, ctx, history
<1>2. MemoInv'
  BY <1>1 DEF VInv, MemoInv, tree
<1>3. BuiltInv'
  BY <1>1, TreeStays DEF VInv, BuiltInv, tree
<1>4. RunInv'
  BY <1>1, TreeStays DEF VInv, RunInv
<1>5. VouchInv'
  BY <1>1, TreeStays DEF VInv, VouchInv, Refreshed
<1>6. SourcesInv'
  BY <1>1 DEF VInv, SourcesInv, tree
<1>7. SureInv'
  BY <1>1, TreeStays DEF VInv, SureInv
<1> QED
  BY <1>2, <1>3, <1>4, <1>5, <1>6, <1>7 DEF VInv

-----------------------------------------------------------------------------
\* The theorems.

LEMMA VInvStep ==
  ASSUME OneFrontend, Forward, Known, Known', VInv, [Next]_vars
  PROVE  VInv'
<1>1. CASE \E f \in File : Edit(f)
  BY <1>1, IdleChangeKeeps
<1>2. CASE \E f \in File : RemoveFile(f)
  BY <1>2, RemoveFileKeeps
<1>3. CASE \E o \in Option : SetOption(o)
  BY <1>3 DEF SetOption, Forward
<1>4. CASE \E a \in Action : DeleteOutput(a)
  BY <1>4 DEF DeleteOutput, Forward, May
<1>5. CASE \E a \in Action : DeleteDepfile(a)
  BY <1>5, IdleChangeKeeps
<1>6. CASE \E g \in Goals, who \in Frontends : Begin(g, who)
  BY <1>6, BeginKeeps
<1>7. CASE \E a \in Action : Skip(a) \/ Start(a) \/ Finish(a)
  BY <1>7, SkipKeeps, StartKeeps, FinishKeeps
<1>8. CASE EndsEarly
  BY <1>8, EndsEarlyKeeps
<1>9. CASE Flush \/ WriteState \/ WriteDeps
  BY <1>9, FlushKeeps, WriteStateKeeps, WriteDepsKeeps
<1>10. CASE DaemonRestart \/ UNCHANGED vars
  BY <1>10, OtherStepsKeep
<1> QED
  BY <1>1, <1>2, <1>3, <1>4, <1>5, <1>6, <1>7, <1>8, <1>9, <1>10
     DEF Next, Change, Build, EndsEarly

\* What is recorded of an action vouches for its output at every step of every
\* build, as long as one program builds the directory and nothing goes back to
\* a state it had.
THEOREM Invariance == ASSUME OneFrontend, Forward PROVE Spec => [](Known /\ VInv)
<1>1. Init => VInv
  <2> SUFFICES ASSUME Init PROVE VInv
    OBVIOUS
  <2>1. MemoInv /\ BuiltInv /\ RunInv
    BY DEF Init, MemoInv, BuiltInv, RunInv
  <2>2. VouchInv
    BY DEF Init, VouchInv, Good
  <2>3. SourcesInv /\ SureInv
    BY TreeAssumption DEF Init, SourcesInv, SureInv
  <2> QED
    BY <2>1, <2>2, <2>3 DEF VInv
<1>2. Known /\ Known' /\ VInv /\ [Next]_vars => VInv'
  BY VInvStep
<1>3. Spec => []Known
  <2>1. ~May("same-second")
    BY DEF Forward, May
  <2>2. Spec => []ListInv
    BY <2>1, ListsAreTrue, PTL
  <2> QED
    BY <2>2, Types, Mirror, PTL DEF Known
<1> QED
  BY <1>1, <1>2, <1>3, PTL DEF Spec

\* When a build reports success and nothing has changed since it began, every
\* output it was asked for is what its action makes of the present tree,
\* whatever was skipped on the word of state.db and whatever failed, was
\* killed or lost its depfile before.
THEOREM BuildsAreFresh == ASSUME OneFrontend, Forward PROVE Spec => []BuiltIsFresh
<1>1. VInv => BuiltIsFresh
  BY DEF VInv, SureInv, Fresh, BuiltIsFresh
<1> QED
  BY <1>1, Invariance, PTL

\* Between builds, a recorded key that the next build would compute again
\* belongs to the output that is there, and a recorded depfile list to the
\* depfile: the dirty check may believe both.
THEOREM RecordsAreBelievable == ASSUME OneFrontend, Forward PROVE Spec => []RecordsVouch
<1>1. Known => TypeOK
  BY DEF Known, TypeInv, TreeType, StoredType, BuildType, HistoryType, Memory, TypeOK
<1>2. Known /\ VInv => KeyVouches
  <2> SUFFICES ASSUME Known, VInv, phase = "idle", NEW a \in Action, stateDb[a] = PreparedKey(a),
                      obj[a].stamp # 0
               PROVE  obj[a].of = Content(a)
    BY DEF KeyVouches
  <2>1. \A x \in Elems(a) : HashFile(x) = Hash0(x)
    <3>1. Elems(a) \subseteq Input
      BY List0Typed DEF Known
    <3> QED
      BY <3>1 DEF Known, OrderInv, HashFile, Hash0
  <2>2. stateDb[a] = Key0(a) /\ Key0(a) # NoKey
    BY <2>1, PreparedIsKey0, Key0IsAKey DEF Known
  <2> QED
    BY <2>2 DEF VInv, VouchInv, Good, Fresh
<1>3. Known => DepsDbTransparent
  BY DEF Known, ListInv, DepsDbTransparent
<1> QED
  BY <1>1, <1>2, <1>3, Invariance, PTL DEF RecordsVouch

-----------------------------------------------------------------------------
\* No rework.

\* The key of an action depends on the editions, on its depfile and on the
\* outputs it needs.
LEMMA KeyStays ==
  ASSUME TypeInv, edition' = edition, option' = option, NEW a \in Action,
         depfile'[a] = depfile[a], \A b \in Needs(a) : obj'[b].stamp = obj[b].stamp
  PROVE  Key0(a)' = Key0(a)
<1>1. List0(a)' = List0(a) /\ Inputs0(a)' = Inputs0(a)
  BY DEF List0, Inputs0
<1>2. ASSUME NEW x \in Elems(a) PROVE Hash0(x)' = Hash0(x)
  <2>1. x \in Input /\ (x \in ToSet(Static[a]) \/ x \in ToSet(List0(a)))
    BY List0Typed
  <2>2. x \in File \/ x \in Needs(a)
    <3>1. ToSet(List0(a)) \subseteq File
      BY List0Typed, ListOfItself
    <3> QED
      BY <2>1, <3>1 DEF Needs, Input
  <2> QED
    BY <2>2 DEF Hash0
<1>3. \A i \in DOMAIN Inputs0(a) : Hash0(Inputs0(a)[i])' = Hash0(Inputs0(a)[i])
  BY <1>1, <1>2 DEF Elems, ToSet
<1>4. \A i \in DOMAIN List0(a) : Hash0(List0(a)[i])' = Hash0(List0(a)[i])
  BY <1>1, <1>2 DEF Elems, ToSet
<1> QED
  BY <1>1, <1>3, <1>4 DEF Key0

LEMMA ExactDigest ==
  ASSUME MemoIsTrue, steady, NEW x \in Input
  PROVE  HashFile(x) = Hash0(x)
BY DEF MemoIsTrue, HashFile, Hash0

LEMMA ExactKey ==
  ASSUME Known, MemoIsTrue, steady, NEW a \in Action
  PROVE  PreparedKey(a) = Key0(a) /\ Key0(a) # NoKey
<1>1. \A x \in Elems(a) : HashFile(x) = Hash0(x)
  <2>1. Elems(a) \subseteq Input
    BY List0Typed DEF Known
  <2> QED
    BY <2>1, ExactDigest
<1> QED
  BY <1>1, PreparedIsKey0, Key0IsAKey DEF Known

LEMMA DiscoveredIsOne ==
  ASSUME TypeInv, NEW a \in Compile
  PROVE  Discovered(a) \in DepfilesOf(a)
<1>1. edition[SourceOf[a]] \in 0..MaxEdits
  BY TreeAssumption DEF TypeInv, TreeType
<1> QED
  BY <1>1 DEF Discovered, DepfilesOf

\* Something changes.
LEMMA ChangeIsNoRework ==
  ASSUME Known, NInv, Change
  PROVE  NInv'
<1>1. /\ sure' = {} /\ steady' = FALSE /\ UNCHANGED <<phase, plan, st>>
      /\ \A a \in Action : depfile'[a] = depfile[a] \/ (depfile'[a] = NoDeps /\ phase = "idle")
  BY DEF Change, Edit, RemoveFile, SetOption, DeleteOutput, DeleteDepfile, Changed, ctx,
         Known, TypeInv, TreeType
<1>2. WrittenInv'
  <2>1. \A a \in Compile : a \in Action
    BY DEF Action
  <2> QED
    BY <1>1, <2>1 DEF NInv, WrittenInv, NoDeps, Known, OrderInv
<1> QED
  BY <1>1, <1>2 DEF NInv, MemoIsTrue, NextIsKey, KeptInv

LEMMA BeginIsNoRework ==
  ASSUME Known, NInv, NEW g \in Goals, NEW who \in Frontends, Begin(g, who)
  PROVE  NInv'
<1>1. /\ phase = "idle" /\ phase' = "build" /\ steady' = TRUE /\ goal' = g
      /\ UNCHANGED <<tree, stateDb, st, memo, plan, sure>>
  BY DEF Begin
<1>2. /\ \A a \in Action : st'[a] = "todo"
      /\ \A x \in Input : memo'[x] = <<>> /\ \A a \in g : a \in Action
  BY <1>1, TreeAssumption DEF Known, OrderInv
<1>3. WrittenInv'
  BY <1>1 DEF NInv, WrittenInv, tree
<1>4. MemoIsTrue'
  BY <1>2 DEF MemoIsTrue
<1>5. NextIsKey'
  <2>1. \A a \in g : a \in Action
    BY TreeAssumption
  <2> QED
    BY <1>1, <1>2, <2>1 DEF NextIsKey
<1>6. KeptInv'
  <2>1. sure \subseteq Action /\ obj' = obj
    BY <1>1 DEF Known, TypeInv, HistoryType, tree
  <2>2. \A a : Key0(a)' = Key0(a)
    BY <1>1, TreeStays
  <2> QED
    BY <1>1, <1>2, <2>1, <2>2 DEF NInv, KeptInv
<1> QED
  BY <1>3, <1>4, <1>5, <1>6 DEF NInv

\* An action is prepared: what is computed for it is right.
LEMMA PrepareIsNoRework ==
  ASSUME Known, NInv, NEW a \in Action, Prepare(a), UNCHANGED <<tree, steady>>,
         \A b \in Action : st[b] \in {"skipped", "built"} => st'[b] = st[b]
  PROVE  MemoIsTrue'
<1> SUFFICES ASSUME steady, NEW x \in Input, memo'[x] # <<>>
             PROVE  memo'[x] = Hash0(x) /\ (x \notin File => st'[x] \in {"skipped", "built"})
  BY DEF MemoIsTrue, Hash0, tree
<1>1. memo' = Remember(PreparedInputs(a)) /\ Ready(a)
  BY DEF Prepare
<1>2. CASE x \in ToSet(PreparedInputs(a))
  <2>1. memo'[x] = HashFile(x)
    BY <1>1, <1>2 DEF Remember
  <2>2. x \in ToSet(Static[a]) \/ x \in File
    <3>1. /\ ToSet(PreparedInputs(a)) \subseteq ToSet(Static[a]) \cup ToSet(DepInputs(a))
          /\ DepInputs(a) \in Seq(File)
      BY PreparedTyped, DepInputsTyped DEF Known
    <3>2. ToSet(DepInputs(a)) \subseteq File
      BY <3>1, ListOfItself
    <3> QED
      BY <1>2, <3>1, <3>2
  <2>3. x \notin File => x \in Action /\ st[x] \in {"skipped", "built"}
    BY <1>1, <2>2 DEF Needs, Input, Ready
  <2> QED
    BY <2>1, <2>3, ExactDigest DEF NInv
<1>3. CASE x \notin ToSet(PreparedInputs(a))
  <2>1. memo'[x] = memo[x]
    BY <1>1, <1>3 DEF Remember
  <2> QED
    BY <2>1 DEF NInv, MemoIsTrue, Input
<1> QED
  BY <1>2, <1>3

LEMMA SkipIsNoRework ==
  ASSUME Known, NInv, NEW a \in Action, Skip(a)
  PROVE  NInv'
<1>1. /\ Prepare(a) /\ prev[a] = PreparedKey(a) /\ obj[a].stamp # 0 /\ phase = "build"
      /\ st' = [st EXCEPT ![a] = "skipped"] /\ next' = [next EXCEPT ![a] = PreparedKey(a)]
      /\ UNCHANGED <<tree, stateDb, phase, goal, plan, sure, steady>> /\ st[a] = "todo"
  BY DEF Skip, CacheHit, Prepare, Ready, stored, history
<1>2. /\ st'[a] = "skipped" /\ next'[a] = PreparedKey(a)
      /\ \A b \in Action \ {a} : st'[b] = st[b] /\ next'[b] = next[b]
  BY <1>1 DEF Known, TypeInv, BuildType
<1>3. MemoIsTrue'
  BY <1>1, <1>2, PrepareIsNoRework
<1>4. WrittenInv'
  BY <1>1, <1>2 DEF NInv, WrittenInv, tree, Action
<1>5. \A b : Key0(b)' = Key0(b)
  BY <1>1, TreeStays
<1>6. NextIsKey'
  <2>1. Refreshed' = Refreshed
    BY <1>1, <1>2 DEF Refreshed, Action
  <2>2. goal \subseteq Action /\ obj' = obj
    BY <1>1, TreeAssumption DEF Known, TypeInv, BuildType, tree
  <2>3. steady => next'[a] = Key0(a)
    BY <1>2, ExactKey DEF NInv
  <2> QED
    BY <1>1, <1>2, <1>5, <2>1, <2>2, <2>3 DEF NInv, NextIsKey
<1>7. KeptInv'
  <2>1. sure \subseteq Action /\ obj' = obj
    BY <1>1 DEF Known, TypeInv, HistoryType, tree
  <2> QED
    BY <1>1, <1>2, <1>5, <2>1 DEF NInv, KeptInv
<1> QED
  BY <1>3, <1>4, <1>6, <1>7 DEF NInv

\* What starts was not up to date.
LEMMA StartIsNoRework ==
  ASSUME Known, NInv, NEW a \in Action, Start(a)
  PROVE  NInv'
<1>1. /\ Prepare(a) /\ ~(prev[a] = PreparedKey(a) /\ obj[a].stamp # 0) /\ phase = "build"
      /\ st' = [st EXCEPT ![a] = "running"] /\ st[a] = "todo"
      /\ plan' = [plan EXCEPT ![a] = [key |-> PreparedKey(a), deps |-> DepInputs(a)]]
      /\ UNCHANGED <<tree, stateDb, phase, goal, next, sure, steady>>
  BY DEF Start, CacheHit, Prepare, Ready, stored, history
<1>2. /\ st'[a] = "running" /\ plan'[a].key = PreparedKey(a) /\ plan'[a].deps = DepInputs(a)
      /\ \A b \in Action \ {a} : st'[b] = st[b] /\ plan'[b] = plan[b]
  BY <1>1 DEF Known, TypeInv, BuildType
<1>3. MemoIsTrue'
  BY <1>1, <1>2, PrepareIsNoRework
<1>4. WrittenInv'
  <2>1. DepInputs(a) = List0(a)
    BY ListTaken DEF Known
  <2>2. a \in Compile => DepInputs(a) \in DepfilesOf(a) \cup {<<>>}
    BY <2>1 DEF List0, NInv, WrittenInv
  <2> QED
    BY <1>1, <1>2, <2>2 DEF NInv, WrittenInv, tree, Action
<1>5. \A b : Key0(b)' = Key0(b)
  BY <1>1, TreeStays
<1>6. NextIsKey'
  <2>1. Refreshed' = Refreshed
    BY <1>1, <1>2 DEF Refreshed, Action
  <2>2. goal \subseteq Action /\ obj' = obj
    BY <1>1, TreeAssumption DEF Known, TypeInv, BuildType, tree
  <2>3. steady => plan'[a].key = Key0(a)
    BY <1>2, ExactKey DEF NInv
  <2> QED
    BY <1>1, <1>2, <1>5, <2>1, <2>2, <2>3 DEF NInv, NextIsKey
<1>7. KeptInv'
  <2>1. sure \subseteq Action /\ obj' = obj
    BY <1>1 DEF Known, TypeInv, HistoryType, tree
  <2>2. a \notin sure
    <3> SUFFICES ASSUME a \in sure PROVE FALSE
      OBVIOUS
    <3>1. steady /\ stateDb[a] = Key0(a) /\ obj[a].stamp # 0
      BY <1>1 DEF NInv, KeptInv, Known, TypeInv, HistoryType
    <3>2. prev[a] = PreparedKey(a)
      BY <1>1, <3>1, ExactKey DEF NInv, Known, MirrorInv
    <3> QED
      BY <1>1, <3>1, <3>2
  <2> QED
    BY <1>1, <1>2, <1>5, <2>1, <2>2 DEF NInv, KeptInv
<1> QED
  BY <1>3, <1>4, <1>6, <1>7 DEF NInv

\* A process ends: its output and depfile are new, and nothing that has settled
\* or is up to date depends on them.
LEMMA FinishIsNoRework ==
  ASSUME ~May("same-second"), Known, NInv, NEW a \in Action, Finish(a)
  PROVE  NInv'
<1>1. /\ phase = "build" /\ st[a] = "running" /\ second' = second + 1 /\ second \in Nat
      /\ obj' = [obj EXCEPT ![a] = [stamp |-> second', of |-> Content(a)]]
      /\ depfile' = IF a \in Compile
                    THEN [depfile EXCEPT ![a] = [print |-> second', list |-> Discovered(a)]]
                    ELSE depfile
      /\ st' = [st EXCEPT ![a] = "built"] /\ next' = [next EXCEPT ![a] = plan[a].key]
      /\ UNCHANGED <<edition, option, edits, stateDb, phase, goal, memo, plan, sure, steady>>
  BY DEF Finish, Seconds, stored, Known, TypeInv, TreeType
<1>2. /\ TypeInv /\ st'[a] = "built" /\ obj'[a].stamp = second + 1 /\ next'[a] = plan[a].key
      /\ a \in Compile => depfile'[a].print = second + 1 /\ depfile'[a].list = Discovered(a)
      /\ a \notin Compile => depfile'[a] = depfile[a]
      /\ \A b \in Action \ {a} : st'[b] = st[b] /\ obj'[b] = obj[b] /\ next'[b] = next[b]
                                   /\ depfile'[b] = depfile[b]
  BY <1>1 DEF Known, TypeInv, TreeType, BuildType
<1>3. /\ a \notin sure /\ second + 1 # 0
      /\ \A b \in Action \ {a} : st[b] # "todo" => a \notin Needs(b)
      /\ \A b \in sure : b \in Action /\ b # a /\ a \notin Needs(b)
  BY <1>1 DEF NInv, KeptInv, Known, OrderInv, TypeInv, HistoryType
<1>4. ASSUME NEW b \in Action, a \notin Needs(b), depfile'[b] = depfile[b]
      PROVE  Key0(b)' = Key0(b)
  <2>1. \A c \in Needs(b) : obj'[c].stamp = obj[c].stamp
    BY <1>2, <1>4, NeedsOthers
  <2> QED
    BY <1>1, <1>2, <1>4, <2>1, KeyStays
<1>5. WrittenInv'
  <2>1. ASSUME NEW b \in Compile
        PROVE  /\ depfile'[b].print # 0 => depfile'[b].list \in DepfilesOf(b)
               /\ st'[b] = "built" => depfile'[b].print # 0
    <3>1. CASE b = a
      BY <1>2, <1>3, <3>1, DiscoveredIsOne
    <3>2. CASE b # a
      BY <1>2, <3>2 DEF NInv, WrittenInv, Action
    <3> QED
      BY <3>1, <3>2
  <2> QED
    BY <1>1, <2>1 DEF NInv, WrittenInv
<1>6. MemoIsTrue'
  <2>1. ASSUME steady, NEW x \in Input, memo[x] # <<>>
        PROVE  /\ memo[x] = Hash0(x) /\ Hash0(x)' = Hash0(x)
               /\ x \notin File => st'[x] \in {"skipped", "built"}
    <3>1. memo[x] = Hash0(x) /\ (x \notin File => x \in Action /\ st[x] \in {"skipped", "built"})
      BY <2>1 DEF NInv, MemoIsTrue, Input
    <3>2. x \notin File => x # a
      BY <1>1, <3>1
    <3> QED
      BY <1>1, <1>2, <3>1, <3>2 DEF Hash0
  <2> QED
    BY <1>1, <2>1 DEF MemoIsTrue
<1>7. NextIsKey'
  <2> SUFFICES ASSUME steady, NEW b \in goal
               PROVE  /\ st'[b] \in {"skipped", "built"} =>
                           obj'[b].stamp # 0 /\ (b \in Refreshed' \/ next'[b] = Key0(b)')
                      /\ st'[b] = "running" /\ b \in Final => plan[b].key = Key0(b)'
    BY <1>1 DEF NextIsKey
  <2>1. b \in Action
    BY TreeAssumption DEF Known, TypeInv, BuildType
  <2>2. CASE b = a
    <3>1. CASE a \in Compile
      BY <1>2, <1>3, <2>2, <3>1 DEF Refreshed
    <3>2. CASE a \notin Compile
      <4>1. a \in Final /\ plan[a].key = Key0(a)
        BY <1>1, <2>2, <3>2 DEF NInv, NextIsKey, Action
      <4>2. Key0(a)' = Key0(a)
        BY <1>2, <1>4, <3>2, NeedsOthers
      <4> QED
        BY <1>2, <1>3, <2>2, <4>1, <4>2
    <3> QED
      BY <3>1, <3>2
  <2>3. CASE b # a
    <3>1. /\ st'[b] = st[b] /\ obj'[b] = obj[b] /\ next'[b] = next[b]
          /\ b \in Refreshed' <=> b \in Refreshed
      BY <1>2, <2>1, <2>3 DEF Refreshed
    <3>2. st[b] # "todo" => Key0(b)' = Key0(b)
      BY <1>2, <1>3, <1>4, <2>1, <2>3
    <3> QED
      BY <1>1, <3>1, <3>2 DEF NInv, NextIsKey
  <2> QED
    BY <2>2, <2>3
<1>8. KeptInv'
  <2>1. \A b \in sure : Key0(b)' = Key0(b) /\ obj'[b] = obj[b] /\ st'[b] = st[b]
    BY <1>2, <1>3, <1>4
  <2> QED
    BY <1>1, <2>1 DEF NInv, KeptInv
<1> QED
  BY <1>5, <1>6, <1>7, <1>8 DEF NInv

LEMMA EndsEarlyIsNoRework ==
  ASSUME Known, NInv, EndsEarly
  PROVE  NInv'
<1>1. /\ GiveUp /\ phase' = "idle" /\ stateDb' = stateDb
      /\ sure' = {a \in sure : ({a} \cup Needs(a)) \cap Running = {}}
      /\ \A a \in Action : st'[a] = "todo" /\ plan'[a] = NoPlan
      /\ \A x \in Input : memo'[x] = <<>>
  BY EndsEarlyDoes DEF GiveUp, Forget
<1>2. /\ \A a \in Action : a \notin Running => obj'[a] = obj[a] /\ depfile'[a] = depfile[a]
      /\ \A a \in Action : \/ depfile'[a] = depfile[a]
                           \/ a \in Compile /\ depfile'[a].list = Discovered(a)
      /\ edition' = edition /\ option' = option
  <2>1. CASE Running = {}
    BY <1>1, <2>1 DEF GiveUp, tree
  <2>2. CASE Running # {}
    BY <1>1, <2>2, LeftBehind DEF GiveUp, Known
  <2> QED
    BY <2>1, <2>2
<1>3. WrittenInv'
  <2>1. \A a \in Compile : a \in Action /\ Discovered(a) \in DepfilesOf(a)
    BY DiscoveredIsOne DEF Action, Known
  <2> QED
    BY <1>1, <1>2, <2>1 DEF NInv, WrittenInv, NoPlan
<1>4. MemoIsTrue' /\ NextIsKey'
  BY <1>1 DEF MemoIsTrue, NextIsKey
<1>5. KeptInv'
  <2>1. ASSUME NEW a \in sure'
        PROVE  /\ stateDb[a] = Key0(a)' /\ obj'[a].stamp # 0
               /\ Needs(a) \subseteq sure' /\ st'[a] # "running"
    <3>1. a \in sure /\ a \in Action /\ ({a} \cup Needs(a)) \cap Running = {}
          /\ stateDb[a] = Key0(a) /\ obj[a].stamp # 0 /\ Needs(a) \subseteq sure
      BY <1>1, <2>1 DEF NInv, KeptInv, Known, TypeInv, HistoryType
    <3>2. \A b \in Needs(a) : b \in Action /\ b \in sure /\ b \notin Running /\ Needs(b) = {}
      BY <3>1, NeedsOthers
    <3>3. Key0(a)' = Key0(a)
      <4>1. \A b \in Needs(a) : obj'[b].stamp = obj[b].stamp
        BY <1>2, <3>2
      <4>2. depfile'[a] = depfile[a]
        BY <1>2, <3>1
      <4> QED
        BY <1>2, <3>1, <4>1, <4>2, KeyStays DEF Known
    <3>4. \A b \in Needs(a) : b \in sure'
      BY <1>1, <3>2
    <3> QED
      BY <1>1, <1>2, <3>1, <3>3, <3>4
  <2> QED
    BY <1>1, <2>1 DEF KeptInv
<1> QED
  BY <1>3, <1>4, <1>5 DEF NInv

\* The key recorded from the depfile a compilation has just written is the key
\* the next build computes from it.
LEMMA RefreshedKeyIsKey0 ==
  ASSUME ListedFirst, Known, NInv, steady, NEW a \in Refreshed
  PROVE  ActionKey(RefreshedInputs(a), DepInputs(a)) = Key0(a)
<1>1. a \in Compile /\ a \in Action /\ st[a] = "built" /\ TypeInv
  BY DEF Refreshed, Action, Known
<1>2. DepInputs(a) = List0(a) /\ List0(a) \in DepfilesOf(a)
  BY <1>1, ListTaken DEF List0, NInv, WrittenInv, Known
<1>3. RefreshedInputs(a) = Inputs0(a)
  <2>1. PICK e \in 0..MaxEdits : List0(a) = <<SourceOf[a]>> \o Includes[SourceOf[a]][e]
    BY <1>2 DEF DepfilesOf
  <2>2. plan[a].deps \in DepfilesOf(a) \cup {<<>>}
    BY <1>1 DEF NInv, WrittenInv
  <2>3. LET static == Without(Static[a], plan[a].deps)
        IN  static \o Without(List0(a), static) = Static[a] \o Without(List0(a), Static[a])
    BY <1>1, <2>1, <2>2 DEF ListedFirst
  <2> QED
    BY <1>2, <2>3 DEF RefreshedInputs, Inputs0
<1>4. \A x \in Elems(a) : HashFile(x) = Hash0(x)
  <2>1. Elems(a) \subseteq Input
    BY <1>1, List0Typed
  <2> QED
    BY <2>1, ExactDigest DEF NInv
<1>5. \A i \in DOMAIN Inputs0(a) : HashFile(Inputs0(a)[i]) = Hash0(Inputs0(a)[i])
  BY <1>4 DEF Elems, ToSet
<1>6. \A i \in DOMAIN List0(a) : HashFile(List0(a)[i]) = Hash0(List0(a)[i])
  BY <1>4 DEF Elems, ToSet
<1> QED
  BY <1>2, <1>3, <1>5, <1>6 DEF ActionKey, Key0

LEMMA FlushIsNoRework ==
  ASSUME ListedFirst, Known, NInv, Flush
  PROVE  NInv'
<1>1. /\ Settled /\ phase = "build" /\ phase' = "state" /\ next' = FlushedKeys
      /\ UNCHANGED <<tree, stateDb, goal, st, memo, plan, sure, steady>>
  BY DEF Flush, Settled, stored, history
<1>2. \A b : Key0(b)' = Key0(b)
  BY <1>1, TreeStays
<1>3. WrittenInv'
  BY <1>1 DEF NInv, WrittenInv, tree
<1>4. MemoIsTrue'
  BY <1>1 DEF NInv, MemoIsTrue, Hash0, tree
<1>5. NextIsKey'
  <2> SUFFICES ASSUME steady, NEW a \in goal
               PROVE  /\ st[a] \in {"skipped", "built"} => obj[a].stamp # 0 /\ next'[a] = Key0(a)
                      /\ st[a] = "running" /\ a \in Final => plan[a].key = Key0(a)
    BY <1>1, <1>2 DEF NextIsKey, tree
  <2>1. a \in Action /\ st[a] \in {"skipped", "built"}
    BY <1>1, TreeAssumption DEF Settled, Known, TypeInv, BuildType
  <2>2. CASE a \in Refreshed
    <3>1. next'[a] = ActionKey(RefreshedInputs(a), DepInputs(a))
      BY <1>1, <2>1, <2>2 DEF FlushedKeys
    <3> QED
      BY <1>1, <2>1, <2>2, <3>1, RefreshedKeyIsKey0 DEF NInv, NextIsKey
  <2>3. CASE a \notin Refreshed
    <3>1. next'[a] = next[a]
      BY <1>1, <2>1, <2>3 DEF FlushedKeys
    <3> QED
      BY <1>1, <2>1, <2>3, <3>1 DEF NInv, NextIsKey
  <2> QED
    BY <2>2, <2>3
<1>6. KeptInv'
  BY <1>1, <1>2 DEF NInv, KeptInv, tree
<1> QED
  BY <1>3, <1>4, <1>5, <1>6 DEF NInv

LEMMA WriteStateIsNoRework ==
  ASSUME Known, NInv, WriteState
  PROVE  NInv'
<1>1. /\ phase = "state" /\ phase' = "deps" /\ stateDb' = Preserved
      /\ UNCHANGED <<tree, goal, st, prev, next, memo, plan, sure, steady>>
  BY DEF WriteState, ctx, history
<1>2. \A b : Key0(b)' = Key0(b)
  BY <1>1, TreeStays
<1>3. WrittenInv'
  BY <1>1 DEF NInv, WrittenInv, tree
<1>4. MemoIsTrue'
  BY <1>1 DEF NInv, MemoIsTrue, Hash0, tree
<1>5. steady => \A a \in goal : a \in Action /\ next[a] = Key0(a) /\ stateDb'[a] = Key0(a)
  <2> SUFFICES ASSUME steady, NEW a \in goal
               PROVE  a \in Action /\ next[a] = Key0(a) /\ stateDb'[a] = Key0(a)
    OBVIOUS
  <2>1. a \in Action /\ next[a] = Key0(a)
    BY <1>1, TreeAssumption DEF NInv, NextIsKey, Known, OrderInv
  <2>2. next[a] # NoKey
    BY <2>1, Key0IsAKey DEF Known
  <2> QED
    BY <1>1, <2>1, <2>2 DEF Preserved
<1>6. NextIsKey'
  BY <1>1, <1>2, <1>5 DEF NInv, NextIsKey, tree
<1>7. KeptInv'
  <2>1. ASSUME NEW a \in sure PROVE stateDb'[a] = Key0(a)
    <3>1. a \in Action /\ steady /\ stateDb[a] = Key0(a)
      BY <1>1 DEF NInv, KeptInv, Known, TypeInv, HistoryType
    <3>2. CASE next[a] # NoKey
      <4>1. a \in goal
        BY <3>1, <3>2 DEF Known, OrderInv
      <4> QED
        BY <1>5, <3>1, <4>1
    <3>3. CASE next[a] = NoKey
      BY <1>1, <3>1, <3>3 DEF Preserved, Known, MirrorInv
    <3> QED
      BY <3>2, <3>3
  <2> QED
    BY <1>1, <1>2, <2>1 DEF NInv, KeptInv, tree
<1> QED
  BY <1>3, <1>4, <1>6, <1>7 DEF NInv

LEMMA WriteDepsIsNoRework ==
  ASSUME Known, NInv, WriteDeps
  PROVE  NInv'
<1>1. /\ phase = "deps" /\ phase' = "idle" /\ UNCHANGED <<tree, stateDb, steady>>
      /\ sure' = IF steady THEN sure \cup goal ELSE {}
      /\ \A a \in Action : st'[a] = "todo" /\ plan'[a] = NoPlan
      /\ \A x \in Input : memo'[x] = <<>>
  BY DEF WriteDeps, Forget
<1>2. \A b : Key0(b)' = Key0(b)
  BY <1>1, TreeStays
<1>3. WrittenInv'
  BY <1>1 DEF NInv, WrittenInv, NoPlan, tree, Action
<1>4. MemoIsTrue' /\ NextIsKey'
  BY <1>1 DEF MemoIsTrue, NextIsKey
<1>5. steady => \A a \in goal : /\ a \in Action /\ Needs(a) \subseteq goal
                                /\ stateDb[a] = Key0(a) /\ obj[a].stamp # 0
  BY <1>1, TreeAssumption DEF NInv, NextIsKey, Known, OrderInv
<1>6. KeptInv'
  <2>1. ASSUME NEW a \in sure'
        PROVE  a \in Action /\ stateDb[a] = Key0(a) /\ obj[a].stamp # 0 /\ Needs(a) \subseteq sure'
    BY <1>1, <1>5, <2>1 DEF NInv, KeptInv, Known, TypeInv, HistoryType
  <2> QED
    BY <1>1, <1>2, <2>1 DEF KeptInv, tree
<1> QED
  BY <1>3, <1>4, <1>6 DEF NInv

LEMMA OtherStepsAreNoRework ==
  ASSUME NInv, DaemonRestart \/ UNCHANGED vars
  PROVE  NInv'
<1>1. UNCHANGED <<tree, stateDb, phase, goal, st, prev, next, memo, plan, sure, steady>>
  BY DEF DaemonRestart, vars, stored, ctx, history
<1>2. WrittenInv'
  BY <1>1 DEF NInv, WrittenInv, tree
<1>3. MemoIsTrue'
  BY <1>1 DEF NInv, MemoIsTrue, Hash0, tree
<1>4. NextIsKey' /\ KeptInv'
  BY <1>1, TreeStays DEF NInv, NextIsKey, KeptInv, Refreshed, tree
<1> QED
  BY <1>2, <1>3, <1>4 DEF NInv

\* A repeated build runs nothing: what builds have brought up to date is not
\* run again before something changes, whatever fails or is killed in between,
\* whatever a build is asked for, and even if options go back or files are
\* edited during a build.  It takes ListedFirst, that the stored key is made in
\* the order of the next one, which excludes targets that list a header their
\* source does not include and is so if the graph lists nothing but the source
\* (SourceAlone); that a directory is built by the daemon or beside it, not both;
\* and that no two depfiles are written in one second.
THEOREM RepeatedBuildsAreIdle ==
  ASSUME OneFrontend, ListedFirst, ~May("same-second")
  PROVE  Spec => []NoRework
<1>1. Init => NInv
  BY DEF Init, NInv, WrittenInv, MemoIsTrue, NextIsKey, KeptInv, NoDeps, NoPlan, Action
<1>2. ASSUME Known, NInv, [Next]_vars PROVE NInv'
  <2>1. CASE Change
    BY <1>2, <2>1, ChangeIsNoRework
  <2>2. CASE \E g \in Goals, who \in Frontends : Begin(g, who)
    BY <1>2, <2>2, BeginIsNoRework
  <2>3. CASE \E a \in Action : Skip(a) \/ Start(a) \/ Finish(a)
    BY <1>2, <2>3, SkipIsNoRework, StartIsNoRework, FinishIsNoRework
  <2>4. CASE EndsEarly
    BY <1>2, <2>4, EndsEarlyIsNoRework
  <2>5. CASE Flush \/ WriteState \/ WriteDeps
    BY <1>2, <2>5, FlushIsNoRework, WriteStateIsNoRework, WriteDepsIsNoRework
  <2>6. CASE DaemonRestart \/ UNCHANGED vars
    BY <1>2, <2>6, OtherStepsAreNoRework
  <2> QED
    BY <1>2, <2>1, <2>2, <2>3, <2>4, <2>5, <2>6 DEF Next, Build, EndsEarly
<1>3. Known /\ NInv /\ [Next]_vars => NInv'
  BY <1>2
<1>4. Spec => []Known
  <2>1. Spec => []ListInv
    BY ListsAreTrue, PTL
  <2> QED
    BY <2>1, Types, Mirror, PTL DEF Known
<1>5. NInv => NoRework
  BY DEF NInv, KeptInv, NoRework, Running
<1> QED
  BY <1>1, <1>3, <1>4, <1>5, PTL DEF Spec

\* When the elements that stay are those behind the first k.
LEMMA WithoutFirst ==
  ASSUME NEW S, NEW s \in Seq(S), NEW t, NEW k \in 0..Len(s),
         \A i \in 1..Len(s) : s[i] \notin ToSet(t) <=> i > k
  PROVE  Without(s, t) = [n \in 1..(Len(s) - k) |-> s[n + k]]
<1> DEFINE kept == {i \in DOMAIN s : s[i] \notin ToSet(t)}
           Rank(i) == Cardinality({h \in kept : h <= i})
<1>1. Len(s) \in Nat /\ k \in Nat /\ kept = (k + 1)..Len(s)
  OBVIOUS
<1>2. \A i \in kept : Rank(i) = i - k
  <2> SUFFICES ASSUME NEW i \in kept PROVE Rank(i) = i - k
    OBVIOUS
  <2>1. {h \in kept : h <= i} = (k + 1)..i /\ i \in Int /\ k + 1 \in Int /\ i >= k + 1
    BY <1>1
  <2>2. Cardinality((k + 1)..i) = i - (k + 1) + 1
    BY <2>1, FS_Interval
  <2>3. Rank(i) = Cardinality((k + 1)..i)
    BY <2>1
  <2>4. i - (k + 1) + 1 = i - k
    BY <1>1, <2>1
  <2> HIDE DEF Rank
  <2> QED
    BY <2>2, <2>3, <2>4
<1>3. Cardinality(kept) = Len(s) - k
  <2>1. k + 1 \in Int /\ Len(s) \in Int /\ Len(s) >= k
    BY <1>1
  <2>2. Cardinality((k + 1)..Len(s)) = IF k + 1 > Len(s) THEN 0 ELSE Len(s) - (k + 1) + 1
    BY <2>1, FS_Interval
  <2>3. (IF k + 1 > Len(s) THEN 0 ELSE Len(s) - (k + 1) + 1) = Len(s) - k
    BY <1>1, <2>1
  <2>4. Cardinality(kept) = Cardinality((k + 1)..Len(s))
    BY <1>1
  <2> HIDE DEF kept
  <2> QED
    BY <2>2, <2>3, <2>4
<1>4. Without(s, t) = [n \in 1..Cardinality(kept) |-> s[CHOOSE i \in kept : Rank(i) = n]]
  BY DEF Without
<1> HIDE DEF Rank, kept
<1>5. \A n \in 1..(Len(s) - k) : (CHOOSE i \in kept : Rank(i) = n) = n + k
  <2> SUFFICES ASSUME NEW n \in 1..(Len(s) - k) PROVE (CHOOSE i \in kept : Rank(i) = n) = n + k
    OBVIOUS
  <2>1. n + k \in kept /\ Rank(n + k) = n
    BY <1>1, <1>2
  <2>2. \A i \in kept : Rank(i) = n => i = n + k
    BY <1>1, <1>2
  <2> QED
    BY <2>1, <2>2
<1> QED
  BY <1>3, <1>4, <1>5

\* With nothing but its source listed for a compilation, and no source that
\* includes itself, keys are made in one order.
THEOREM SourceAlone ==
  ASSUME \A a \in Compile : Static[a] = <<SourceOf[a]>>,
         \A a \in Compile, e \in 0..MaxEdits : SourceOf[a] \notin ToSet(Includes[SourceOf[a]][e])
  PROVE  ListedFirst
<1> SUFFICES ASSUME NEW a \in Compile, NEW e \in 0..MaxEdits,
                    NEW known \in DepfilesOf(a) \cup {<<>>}
             PROVE  LET list == <<SourceOf[a]>> \o Includes[SourceOf[a]][e]
                        static == Without(Static[a], known)
                    IN  static \o Without(list, static)
                          = Static[a] \o Without(list, Static[a])
  BY DEF ListedFirst
<1> DEFINE src == SourceOf[a]
           rest == Includes[src][e]
           list == <<src>> \o rest
           one == <<src>>
           none == <<>>
<1>1. src \in File /\ rest \in Seq(File) /\ list \in Seq(File) /\ <<src>> \in Seq(File)
      /\ Static[a] = <<src>> /\ Len(list) = Len(rest) + 1 /\ Len(rest) \in Nat /\ list[1] = src
      /\ \A i \in 1..Len(rest) : list[i + 1] = rest[i]
  <2>1. src \in File /\ rest \in Seq(File)
    BY TreeAssumption
  <2> QED
    BY <2>1
<1>2. ToSet(<<>>) = {} /\ ToSet(<<src>>) = {src}
  BY DEF ToSet
<1>3. CASE known = <<>>
  <2>1. Without(<<src>>, <<>>) = [n \in 1..1 |-> <<src>>[n]]
    <3>1. Without(one, none) = [n \in 1..(Len(one) - 0) |-> one[n + 0]]
      <4>1. \A i \in 1..Len(one) : one[i] \notin ToSet(none) <=> i > 0
        BY <1>2
      <4>2. 0 \in 0..Len(one) /\ one \in Seq(File)
        BY <1>1
      <4> HIDE DEF one, none
      <4> QED
        BY ONLY <4>1, <4>2, WithoutFirst
    <3> QED
      BY <1>1, <3>1
  <2>2. [n \in 1..1 |-> <<src>>[n]] = <<src>>
    OBVIOUS
  <2> QED
    BY <1>1, <1>3, <2>1, <2>2
<1>4. CASE known \in DepfilesOf(a)
  <2>1. src \in ToSet(known)
    <3>1. PICK d \in 0..MaxEdits : known = <<src>> \o Includes[src][d]
      BY <1>4 DEF DepfilesOf
    <3>2. Includes[src][d] \in Seq(File)
      BY TreeAssumption
    <3>3. 1 \in DOMAIN known /\ known[1] = src
      BY <1>1, <3>1, <3>2
    <3> QED
      BY <3>3 DEF ToSet
  <2>2. Without(<<src>>, known) = <<>>
    <3>1. Without(one, known) = [n \in 1..(Len(one) - 1) |-> one[n + 1]]
      <4>1. \A i \in 1..Len(one) : one[i] \notin ToSet(known) <=> i > 1
        BY <2>1
      <4>2. 1 \in 0..Len(one) /\ one \in Seq(File)
        BY <1>1
      <4> HIDE DEF one
      <4> QED
        BY ONLY <4>1, <4>2, WithoutFirst
    <3> QED
      BY <3>1
  <2>3. Without(list, <<>>) = list
    <3>1. \A i \in 1..Len(list) : list[i] \notin ToSet(<<>>) <=> i > 0
      BY <1>1, <1>2
    <3> HIDE DEF list
    <3>2. Without(list, <<>>) = [n \in 1..(Len(list) - 0) |-> list[n + 0]]
      <4>1. 0 \in 0..Len(list)
        BY <1>1
      <4> QED
        BY ONLY <1>1, <3>1, <4>1, WithoutFirst
    <3> QED
      BY <1>1, <3>2
  <2>4. Without(list, <<src>>) = rest
    <3>1. \A i \in 1..Len(list) : list[i] \notin ToSet(<<src>>) <=> i > 1
      <4>1. src \notin ToSet(rest)
        OBVIOUS
      <4>2. \A i \in 1..Len(rest) : rest[i] # src
        BY <1>1, <4>1 DEF ToSet
      <4> HIDE DEF list, rest
      <4>3. ASSUME NEW i \in 1..Len(list), i > 1 PROVE list[i] # src
        <5>1. i - 1 \in 1..Len(rest) /\ i = (i - 1) + 1
          BY <1>1, <4>3
        <5> QED
          BY <1>1, <4>2, <5>1
      <4> QED
        BY <1>1, <1>2, <4>3
    <3> HIDE DEF list, rest
    <3>2. Without(list, one) = [n \in 1..(Len(list) - 1) |-> list[n + 1]]
      <4>1. 1 \in 0..Len(list) /\ list \in Seq(File)
        BY <1>1
      <4>2. \A i \in 1..Len(list) : list[i] \notin ToSet(one) <=> i > 1
        BY <3>1
      <4> HIDE DEF one
      <4> QED
        BY ONLY <4>1, <4>2, WithoutFirst
    <3> QED
      BY <1>1, <3>2
  <2> HIDE DEF list, rest
  <2>5. <<>> \o Without(list, <<>>) = <<src>> \o Without(list, <<src>>)
    <3>1. <<>> \o list = list
      BY <1>1
    <3>2. list = <<src>> \o rest
      BY DEF list
    <3> QED
      BY <2>3, <2>4, <3>1, <3>2
  <2> QED
    BY <1>1, <2>2, <2>5 DEF list, rest
<1> QED
  BY <1>3, <1>4
=============================================================================
