--------------------------- MODULE SchedulerProofs ---------------------------
(***************************************************************************)
(* Theorems about Scheduler, for every set of nodes, every dependency      *)
(* graph and every number of slots.                                        *)
(***************************************************************************)
EXTENDS Scheduler, FiniteSetTheorems, SequenceTheorems, TLAPS

-----------------------------------------------------------------------------
\* The ready queue.

NoRepeats(q) == \A i, j \in 1..Len(q) : q[i] = q[j] => i = j

LEMMA QueueElements ==
  ASSUME NEW q \in Seq(Node)
  PROVE  /\ Len(q) \in Nat
         /\ ToSet(q) = {q[i] : i \in 1..Len(q)}
         /\ ToSet(q) \subseteq Node
<1>1. Len(q) \in Nat /\ DOMAIN q = 1..Len(q) /\ q \in [1..Len(q) -> Node]
  BY LenProperties
<1> QED
  BY <1>1 DEF ToSet

\* An order of a finite set is a sequence that holds each element once.
LEMMA OrderOfSet ==
  ASSUME NEW S, IsFiniteSet(S), NEW s \in SetToSeqs(S)
  PROVE  /\ s \in Seq(S)
         /\ ToSet(s) = S
         /\ NoRepeats(s)
<1> DEFINE D == 1..Cardinality(S)
<1>1. Cardinality(S) \in Nat
  BY FS_CardinalityType
<1>2. s \in [D -> S] /\ \A i, j \in D : i # j => s[i] # s[j]
  BY DEF SetToSeqs
<1>3. s \in Seq(S) /\ Len(s) = Cardinality(S)
  BY <1>1, <1>2
<1>4. s \in Injection(D, S)
  BY <1>2 DEF Injection, IsInjective
<1>5. Cardinality(D) = Cardinality(S)
  BY <1>1, FS_Interval
<1>6. s \in Surjection(D, S)
  BY <1>4, <1>5, FS_Injection
<1>7. ToSet(s) = S
  BY <1>2, <1>6 DEF ToSet, Surjection
<1> QED
  BY <1>2, <1>3, <1>7 DEF NoRepeats

\* Appending elements that are not queued yet keeps the queue free of repeats.
LEMMA QueueAppend ==
  ASSUME NEW q \in Seq(Node), NEW s \in Seq(Node),
         NoRepeats(q), NoRepeats(s),
         ToSet(q) \cap ToSet(s) = {}
  PROVE  /\ q \o s \in Seq(Node)
         /\ ToSet(q \o s) = ToSet(q) \cup ToSet(s)
         /\ NoRepeats(q \o s)
<1>0. Len(q) \in Nat /\ Len(s) \in Nat
  BY QueueElements
<1>1. /\ q \o s \in Seq(Node)
      /\ Len(q \o s) = Len(q) + Len(s)
      /\ \A i \in 1..(Len(q) + Len(s)) :
            (q \o s)[i] = IF i <= Len(q) THEN q[i] ELSE s[i - Len(q)]
  BY ConcatProperties
<1>2. \A i \in 1..Len(q) : q[i] \in ToSet(q)
  BY QueueElements
<1>3. \A i \in 1..Len(s) : s[i] \in ToSet(s)
  BY QueueElements
<1>4. ToSet(q \o s) = ToSet(q) \cup ToSet(s)
  <2>1. \A i \in 1..Len(q) : i \in 1..(Len(q) + Len(s)) /\ (q \o s)[i] = q[i]
    BY <1>1
  <2>2. \A i \in 1..Len(s) : /\ i + Len(q) \in 1..(Len(q) + Len(s))
                             /\ (q \o s)[i + Len(q)] = s[i]
    BY <1>1
  <2>3. /\ ToSet(q) = {q[i] : i \in 1..Len(q)}
        /\ ToSet(s) = {s[i] : i \in 1..Len(s)}
        /\ ToSet(q \o s) = {(q \o s)[i] : i \in 1..(Len(q) + Len(s))}
    BY <1>1, QueueElements
  <2>4. ASSUME NEW i \in 1..(Len(q) + Len(s))
        PROVE  (q \o s)[i] \in ToSet(q) \cup ToSet(s)
    <3>1. CASE i <= Len(q)
      BY <1>1, <1>2, <3>1
    <3>2. CASE i > Len(q)
      <4>1. i - Len(q) \in 1..Len(s) /\ (q \o s)[i] = s[i - Len(q)]
        BY <1>1, <3>2
      <4> QED
        BY <1>3, <4>1
    <3> QED
      BY <1>0, <3>1, <3>2
  <2>5. ToSet(q \o s) \subseteq ToSet(q) \cup ToSet(s)
    BY <2>3, <2>4
  <2>6. ToSet(q) \subseteq ToSet(q \o s)
    BY <2>1, <2>3
  <2>7. ToSet(s) \subseteq ToSet(q \o s)
    <3> SUFFICES ASSUME NEW i \in 1..Len(s)
                 PROVE  s[i] \in ToSet(q \o s)
      BY <2>3
    <3> QED
      BY <2>2, <2>3
  <2> QED
    BY <2>5, <2>6, <2>7
<1>5. ASSUME NEW i \in 1..Len(q \o s), NEW j \in 1..Len(q \o s),
             (q \o s)[i] = (q \o s)[j]
      PROVE  i = j
  <2>1. CASE i <= Len(q) /\ j <= Len(q)
    BY <1>1, <1>5, <2>1 DEF NoRepeats
  <2>2. CASE i > Len(q) /\ j > Len(q)
    <3>1. i - Len(q) \in 1..Len(s) /\ j - Len(q) \in 1..Len(s)
      BY <1>1, <2>2
    <3>2. s[i - Len(q)] = s[j - Len(q)]
      BY <1>1, <1>5, <2>2
    <3> QED
      BY <3>1, <3>2 DEF NoRepeats
  <2>3. CASE i <= Len(q) /\ j > Len(q)
    <3>1. q[i] \in ToSet(q) /\ s[j - Len(q)] \in ToSet(s)
      BY <1>1, <1>2, <1>3, <2>3
    <3> QED
      BY <1>1, <1>5, <2>3, <3>1
  <2>4. CASE i > Len(q) /\ j <= Len(q)
    <3>1. s[i - Len(q)] \in ToSet(s) /\ q[j] \in ToSet(q)
      BY <1>1, <1>2, <1>3, <2>4
    <3> QED
      BY <1>1, <1>5, <2>4, <3>1
  <2> QED
    BY <1>1, <2>1, <2>2, <2>3, <2>4
<1> QED
  BY <1>1, <1>4, <1>5 DEF NoRepeats

\* Popping the head of a queue without repeats removes just that element.
LEMMA QueuePop ==
  ASSUME NEW q \in Seq(Node), q # <<>>, NoRepeats(q)
  PROVE  /\ Head(q) \in Node
         /\ Tail(q) \in Seq(Node)
         /\ Head(q) \in ToSet(q)
         /\ ToSet(Tail(q)) = ToSet(q) \ {Head(q)}
         /\ NoRepeats(Tail(q))
<1>1. /\ Head(q) \in Node
      /\ Tail(q) \in Seq(Node)
      /\ Len(Tail(q)) = Len(q) - 1
      /\ \A i \in 1..Len(Tail(q)) : Tail(q)[i] = q[i + 1]
  BY HeadTailProperties
<1>2. Len(q) \in Nat \ {0} /\ Head(q) = q[1]
  BY EmptySeq, LenProperties
<1>3. \A i \in 1..Len(Tail(q)) : i + 1 \in 2..Len(q)
  BY <1>1, <1>2
<1>4. \A i \in 2..Len(q) : i - 1 \in 1..Len(Tail(q)) /\ Tail(q)[i - 1] = q[i]
  BY <1>1, <1>2
<1>5. /\ ToSet(q) = {q[i] : i \in 1..Len(q)}
      /\ ToSet(Tail(q)) = {Tail(q)[i] : i \in 1..Len(Tail(q))}
  BY <1>1, QueueElements
<1>6. ToSet(Tail(q)) \subseteq ToSet(q) \ {Head(q)}
  <2> SUFFICES ASSUME NEW i \in 1..Len(Tail(q))
               PROVE  Tail(q)[i] \in ToSet(q) /\ Tail(q)[i] # Head(q)
    BY <1>5
  <2>1. i + 1 \in 1..Len(q) /\ i + 1 # 1 /\ Tail(q)[i] = q[i + 1]
    BY <1>1, <1>2, <1>3
  <2>2. 1 \in 1..Len(q)
    BY <1>2
  <2> QED
    BY <1>2, <1>5, <2>1, <2>2 DEF NoRepeats
<1>7. ToSet(q) \ {Head(q)} \subseteq ToSet(Tail(q))
  <2>1. ASSUME NEW i \in 1..Len(q), q[i] # Head(q)
        PROVE  q[i] \in ToSet(Tail(q))
    <3>1. i \in 2..Len(q)
      BY <1>2, <2>1
    <3> QED
      BY <1>4, <1>5, <3>1
  <2> QED
    BY <1>5, <2>1
<1>8. NoRepeats(Tail(q))
  BY <1>1, <1>2, <1>3 DEF NoRepeats
<1> QED
  BY <1>1, <1>2, <1>5, <1>6, <1>7, <1>8

\* Putting a node back at the end of the queue.
LEMMA QueuePutBack ==
  ASSUME NEW q \in Seq(Node), NoRepeats(q), NEW n \in Node, n \notin ToSet(q)
  PROVE  /\ Append(q, n) \in Seq(Node)
         /\ ToSet(Append(q, n)) = ToSet(q) \cup {n}
         /\ NoRepeats(Append(q, n))
<1> DEFINE s == <<n>>
<1>1. s \in Seq(Node) /\ Len(s) = 1 /\ s[1] = n
  OBVIOUS
<1>2. ToSet(s) = {n} /\ NoRepeats(s)
  BY <1>1 DEF ToSet, NoRepeats
<1>3. Append(q, n) = q \o s
  BY AppendIsConcat
<1> HIDE DEF s
<1> QED
  BY <1>1, <1>2, <1>3, QueueAppend

-----------------------------------------------------------------------------
(***************************************************************************)
(* The inductive invariant.  A pending node counts the dependencies that   *)
(* are not done; the queue, with the node being handled, holds exactly the *)
(* ready nodes; the slots hold exactly the running ones; only a running    *)
(* node has a live child.                                                  *)
(***************************************************************************)
Waiting(n) == {d \in deps[n] : state[d] # "DONE"}

CountOK ==
    \A n \in Node : IF state[n] = "PENDING"
                    THEN remaining[n] = Cardinality(Waiting(n)) /\ remaining[n] # 0
                    ELSE Waiting(n) = {}

CompletedOK == completed = Cardinality(DoneNodes)

ReadyNodes == {n \in Node : state[n] = "READY"}

CurOK == cur # None <=> phase = "node"

QueueOK ==
    phase \notin Ended =>
      /\ NoRepeats(ready)
      /\ ToSet(ready) \cup ({cur} \ {None}) = ReadyNodes
      /\ cur \notin ToSet(ready)

ChildOK ==
    \A n \in Node : /\ state[n] \in {"PENDING", "READY"} => proc[n] = "absent"
                    /\ proc[n] \in Alive => phase \notin Ended /\ state[n] = "RUNNING"

EndOK ==
    /\ phase \in {"flush", "ok"} => DoneNodes = Node /\ active = 0
    /\ phase = "stalled" => Knot(Node \ DoneNodes)

WaitOK == phase = "poll" /\ ~progressed => ready = <<>> \/ active = Jobs

GraphOK == deps \in Graphs

IInv ==
    /\ TypeOK /\ GraphOK /\ CountOK /\ CompletedOK /\ CurOK /\ QueueOK
    /\ SlotsAgree /\ ChildOK /\ EndOK /\ WaitOK

-----------------------------------------------------------------------------
\* Consequences of the invariant that the steps share.

LEMMA FiniteParts ==
  ASSUME TypeOK
  PROVE  /\ IsFiniteSet(Slot) /\ Cardinality(Slot) = Jobs
         /\ \A S \in SUBSET Slot : IsFiniteSet(S) /\ Cardinality(S) \in Nat
         /\ \A S \in SUBSET Node : IsFiniteSet(S) /\ Cardinality(S) \in Nat
         /\ \A n \in Node : Waiting(n) \subseteq Node /\ IsFiniteSet(Waiting(n))
<1>1. IsFiniteSet(Slot) /\ Cardinality(Slot) = Jobs
  BY JobsAssumption, FS_Interval DEF Slot
<1>2. \A S \in SUBSET Slot : IsFiniteSet(S) /\ Cardinality(S) \in Nat
  BY <1>1, FS_Subset, FS_CardinalityType
<1>3. \A S \in SUBSET Node : IsFiniteSet(S) /\ Cardinality(S) \in Nat
  BY NodeAssumption, FS_Subset, FS_CardinalityType
<1>4. \A n \in Node : Waiting(n) \subseteq Node
  BY DEF TypeOK, Waiting
<1> QED
  BY <1>1, <1>2, <1>3, <1>4

\* The count of started children tells whether a slot is taken, and which.
LEMMA CountTellsBusy ==
  ASSUME TypeOK, SlotsAgree, phase \notin Ended
  PROVE  /\ active = 0 <=> BusySlots = {}
         /\ \A i \in BusySlots : active - 1 = Cardinality(BusySlots \ {i})
         /\ \A i \in BusySlots : active - 1 = 0 <=> BusySlots = {i}
         /\ FreeSlots # {} => active < Jobs
<1>1. BusySlots \subseteq Slot /\ FreeSlots = Slot \ BusySlots
  BY DEF BusySlots, FreeSlots
<1>2. IsFiniteSet(BusySlots) /\ active = Cardinality(BusySlots)
  BY <1>1, FiniteParts DEF SlotsAgree
<1>3. active = 0 <=> BusySlots = {}
  BY <1>2, FS_EmptySet
<1>4. ASSUME NEW i \in BusySlots
      PROVE  /\ active - 1 = Cardinality(BusySlots \ {i})
             /\ active - 1 = 0 <=> BusySlots = {i}
  <2>1. IsFiniteSet(BusySlots \ {i}) /\ Cardinality(BusySlots \ {i}) = active - 1
    BY <1>2, FS_RemoveElement
  <2>2. Cardinality(BusySlots \ {i}) = 0 <=> BusySlots \ {i} = {}
    BY <2>1, FS_EmptySet
  <2> QED
    BY <2>1, <2>2
<1>5. ASSUME FreeSlots # {}
      PROVE  active < Jobs
  <2>1. IsFiniteSet(Slot) /\ Cardinality(Slot) = Jobs
    BY FiniteParts
  <2>2. BusySlots # Slot
    BY <1>1, <1>5
  <2>3. Cardinality(BusySlots) <= Cardinality(Slot)
        /\ (Cardinality(BusySlots) = Cardinality(Slot) => BusySlots = Slot)
    BY <1>1, <2>1, FS_Subset
  <2>4. active \in Nat /\ Jobs \in Nat
    BY JobsAssumption DEF TypeOK
  <2> QED
    BY <1>2, <2>1, <2>2, <2>3, <2>4
<1> QED
  BY <1>3, <1>4, <1>5

\* Completing a node that was handled or collected keeps the dependency counts
\* right: what is released has nothing left to wait for.
LEMMA Completing ==
  ASSUME TypeOK, CountOK, CompletedOK, NEW n \in Node,
         state[n] \in {"READY", "RUNNING"}, CompleteNode(n)
  PROVE  /\ state' \in [Node -> States]
         /\ remaining' \in [Node -> Nat]
         /\ completed' \in Nat
         /\ CountOK'
         /\ CompletedOK'
         /\ Released(n) \subseteq {m \in Node : state[m] = "PENDING"}
         /\ \A m \in Node : state'[m] = (IF m = n THEN "DONE"
                              ELSE IF m \in Released(n) THEN "READY" ELSE state[m])
<1>1. Released(n) \subseteq {m \in Node : state[m] = "PENDING"}
  BY DEF Released, Dependents
<1>2. \A m \in Node : state'[m] = (IF m = n THEN "DONE"
                              ELSE IF m \in Released(n) THEN "READY" ELSE state[m])
  BY DEF CompleteNode
<1>3. state' \in [Node -> States] /\ remaining' \in [Node -> Nat]
  BY DEF CompleteNode, TypeOK, States
<1>4. \A m \in Node : Waiting(m)' = Waiting(m) \ {n}
  BY <1>1, <1>2 DEF Waiting, CompleteNode, TypeOK
<1>5. ASSUME NEW m \in Node
      PROVE  IF state'[m] = "PENDING"
             THEN remaining'[m] = Cardinality(Waiting(m)') /\ remaining'[m] # 0
             ELSE Waiting(m)' = {}
  <2>1. CASE state[m] # "PENDING"
    BY <1>1, <1>2, <1>4, <2>1 DEF CountOK
  <2>2. CASE state[m] = "PENDING" /\ n \notin deps[m]
    <3>1. m \notin Dependents(n) /\ m \notin Released(n) /\ m # n /\ n \notin Waiting(m)
      BY <2>2 DEF Dependents, Released, Waiting
    <3>2. state'[m] = state[m] /\ remaining'[m] = remaining[m] /\ Waiting(m)' = Waiting(m)
      BY <1>2, <1>4, <3>1 DEF CompleteNode
    <3> QED
      BY <2>2, <3>2 DEF CountOK
  <2>3. CASE state[m] = "PENDING" /\ n \in deps[m]
    <3>1. m \in Dependents(n) /\ m # n /\ n \in Waiting(m)
      BY <2>3 DEF Dependents, Waiting
    <3>2. remaining[m] = Cardinality(Waiting(m)) /\ remaining[m] \in Nat \ {0}
      BY <2>3 DEF CountOK, TypeOK
    <3>3. IsFiniteSet(Waiting(m)')
          /\ Cardinality(Waiting(m)') = remaining[m] - 1
      BY <1>4, <3>1, <3>2, FiniteParts, FS_RemoveElement
    <3>4. remaining'[m] = remaining[m] - 1
      BY <3>1, <3>2 DEF CompleteNode
    <3>5. CASE remaining[m] <= 1
      <4>1. m \in Released(n) /\ state'[m] = "READY"
        BY <1>2, <3>1, <3>5 DEF Released
      <4>2. Cardinality(Waiting(m)') = 0
        BY <3>2, <3>3, <3>5
      <4> QED
        BY <3>3, <4>1, <4>2, FS_EmptySet
    <3>6. CASE remaining[m] > 1
      <4>1. m \notin Released(n)
        BY <3>2, <3>6 DEF Released
      <4> QED
        BY <1>2, <2>3, <3>1, <3>2, <3>3, <3>4, <3>6, <4>1
    <3> QED
      BY <3>2, <3>5, <3>6
  <2> QED
    BY <2>1, <2>2, <2>3
<1>6. CountOK'
  BY <1>5 DEF CountOK
<1>7. completed' \in Nat /\ CompletedOK'
  <2>1. DoneNodes' = DoneNodes \cup {n} /\ n \notin DoneNodes
    BY <1>1, <1>2 DEF DoneNodes
  <2>2. IsFiniteSet(DoneNodes)
    BY FiniteParts DEF DoneNodes
  <2>3. Cardinality(DoneNodes') = completed + 1
    BY <2>1, <2>2, FS_AddElement DEF CompletedOK
  <2> QED
    BY <2>3 DEF CompleteNode, CompletedOK, TypeOK
<1> QED
  BY <1>1, <1>2, <1>3, <1>6, <1>7

\* The released nodes join the queue.
LEMMA CompletingQueue ==
  ASSUME TypeOK, NEW n \in Node, CompleteNode(n), NoRepeats(ready),
         \A m \in ToSet(ready) : state[m] = "READY"
  PROVE  /\ ready' \in Seq(Node)
         /\ NoRepeats(ready')
         /\ ToSet(ready') = ToSet(ready) \cup Released(n)
<1>1. Released(n) \subseteq Node /\ IsFiniteSet(Released(n))
  BY FiniteParts DEF Released, Dependents
<1>2. PICK s \in SetToSeqs(Released(n)) : ready' = ready \o s
  BY DEF CompleteNode
<1>3. s \in Seq(Released(n)) /\ ToSet(s) = Released(n) /\ NoRepeats(s)
  BY <1>1, OrderOfSet
<1>4. s \in Seq(Node)
  BY <1>1, <1>3
<1>5. ToSet(ready) \cap ToSet(s) = {}
  BY <1>3 DEF Released, Dependents
<1> QED
  BY <1>2, <1>3, <1>4, <1>5, QueueAppend DEF TypeOK

-----------------------------------------------------------------------------
\* The invariant holds initially.

LEMMA InitInvariant == Init => IInv
<1> SUFFICES ASSUME Init PROVE IInv
  OBVIOUS
<1> DEFINE Roots == {n \in Node : deps[n] = {}}
<1>1. deps \in [Node -> SUBSET Node] /\ GraphOK
  BY GraphsAssumption DEF Init, GraphOK
<1>2. \A n \in Node : IsFiniteSet(deps[n]) /\ Cardinality(deps[n]) \in Nat
  BY <1>1, NodeAssumption, FS_Subset, FS_CardinalityType
<1>3. ready \in Seq(Roots) /\ ToSet(ready) = Roots /\ NoRepeats(ready)
  <2>1. IsFiniteSet(Roots)
    BY NodeAssumption, FS_Subset
  <2>2. ready \in SetToSeqs(Roots)
    BY DEF Init
  <2> QED
    BY <2>1, <2>2, OrderOfSet
<1>4. \A n \in Node : state[n] = IF deps[n] = {} THEN "READY" ELSE "PENDING"
  BY DEF Init
<1>5. BusySlots = {} /\ Cardinality(BusySlots) = 0
  BY FS_EmptySet DEF Init, BusySlots
<1>6. DoneNodes = {} /\ Cardinality(DoneNodes) = 0
  BY <1>4, FS_EmptySet DEF DoneNodes
<1>7. TypeOK
  <2>1. ready \in Seq(Node)
    BY <1>3
  <2>2. /\ state \in [Node -> States] /\ remaining \in [Node -> Nat]
        /\ proc \in [Node -> ProcStates] /\ slot \in [Slot -> Node \cup {None}]
    BY <1>2 DEF Init, States, ProcStates
  <2>3. 0 \in 0..Jobs /\ 1 \in 1..(Jobs + 1) /\ 0 \in Nat
    BY JobsAssumption
  <2>4. phase \in Phases
    BY DEF Init, Phases
  <2>5. active \in 0..Jobs /\ completed \in Nat /\ scan \in 1..(Jobs + 1)
    BY <2>3 DEF Init
  <2>6. cur \in Node \cup {None} /\ progressed \in BOOLEAN
    BY DEF Init
  <2> QED
    BY <1>1, <2>1, <2>2, <2>4, <2>5, <2>6 DEF TypeOK
<1>8. CountOK
  <2> SUFFICES ASSUME NEW n \in Node
               PROVE  IF state[n] = "PENDING"
                      THEN remaining[n] = Cardinality(Waiting(n)) /\ remaining[n] # 0
                      ELSE Waiting(n) = {}
    BY DEF CountOK
  <2>1. Waiting(n) = deps[n]
    BY <1>1, <1>4 DEF Waiting
  <2>2. remaining[n] = Cardinality(deps[n])
    BY DEF Init
  <2>3. Cardinality(deps[n]) = 0 <=> deps[n] = {}
    BY <1>2, FS_EmptySet
  <2> QED
    BY <1>4, <2>1, <2>2, <2>3
<1>9. CompletedOK /\ CurOK /\ WaitOK
  BY <1>6 DEF Init, CompletedOK, CurOK, WaitOK
<1>10. QueueOK
  <2>1. ReadyNodes = Roots /\ cur = None /\ None \notin Node
    BY <1>4, NodeAssumption DEF Init, ReadyNodes
  <2> QED
    BY <1>3, <2>1 DEF QueueOK
<1>11. SlotsAgree
  <2>1. \A n \in Node : state[n] # "RUNNING" /\ ~ \E i \in Slot : slot[i] = n
    BY <1>4, NodeAssumption DEF Init
  <2> QED
    BY <1>5, <2>1 DEF Init, SlotsAgree
<1>12. ChildOK
  BY DEF Init, ChildOK, Alive
<1>13. EndOK
  BY <1>6 DEF Init, EndOK
<1> QED
  BY <1>1, <1>7, <1>8, <1>9, <1>10, <1>11, <1>12, <1>13 DEF IInv

-----------------------------------------------------------------------------
\* Leaving the loop: when the victims are all the live children, none of them
\* is left and nothing else is disturbed.
LEMMA Leaving ==
  ASSUME IInv, phase \notin Ended, NEW victims, NEW how \in {"failed", "stalled"},
         Abort(victims, how),
         \A n \in Node : proc[n] \in Alive => n \in victims,
         \A n \in Node : n \in victims => state[n] = "RUNNING",
         how = "stalled" => Knot(Node \ DoneNodes)
  PROVE  IInv'
<1> USE DEF Ended
<1>1. UNCHANGED <<deps, state, remaining, ready, active, completed, progressed, scan>>
  BY DEF Abort, graphVars, loopVars
<1>2. phase' = how /\ cur' = None /\ slot' = [i \in Slot |-> None]
  BY DEF Abort
<1>3. \A n \in Node : proc'[n] = IF n \in victims THEN "terminated" ELSE proc[n]
  BY DEF Abort
<1>4. TypeOK'
  <2>1. proc' \in [Node -> ProcStates]
    BY DEF Abort, IInv, TypeOK, ProcStates
  <2> QED
    BY <1>1, <1>2, <2>1 DEF IInv, TypeOK, Phases
<1>5. GraphOK' /\ CountOK' /\ CompletedOK'
  BY <1>1 DEF IInv, GraphOK, CountOK, CompletedOK, Waiting, DoneNodes
<1>6. CurOK' /\ QueueOK' /\ SlotsAgree' /\ WaitOK'
  BY <1>2 DEF CurOK, QueueOK, SlotsAgree, WaitOK
<1>7. ChildOK'
  BY <1>1, <1>3 DEF IInv, ChildOK, Alive
<1>8. EndOK'
  BY <1>1, <1>2 DEF EndOK, DoneNodes, Knot
<1> QED
  BY <1>4, <1>5, <1>6, <1>7, <1>8 DEF IInv

\* cancel_running_actions reaches every live child.
LEMMA VictimsAreTheLiving ==
  ASSUME IInv, phase \notin Ended
  PROVE  /\ \A n \in Node : proc[n] \in Alive => n \in Victims(slot, active)
         /\ \A n \in Node : n \in Victims(slot, active) => state[n] = "RUNNING"
<1>1. TypeOK /\ SlotsAgree /\ ChildOK
  BY DEF IInv
<1>2. active = 0 <=> BusySlots = {}
  BY <1>1, CountTellsBusy
<1>3. active \in Nat
  BY <1>1, JobsAssumption DEF TypeOK
<1>4. ASSUME NEW n \in Node, proc[n] \in Alive
      PROVE  n \in Victims(slot, active)
  <2>1. PICK i \in Slot : slot[i] = n
    BY <1>1, <1>4 DEF ChildOK, SlotsAgree
  <2>2. i \in BusySlots /\ n # None
    BY <2>1, NodeAssumption DEF BusySlots
  <2> QED
    BY <1>2, <1>3, <2>1, <2>2 DEF Victims
<1>5. ASSUME NEW n \in Node, n \in Victims(slot, active)
      PROVE  state[n] = "RUNNING"
  BY <1>1, <1>5 DEF Victims, SlotsAgree
<1> QED
  BY <1>4, <1>5

-----------------------------------------------------------------------------
\* Every step keeps the invariant.

LEMMA TakeKeeps == IInv /\ Take => IInv'
<1> SUFFICES ASSUME IInv, Take PROVE IInv'
  OBVIOUS
<1> USE DEF Ended
<1>1. TypeOK /\ QueueOK /\ phase = "drain" /\ cur = None /\ ready # <<>>
  BY DEF IInv, Take, CurOK
<1>2. /\ Head(ready) \in Node /\ Head(ready) \in ToSet(ready)
      /\ ready' \in Seq(Node) /\ NoRepeats(ready')
      /\ ToSet(ready') = ToSet(ready) \ {Head(ready)}
  BY <1>1, QueuePop DEF TypeOK, QueueOK, Take
<1>3. state[Head(ready)] = "READY"
  BY <1>1, <1>2 DEF QueueOK, ReadyNodes
<1>4. phase' = "node" /\ cur' = Head(ready) /\ cur' # None
  BY <1>2, <1>3, NodeAssumption DEF Take
<1>5. UNCHANGED <<deps, state, remaining, slot, active, completed, progressed, scan, proc>>
  BY DEF Take, loopVars
<1>6. TypeOK'
  BY <1>1, <1>2, <1>4, <1>5 DEF TypeOK, Phases
<1>7. GraphOK' /\ CountOK' /\ CompletedOK'
  BY <1>5 DEF IInv, GraphOK, CountOK, CompletedOK, Waiting, DoneNodes
<1>8. CurOK' /\ WaitOK' /\ EndOK'
  BY <1>4 DEF CurOK, WaitOK, EndOK
<1>9. QueueOK'
  BY <1>1, <1>2, <1>4, <1>5 DEF QueueOK, ReadyNodes
<1>10. SlotsAgree' /\ ChildOK'
  BY <1>1, <1>4, <1>5 DEF IInv, SlotsAgree, ChildOK, BusySlots, Alive
<1> QED
  BY <1>6, <1>7, <1>8, <1>9, <1>10 DEF IInv

LEMMA SettleKeeps == IInv /\ Settle => IInv'
<1> SUFFICES ASSUME IInv, Settle PROVE IInv'
  OBVIOUS
<1> USE DEF Ended
<1>1. /\ TypeOK /\ CountOK /\ CompletedOK /\ QueueOK /\ phase = "node"
      /\ cur \in Node /\ cur # None /\ state[cur] = "READY"
  BY DEF IInv, Settle, CurOK, QueueOK, ReadyNodes, TypeOK
<1>2. CompleteNode(cur) /\ cur' = None /\ phase' = "drain"
      /\ UNCHANGED <<deps, slot, active, scan, proc>> /\ progressed' = TRUE
  BY DEF Settle, CompleteNode
<1>3. /\ state' \in [Node -> States] /\ remaining' \in [Node -> Nat] /\ completed' \in Nat
      /\ CountOK' /\ CompletedOK'
      /\ Released(cur) \subseteq {m \in Node : state[m] = "PENDING"}
      /\ \A m \in Node : state'[m] = (IF m = cur THEN "DONE"
                           ELSE IF m \in Released(cur) THEN "READY" ELSE state[m])
  BY <1>1, <1>2, Completing
<1>4. \A m \in ToSet(ready) : m \in Node /\ m # cur /\ state[m] = "READY"
  BY <1>1 DEF QueueOK, ReadyNodes
<1>5. /\ ready' \in Seq(Node) /\ NoRepeats(ready')
      /\ ToSet(ready') = ToSet(ready) \cup Released(cur)
  BY <1>1, <1>2, <1>4, CompletingQueue DEF QueueOK
<1>6. TypeOK'
  BY <1>1, <1>2, <1>3, <1>5 DEF TypeOK, Phases
<1>7. GraphOK' /\ CurOK' /\ WaitOK' /\ EndOK'
  BY <1>2 DEF IInv, GraphOK, CurOK, WaitOK, EndOK
<1>8. QueueOK'
  <2>1. ToSet(ready') = {m \in Node : state'[m] = "READY"}
    <3>1. ToSet(ready) \cup {cur} = {m \in Node : state[m] = "READY"}
      BY <1>1 DEF QueueOK, ReadyNodes
    <3> QED
      BY <1>1, <1>3, <1>4, <1>5, <3>1
  <2> QED
    BY <1>2, <1>5, <2>1, NodeAssumption DEF QueueOK, ReadyNodes
<1>9. \A m \in Node : state'[m] = "RUNNING" <=> state[m] = "RUNNING"
  BY <1>1, <1>3
<1>10. SlotsAgree'
  BY <1>1, <1>2, <1>9 DEF IInv, SlotsAgree, BusySlots
<1>11. ChildOK'
  BY <1>1, <1>2, <1>3, <1>9 DEF IInv, ChildOK, Alive
<1> QED
  BY <1>3, <1>6, <1>7, <1>8, <1>10, <1>11 DEF IInv

LEMMA RequeueKeeps == IInv /\ Requeue => IInv'
<1> SUFFICES ASSUME IInv, Requeue PROVE IInv'
  OBVIOUS
<1> USE DEF Ended
<1>1. /\ TypeOK /\ QueueOK /\ phase = "node"
      /\ cur \in Node /\ cur # None /\ state[cur] = "READY"
  BY DEF IInv, Requeue, CurOK, QueueOK, ReadyNodes, TypeOK
<1>2. state' = state
  BY <1>1 DEF Requeue, TypeOK
<1>3. /\ ready' \in Seq(Node) /\ NoRepeats(ready')
      /\ ToSet(ready') = ToSet(ready) \cup {cur}
  BY <1>1, QueuePutBack DEF QueueOK, TypeOK, Requeue
<1>4. /\ cur' = None /\ phase' = "poll" /\ scan' = 1 /\ active = Jobs
      /\ UNCHANGED <<deps, remaining, slot, active, completed, progressed, proc>>
  BY <1>1, JobsAssumption DEF Requeue, TypeOK
<1>5. TypeOK'
  BY <1>1, <1>2, <1>3, <1>4, JobsAssumption DEF TypeOK, Phases
<1>6. GraphOK' /\ CountOK' /\ CompletedOK'
  BY <1>2, <1>4 DEF IInv, GraphOK, CountOK, CompletedOK, Waiting, DoneNodes
<1>7. CurOK' /\ WaitOK' /\ EndOK'
  BY <1>4 DEF CurOK, WaitOK, EndOK
<1>8. QueueOK'
  BY <1>1, <1>2, <1>3, <1>4, NodeAssumption DEF QueueOK, ReadyNodes
<1>9. SlotsAgree' /\ ChildOK'
  BY <1>1, <1>2, <1>4 DEF IInv, SlotsAgree, ChildOK, BusySlots, Alive
<1> QED
  BY <1>5, <1>6, <1>7, <1>8, <1>9 DEF IInv

LEMMA StartProcessKeeps == IInv /\ StartProcess => IInv'
<1> SUFFICES ASSUME IInv, StartProcess PROVE IInv'
  OBVIOUS
<1> USE DEF Ended
<1>1. /\ TypeOK /\ QueueOK /\ SlotsAgree /\ phase = "node"
      /\ cur \in Node /\ cur # None /\ state[cur] = "READY"
  BY DEF IInv, StartProcess, CurOK, QueueOK, ReadyNodes, TypeOK
<1>2. PICK i \in FreeSlots : slot' = [slot EXCEPT ![i] = cur]
  BY DEF StartProcess
<1>3. i \in Slot /\ slot[i] = None /\ i \notin BusySlots
  BY <1>2 DEF FreeSlots, BusySlots
<1>4. \A j \in Slot : slot'[j] = IF j = i THEN cur ELSE slot[j]
  BY <1>1, <1>2, <1>3 DEF TypeOK
<1>5. /\ cur' = None /\ phase' = "drain" /\ progressed' = TRUE
      /\ UNCHANGED <<deps, remaining, ready, completed, scan>>
      /\ active' = active + 1 /\ active < Jobs
  BY DEF StartProcess
<1>6. \A n \in Node : /\ state'[n] = IF n = cur THEN "RUNNING" ELSE state[n]
                      /\ proc'[n] = IF n = cur THEN "alive" ELSE proc[n]
  BY <1>1 DEF StartProcess, TypeOK
<1>7. TypeOK'
  <2>1. active + 1 \in 0..Jobs
    BY <1>1, <1>5, JobsAssumption DEF TypeOK
  <2>2. slot' \in [Slot -> Node \cup {None}]
    BY <1>1, <1>2 DEF TypeOK
  <2>3. state' \in [Node -> States] /\ proc' \in [Node -> ProcStates]
    BY <1>1 DEF TypeOK, StartProcess, States, ProcStates, Alive
  <2> QED
    BY <1>1, <1>5, <2>1, <2>2, <2>3 DEF TypeOK, Phases
<1>8. GraphOK' /\ CurOK' /\ WaitOK' /\ EndOK'
  BY <1>5 DEF IInv, GraphOK, CurOK, WaitOK, EndOK
<1>9. CountOK' /\ CompletedOK'
  <2>1. \A n \in Node : /\ state'[n] = "DONE" <=> state[n] = "DONE"
                        /\ state'[n] = "PENDING" <=> state[n] = "PENDING"
    BY <1>1, <1>6
  <2>2. \A n \in Node : Waiting(n)' = Waiting(n)
    BY <1>1, <1>5, <2>1 DEF Waiting, TypeOK
  <2>3. DoneNodes' = DoneNodes
    BY <2>1 DEF DoneNodes
  <2> QED
    BY <1>5, <2>1, <2>2, <2>3 DEF IInv, CountOK, CompletedOK
<1>10. QueueOK'
  <2>1. ReadyNodes' = ReadyNodes \ {cur}
    BY <1>1, <1>6 DEF ReadyNodes
  <2>2. NoRepeats(ready) /\ ToSet(ready) = ReadyNodes \ {cur}
    BY <1>1 DEF QueueOK
  <2>3. None \notin ReadyNodes
    BY NodeAssumption DEF ReadyNodes
  <2>4. NoRepeats(ready)' /\ ToSet(ready)' = ReadyNodes' /\ cur' = None
    BY <1>5, <2>1, <2>2
  <2> QED
    BY <2>1, <2>3, <2>4 DEF QueueOK
<1>11. SlotsAgree'
  <2>1. BusySlots' = BusySlots \cup {i}
    BY <1>1, <1>3, <1>4 DEF BusySlots
  <2>2. active' = Cardinality(BusySlots')
    <3>1. IsFiniteSet(BusySlots) /\ active = Cardinality(BusySlots)
      BY <1>1, FiniteParts DEF SlotsAgree, BusySlots
    <3> QED
      BY <1>3, <1>5, <2>1, <3>1, FS_AddElement
  <2>3. \A j \in Slot : slot[j] # cur
    BY <1>1 DEF SlotsAgree
  <2>4. \A j, k \in BusySlots' : slot'[j] = slot'[k] => j = k
    BY <1>1, <1>3, <1>4, <2>1, <2>3 DEF SlotsAgree, BusySlots
  <2>5. \A n \in Node : state'[n] = "RUNNING" <=> \E j \in Slot : slot'[j] = n
    BY <1>1, <1>3, <1>4, <1>6, NodeAssumption DEF SlotsAgree
  <2> QED
    BY <2>2, <2>4, <2>5 DEF SlotsAgree
<1>12. ChildOK'
  BY <1>1, <1>5, <1>6 DEF IInv, ChildOK, Alive
<1> QED
  BY <1>7, <1>8, <1>9, <1>10, <1>11, <1>12 DEF IInv

LEMMA PollSuccessKeeps == IInv /\ PollSuccess => IInv'
<1> SUFFICES ASSUME IInv, PollSuccess PROVE IInv'
  OBVIOUS
<1> USE DEF Ended
<1> DEFINE n == slot[scan]
<1>1. /\ TypeOK /\ CountOK /\ CompletedOK /\ QueueOK /\ SlotsAgree
      /\ phase = "poll" /\ cur = None /\ scan \in Slot
      /\ n \in Node /\ n # None /\ state[n] = "RUNNING" /\ proc[n] = "exit-ok"
  BY DEF IInv, PollSuccess, CurOK, SlotsAgree, TypeOK
<1>2. /\ CompleteNode(n) /\ progressed' = TRUE /\ scan' = Jobs + 1
      /\ slot' = [slot EXCEPT ![scan] = None] /\ active' = active - 1
      /\ UNCHANGED <<deps, cur, phase, proc>>
  BY DEF PollSuccess, Collect, CompleteNode
<1> HIDE DEF n
<1>3. /\ state' \in [Node -> States] /\ remaining' \in [Node -> Nat] /\ completed' \in Nat
      /\ CountOK' /\ CompletedOK'
      /\ Released(n) \subseteq {m \in Node : state[m] = "PENDING"}
      /\ \A m \in Node : state'[m] = (IF m = n THEN "DONE"
                           ELSE IF m \in Released(n) THEN "READY" ELSE state[m])
  BY <1>1, <1>2, Completing
<1>4. ToSet(ready) = {m \in Node : state[m] = "READY"} /\ NoRepeats(ready)
  BY <1>1 DEF QueueOK, ReadyNodes
<1>5. /\ ready' \in Seq(Node) /\ NoRepeats(ready')
      /\ ToSet(ready') = ToSet(ready) \cup Released(n)
  BY <1>1, <1>2, <1>4, CompletingQueue
<1>6. slot' \in [Slot -> Node \cup {None}]
      /\ \A i \in Slot : slot'[i] = IF i = scan THEN None ELSE slot[i]
  BY <1>1, <1>2 DEF TypeOK
<1>7. scan \in BusySlots /\ BusySlots' = BusySlots \ {scan}
  BY <1>1, <1>6 DEF BusySlots, n
<1>8. active - 1 = Cardinality(BusySlots \ {scan}) /\ Cardinality(BusySlots \ {scan}) \in Nat
  BY <1>1, <1>7, CountTellsBusy, FiniteParts DEF BusySlots
<1>9. TypeOK'
  <2>1. active \in 0..Jobs /\ Jobs \in Nat
    BY <1>1, JobsAssumption DEF TypeOK
  <2>2. active - 1 \in 0..Jobs /\ Jobs + 1 \in 1..(Jobs + 1)
    BY <1>8, <2>1
  <2>3. /\ deps' \in [Node -> SUBSET Node] /\ cur' \in Node \cup {None}
        /\ phase' \in Phases /\ proc' \in [Node -> ProcStates]
    BY <1>1, <1>2 DEF TypeOK
  <2> QED
    BY <1>2, <1>3, <1>5, <1>6, <2>2, <2>3 DEF TypeOK
<1>10. GraphOK' /\ CurOK' /\ WaitOK' /\ EndOK'
  BY <1>1, <1>2 DEF IInv, GraphOK, CurOK, WaitOK, EndOK
<1>11. QueueOK'
  <2>1. ReadyNodes' = ToSet(ready) \cup Released(n)
    BY <1>1, <1>3, <1>4 DEF ReadyNodes
  <2> QED
    BY <1>1, <1>2, <1>5, <2>1, NodeAssumption DEF QueueOK
<1>12. \A m \in Node : state'[m] = "RUNNING" <=> state[m] = "RUNNING" /\ m # n
  BY <1>1, <1>3
<1>13. SlotsAgree'
  <2>1. \A i, j \in BusySlots' : slot'[i] = slot'[j] => i = j
    BY <1>1, <1>6, <1>7 DEF SlotsAgree, BusySlots
  <2>2. ASSUME NEW m \in Node
        PROVE  state'[m] = "RUNNING" <=> \E i \in Slot : slot'[i] = m
    <3>1. CASE m = n
      <4>1. \A i \in Slot : slot[i] = n => i = scan
        BY <1>1, <1>7 DEF SlotsAgree, BusySlots, n
      <4> QED
        BY <1>1, <1>6, <1>12, <3>1, <4>1, NodeAssumption
    <3>2. CASE m # n
      BY <1>1, <1>6, <1>12, <3>2, NodeAssumption DEF SlotsAgree, n
    <3> QED
      BY <3>1, <3>2
  <2> QED
    BY <1>2, <1>7, <1>8, <2>1, <2>2 DEF SlotsAgree
<1>14. ChildOK'
  BY <1>1, <1>2, <1>3, <1>12 DEF IInv, ChildOK, Alive
<1> QED
  BY <1>3, <1>9, <1>10, <1>11, <1>13, <1>14 DEF IInv

\* The fail label is reached with every live child still in a slot.
LEMMA FailingKeeps ==
  IInv /\ (NodeError \/ PollFailure \/ PollTimeout \/ PollError \/ WaitError) => IInv'
<1> SUFFICES ASSUME IInv, NodeError \/ PollFailure \/ PollTimeout \/ PollError \/ WaitError
             PROVE  IInv'
  OBVIOUS
<1>1. phase \notin Ended
  BY DEF NodeError, PollFailure, PollTimeout, PollError, WaitError, TurnOver, Ended
<1>2. /\ \A n \in Node : proc[n] \in Alive => n \in Victims(slot, active)
      /\ \A n \in Node : n \in Victims(slot, active) => state[n] = "RUNNING"
  BY <1>1, VictimsAreTheLiving
<1>3. CASE NodeError \/ PollError \/ WaitError
  <2>1. Abort(Victims(slot, active), "failed")
    BY <1>3 DEF NodeError, PollError, WaitError
  <2> QED
    BY <1>1, <1>2, <2>1, Leaving
<1>4. CASE PollFailure
  <2> DEFINE rest == [slot EXCEPT ![scan] = None]
  <2>1. /\ TypeOK /\ SlotsAgree /\ scan \in Slot /\ slot[scan] # None
        /\ proc[slot[scan]] \in {"exit-ok", "exit-bad"}
        /\ Abort(Victims(rest, active - 1), "failed")
    BY <1>4 DEF IInv, PollFailure
  <2>2. \A i \in Slot : rest[i] = IF i = scan THEN None ELSE slot[i]
    BY <2>1 DEF TypeOK
  <2>3. scan \in BusySlots /\ active \in Nat /\ active - 1 \in Nat
        /\ (active - 1 = 0 <=> BusySlots = {scan})
    <3>1. scan \in BusySlots /\ BusySlots \ {scan} \subseteq Slot
      BY <2>1 DEF BusySlots
    <3>2. active - 1 = Cardinality(BusySlots \ {scan})
          /\ (active - 1 = 0 <=> BusySlots = {scan})
      BY <1>1, <2>1, <3>1, CountTellsBusy
    <3>3. active - 1 \in Nat
      BY <2>1, <3>1, <3>2, FiniteParts
    <3> QED
      BY <2>1, <3>1, <3>2, <3>3, JobsAssumption DEF TypeOK
  <2> HIDE DEF rest
  <2>4. ASSUME NEW n \in Node, proc[n] \in Alive
        PROVE  n \in Victims(rest, active - 1)
    <3>1. PICK i \in Slot : slot[i] = n
      BY <1>2, <2>4 DEF Victims
    <3>2. i # scan /\ i \in BusySlots /\ n # None
      BY <2>1, <2>4, <3>1, NodeAssumption DEF Alive, BusySlots
    <3> QED
      BY <2>2, <2>3, <3>1, <3>2 DEF Victims
  <2>5. ASSUME NEW n \in Node, n \in Victims(rest, active - 1)
        PROVE  state[n] = "RUNNING"
    BY <1>1, <2>1, <2>2, <2>5, NodeAssumption DEF Victims, SlotsAgree
  <2> QED
    BY <1>1, <2>1, <2>4, <2>5, Leaving
<1>5. CASE PollTimeout
  <2> DEFINE rest == [slot EXCEPT ![scan] = None]
             victims == {slot[scan]} \cup Victims(rest, active)
  <2>1. /\ TypeOK /\ SlotsAgree /\ scan \in Slot /\ slot[scan] # None
        /\ Abort(victims, "failed")
    BY <1>5 DEF IInv, PollTimeout
  <2>2. \A i \in Slot : rest[i] = IF i = scan THEN None ELSE slot[i]
    BY <2>1 DEF TypeOK
  <2>3. scan \in BusySlots /\ active \in Nat /\ active # 0
    BY <1>1, <2>1, CountTellsBusy, JobsAssumption DEF BusySlots, TypeOK
  <2> HIDE DEF rest
  <2>4. ASSUME NEW n \in Node, proc[n] \in Alive
        PROVE  n \in victims
    <3>1. PICK i \in Slot : slot[i] = n
      BY <1>2, <2>4 DEF Victims
    <3> QED
      BY <2>2, <2>3, <3>1, NodeAssumption DEF Victims
  <2>5. ASSUME NEW n \in Node, n \in victims
        PROVE  state[n] = "RUNNING"
    BY <1>1, <2>1, <2>2, <2>5, NodeAssumption DEF Victims, SlotsAgree
  <2> QED
    BY <1>1, <2>1, <2>4, <2>5, Leaving
<1> QED
  BY <1>3, <1>4, <1>5

\* A stall leaves pending nodes only, each waiting for another of them.
LEMMA StallKeeps == IInv /\ Stall => IInv'
<1> SUFFICES ASSUME IInv, Stall PROVE IInv'
  OBVIOUS
<1>1. /\ TypeOK /\ CountOK /\ CompletedOK /\ QueueOK /\ SlotsAgree
      /\ phase = "poll" /\ phase \notin Ended /\ cur = None
      /\ active = 0 /\ ready = <<>> /\ completed < Cardinality(Node)
  BY DEF IInv, Stall, TurnOver, IsStalled, Turning, CurOK, Ended
<1>2. \A n \in Node : state[n] # "RUNNING"
  BY <1>1, CountTellsBusy, NodeAssumption DEF SlotsAgree, BusySlots
<1>3. \A n \in Node : state[n] # "READY"
  <2>1. ToSet(ready) = {}
    BY <1>1 DEF ToSet
  <2> QED
    BY <1>1, <2>1 DEF QueueOK, ReadyNodes
<1>4. \A n \in Node \ DoneNodes : state[n] = "PENDING"
  BY <1>1, <1>2, <1>3 DEF DoneNodes, TypeOK, States
<1>5. Node \ DoneNodes # {}
  <2>1. Cardinality(DoneNodes) < Cardinality(Node) /\ Cardinality(Node) \in Nat
    BY <1>1, FiniteParts DEF CompletedOK
  <2>2. DoneNodes # Node
    BY <2>1
  <2> QED
    BY <2>2 DEF DoneNodes
<1>6. ASSUME NEW n \in Node \ DoneNodes
      PROVE  deps[n] \cap (Node \ DoneNodes) # {}
  <2>1. Waiting(n) # {}
    <3>1. Cardinality(Waiting(n)) # 0
      BY <1>1, <1>4 DEF CountOK
    <3> QED
      BY <3>1, FS_EmptySet
  <2> QED
    BY <1>1, <2>1 DEF Waiting, DoneNodes, TypeOK
<1>7. Knot(Node \ DoneNodes)
  BY <1>5, <1>6 DEF Knot
<1> QED
  BY <1>1, <1>7, VictimsAreTheLiving, Leaving DEF Stall

\* The loop moves on without touching a node, a slot or a child.
LEMMA MovingOnKeeps == IInv /\ (Drained \/ PollOn \/ NextTurn \/ Flush) => IInv'
<1> SUFFICES ASSUME IInv, Drained \/ PollOn \/ NextTurn \/ Flush PROVE IInv'
  OBVIOUS
<1> USE DEF Ended
<1>1. /\ UNCHANGED <<deps, state, remaining, ready, cur, slot, active, completed, proc>>
      /\ phase \notin Ended
  BY DEF Drained, PollOn, NextTurn, Flush, graphVars, loopVars, TurnOver
<1>2. /\ TypeOK /\ CompletedOK /\ SlotsAgree /\ cur = None <=> phase # "node"
      /\ phase # "node" /\ phase' # "node" /\ phase' # "stalled"
  BY DEF IInv, CurOK, Drained, PollOn, NextTurn, Flush, TurnOver
<1>3. TypeOK'
  <2>1. scan' \in 1..(Jobs + 1)
    BY <1>2, JobsAssumption DEF Drained, PollOn, NextTurn, Flush, TypeOK, Slot, loopVars
  <2>2. phase' \in Phases /\ progressed' \in BOOLEAN
    BY <1>2 DEF Drained, PollOn, NextTurn, Flush, TypeOK, Phases, loopVars
  <2> QED
    BY <1>1, <1>2, <2>1, <2>2 DEF TypeOK
<1>4. GraphOK' /\ CountOK' /\ CompletedOK' /\ CurOK'
  BY <1>1, <1>2 DEF IInv, GraphOK, CountOK, CompletedOK, CurOK, Waiting, DoneNodes
<1>5. QueueOK' /\ SlotsAgree'
  BY <1>1 DEF IInv, QueueOK, SlotsAgree, BusySlots, ReadyNodes
<1>6. WaitOK'
  BY <1>1 DEF IInv, WaitOK, Drained, PollOn, NextTurn, Flush, loopVars
<1>7. EndOK'
  <2>1. CASE Drained \/ PollOn
    BY <2>1 DEF Drained, PollOn, EndOK
  <2>2. CASE Flush
    BY <1>1, <1>2, <2>2 DEF IInv, Flush, EndOK, DoneNodes
  <2>3. CASE NextTurn
    <3>1. CASE Turning
      BY <2>3, <3>1 DEF NextTurn, EndOK
    <3>2. CASE ~Turning
      <4>1. Cardinality(DoneNodes) >= Cardinality(Node) /\ IsFiniteSet(Node)
            /\ Cardinality(DoneNodes) \in Nat /\ Cardinality(Node) \in Nat
        BY <1>2, <3>2, NodeAssumption, FiniteParts DEF CompletedOK, Turning, TypeOK, DoneNodes
      <4>2. DoneNodes = Node
        BY <4>1, FS_Subset DEF DoneNodes
      <4>3. BusySlots = {}
        BY <1>1, <1>2, <4>2 DEF SlotsAgree, BusySlots, DoneNodes, TypeOK
      <4> QED
        BY <1>1, <1>2, <4>2, <4>3, CountTellsBusy DEF EndOK, DoneNodes
    <3> QED
      BY <3>1, <3>2
  <2> QED
    BY <2>1, <2>2, <2>3
<1>8. ChildOK'
  <2>1. phase' \in Ended => \A n \in Node : proc[n] \notin Alive
    <3>1. CASE phase' \in Ended
      <4>1. Flush \/ NextTurn
        BY <1>1, <3>1 DEF Drained, PollOn
      <4>2. Flush
        BY <3>1, <4>1 DEF NextTurn
      <4> QED
        BY <4>2 DEF IInv, Flush, EndOK, ChildOK, DoneNodes
    <3> QED
      BY <3>1
  <2> QED
    BY <1>1, <2>1 DEF IInv, ChildOK
<1> QED
  BY <1>3, <1>4, <1>5, <1>6, <1>7, <1>8 DEF IInv

\* A child's own steps concern its entry in proc only.
LEMMA ChildStepKeeps ==
  ASSUME NEW n \in Node
  PROVE  IInv /\ (ChildExits(n) \/ ChildOverruns(n)) => IInv'
<1> SUFFICES ASSUME IInv, ChildExits(n) \/ ChildOverruns(n) PROVE IInv'
  OBVIOUS
<1>1. UNCHANGED <<deps, state, remaining, ready, cur, slot, active, completed,
                  progressed, scan, phase>>
  BY DEF ChildExits, ChildOverruns, graphVars, loopVars
<1>2. /\ proc[n] \in Alive /\ proc' \in [Node -> ProcStates]
      /\ \A m \in Node \ {n} : proc'[m] = proc[m]
  BY DEF IInv, TypeOK, ChildExits, ChildOverruns, ProcStates, Alive
<1>3. TypeOK'
  BY <1>1, <1>2 DEF IInv, TypeOK
<1>4. GraphOK' /\ CountOK' /\ CompletedOK' /\ CurOK' /\ QueueOK'
  BY <1>1 DEF IInv, GraphOK, CountOK, CompletedOK, CurOK, QueueOK, Waiting, DoneNodes, ReadyNodes
<1>5. SlotsAgree' /\ WaitOK' /\ EndOK'
  BY <1>1 DEF IInv, SlotsAgree, WaitOK, EndOK, BusySlots, DoneNodes, Knot
<1>6. ChildOK'
  BY <1>1, <1>2 DEF IInv, ChildOK, Alive
<1> QED
  BY <1>3, <1>4, <1>5, <1>6 DEF IInv

LEMMA StepKeeps == IInv /\ [Next]_vars => IInv'
<1> SUFFICES ASSUME IInv, [Next]_vars PROVE IInv'
  OBVIOUS
<1>1. CASE UNCHANGED vars
  BY <1>1 DEF IInv, vars, TypeOK, GraphOK, CountOK, CompletedOK, CurOK, QueueOK, SlotsAgree,
     ChildOK, EndOK, WaitOK, Waiting, DoneNodes, ReadyNodes, BusySlots, Knot
<1>2. CASE Take
  BY <1>2, TakeKeeps
<1>3. CASE Settle
  BY <1>3, SettleKeeps
<1>4. CASE Requeue
  BY <1>4, RequeueKeeps
<1>5. CASE StartProcess
  BY <1>5, StartProcessKeeps
<1>6. CASE PollSuccess
  BY <1>6, PollSuccessKeeps
<1>7. CASE NodeError \/ PollFailure \/ PollTimeout \/ PollError \/ WaitError
  BY <1>7, FailingKeeps
<1>8. CASE Stall
  BY <1>8, StallKeeps
<1>9. CASE Drained \/ PollOn \/ NextTurn \/ Flush
  BY <1>9, MovingOnKeeps
<1>10. CASE \E n \in Node : ChildExits(n) \/ ChildOverruns(n)
  BY <1>10, ChildStepKeeps
<1> QED
  BY <1>1, <1>2, <1>3, <1>4, <1>5, <1>6, <1>7, <1>8, <1>9, <1>10 DEF Next, Loop, Returned

\* The inductive invariant holds in every reachable state.
THEOREM Invariance == Spec => []IInv
<1>1. Init => IInv
  BY InitInvariant
<1>2. IInv /\ [Next]_vars => IInv'
  BY StepKeeps
<1> QED
  BY <1>1, <1>2, PTL DEF Spec

-----------------------------------------------------------------------------
\* What the invariant gives.

\* The bookkeeping of scheduler_execute stays within its types; in particular
\* the count of started children never leaves 0..Jobs.
THEOREM TypeCorrect == Spec => []TypeOK
<1>1. IInv => TypeOK
  BY DEF IInv
<1> QED
  BY <1>1, Invariance, PTL

\* scheduler_complete_node releases an action only when everything it depends
\* on has completed.
THEOREM DependenciesComeFirst == Spec => []DepsBeforeUse
<1>1. IInv => DepsBeforeUse
  <2> SUFFICES ASSUME IInv, NEW n \in Node,
                      n = cur \/ state[n] \in {"RUNNING", "DONE"}, NEW d \in deps[n]
               PROVE  state[d] = "DONE"
    BY DEF DepsBeforeUse
  <2>1. state[n] # "PENDING"
    <3>1. CASE n = cur
      <4>1. n # None
        BY NodeAssumption
      <4>2. phase \notin Ended
        BY <3>1, <4>1 DEF IInv, CurOK, Ended
      <4> QED
        BY <3>1, <4>1, <4>2 DEF IInv, QueueOK, ReadyNodes
    <3>2. CASE state[n] \in {"RUNNING", "DONE"}
      BY <3>2
    <3> QED
      BY <3>1, <3>2
  <2>2. Waiting(n) = {}
    BY <2>1 DEF IInv, CountOK
  <2> QED
    BY <2>2 DEF Waiting
<1> QED
  BY <1>1, Invariance, PTL

\* Node states, slots and the count of started children agree in the loop.
THEOREM SlotsAccounted == Spec => []SlotsAgree
<1>1. IInv => SlotsAgree
  BY DEF IInv
<1> QED
  BY <1>1, Invariance, PTL

\* However scheduler_execute returns, no child it started is left running.
THEOREM NothingLeftRunning == Spec => []NoOrphans
<1>1. IInv => NoOrphans
  BY DEF IInv, ChildOK, NoOrphans
<1> QED
  BY <1>1, Invariance, PTL

\* The stall error of scheduler_execute is reported only for a cyclic graph.
THEOREM StallIsACycle == Spec => []StallMeansCycle
<1>1. IInv => StallMeansCycle
  BY DEF IInv, EndOK, StallMeansCycle
<1> QED
  BY <1>1, Invariance, PTL

\* A build that succeeds has completed every node of its graph.
THEOREM SuccessIsComplete == Spec => []OkMeansAllDone
<1>1. IInv => OkMeansAllDone
  BY DEF IInv, EndOK, OkMeansAllDone
<1> QED
  BY <1>1, Invariance, PTL

\* The loop waits only for want of work or of slots.
THEOREM NoIdleSlots == Spec => []WorkConserving
<1>1. IInv => WorkConserving
  BY DEF IInv, WaitOK, WorkConserving, TurnOver
<1> QED
  BY <1>1, Invariance, PTL

\* No command is started twice in a build.
THEOREM NoSecondStart == Spec => StartedOnce
<1>1. IInv /\ [Next]_vars =>
        [\A n \in Node : proc[n] # "absent" => (proc'[n] = "alive" => proc[n] = "alive")]_vars
  <2> SUFFICES ASSUME IInv, Next, NEW n \in Node, proc[n] # "absent", proc'[n] = "alive"
               PROVE  proc[n] = "alive"
    BY DEF Next
  <2>1. CASE StartProcess
    <3>1. cur \in Node /\ state[cur] = "READY"
      BY <2>1 DEF IInv, StartProcess, CurOK, QueueOK, ReadyNodes, TypeOK, Ended
    <3>2. n # cur
      BY <3>1 DEF IInv, ChildOK
    <3> QED
      BY <2>1, <3>1, <3>2 DEF IInv, TypeOK, StartProcess
  <2>2. CASE \E m \in Node : ChildExits(m) \/ ChildOverruns(m)
    BY <2>2 DEF IInv, TypeOK, ChildExits, ChildOverruns
  <2>3. CASE NodeError \/ PollFailure \/ PollTimeout \/ PollError \/ WaitError \/ Stall
    BY <2>3 DEF NodeError, PollFailure, PollTimeout, PollError, WaitError, Stall, Abort
  <2>4. CASE Take \/ Drained \/ Settle \/ Requeue \/ PollOn \/ PollSuccess \/ NextTurn \/ Flush
    BY <2>4 DEF Take, Drained, Settle, Requeue, PollOn, PollSuccess, NextTurn, Flush
  <2>5. CASE Returned
    BY <2>5 DEF Returned, vars
  <2> QED
    BY <2>1, <2>2, <2>3, <2>4, <2>5 DEF Next, Loop
<1> QED
  BY <1>1, Invariance, PTL DEF Spec, StartedOnce

-----------------------------------------------------------------------------
\* The executor implements BuildOrder.

RunningNodes == {n \in Node : state[n] = "RUNNING"}

LEMMA RunningFitSlots ==
  ASSUME TypeOK, SlotsAgree, phase \notin Ended
  PROVE  Cardinality(RunningNodes) \in Nat /\ Cardinality(RunningNodes) <= active
<1> DEFINE f == [i \in BusySlots |-> slot[i]]
<1>1. \A i \in BusySlots : slot[i] \in RunningNodes
  BY DEF SlotsAgree, BusySlots, RunningNodes, TypeOK
<1>2. \A n \in RunningNodes : \E i \in BusySlots : slot[i] = n
  BY NodeAssumption DEF SlotsAgree, BusySlots, RunningNodes
<1>3. f \in Surjection(BusySlots, RunningNodes)
  BY <1>1, <1>2 DEF Surjection
<1>4. IsFiniteSet(BusySlots) /\ active = Cardinality(BusySlots)
  BY FiniteParts DEF BusySlots, SlotsAgree
<1>5. Cardinality(RunningNodes) <= Cardinality(BusySlots)
  BY <1>3, <1>4, FS_Surjection
<1>6. Cardinality(RunningNodes) \in Nat
  BY FiniteParts DEF RunningNodes
<1> QED
  BY <1>4, <1>5, <1>6

\* BuildOrder counts with the same Cardinality.
LEMMA SameCardinality == \A S : Promise!Cardinality(S) = Cardinality(S)
  BY DEF Promise!Cardinality, Cardinality

LEMMA InitMapsToInit == Init => Promise!Init
<1> SUFFICES ASSUME Init PROVE Promise!Init
  OBVIOUS
<1>1. phase \in {"drain", "flush"} /\ \A n \in Node : state[n] \in {"READY", "PENDING"}
  BY DEF Init
<1>2. AbsRunning = {} /\ DoneNodes = {} /\ AbsOutcome = "building"
  BY <1>1 DEF AbsRunning, DoneNodes, AbsOutcome
<1> QED
  BY <1>2 DEF Init, Promise!Init

LEMMA StepMapsToStep == IInv /\ [Next]_vars => [Promise!Next]_(Promise!vars)
<1> SUFFICES ASSUME IInv, [Next]_vars
             PROVE  Promise!Next \/ UNCHANGED <<deps, AbsRunning, DoneNodes, AbsOutcome>>
  BY DEF Promise!vars
<1> USE DEF Ended
<1>1. CASE \/ Take \/ Drained \/ PollOn \/ NextTurn \/ UNCHANGED vars
           \/ \E n \in Node : ChildExits(n) \/ ChildOverruns(n)
  <2>1. UNCHANGED <<deps, state>>
    BY <1>1 DEF Take, Drained, PollOn, NextTurn, ChildExits, ChildOverruns, vars, graphVars
  <2>2. phase' = phase \/ (phase \notin Ended /\ phase' \notin Ended)
    BY <1>1 DEF Take, Drained, PollOn, NextTurn, ChildExits, ChildOverruns, vars, TurnOver
  <2> QED
    BY <2>1, <2>2 DEF AbsRunning, AbsOutcome, DoneNodes
<1>2. CASE Requeue
  <2>1. /\ cur \in Node /\ state[cur] = "READY" /\ state' = state
        /\ deps' = deps /\ phase = "node" /\ phase' = "poll"
    BY <1>2 DEF Requeue, IInv, CurOK, QueueOK, ReadyNodes, TypeOK
  <2> QED
    BY <2>1 DEF AbsRunning, AbsOutcome, DoneNodes
<1>3. CASE Settle
  <2>1. /\ cur \in Node /\ state[cur] = "READY" /\ phase = "node" /\ phase' = "drain"
        /\ CompleteNode(cur) /\ TypeOK /\ CountOK /\ CompletedOK /\ deps' = deps
    BY <1>3 DEF Settle, CompleteNode, IInv, CurOK, QueueOK, ReadyNodes, TypeOK
  <2>2. /\ Released(cur) \subseteq {m \in Node : state[m] = "PENDING"}
        /\ \A m \in Node : state'[m] = (IF m = cur THEN "DONE"
                             ELSE IF m \in Released(cur) THEN "READY" ELSE state[m])
    BY <2>1, Completing
  <2>3. AbsRunning' = AbsRunning /\ DoneNodes' = DoneNodes \cup {cur}
    BY <2>1, <2>2 DEF AbsRunning, DoneNodes
  <2>4. AbsOutcome = "building" /\ AbsOutcome' = "building"
    BY <2>1 DEF AbsOutcome
  <2>5. cur \notin AbsRunning \cup DoneNodes /\ deps[cur] \subseteq DoneNodes
    BY <2>1 DEF AbsRunning, DoneNodes, CountOK, Waiting, TypeOK
  <2>6. Promise!Settle(cur)
    BY <2>1, <2>3, <2>4, <2>5 DEF Promise!Settle, Promise!Eligible
  <2> QED
    BY <2>1, <2>6 DEF Promise!Next
<1>4. CASE StartProcess
  <2>1. /\ cur \in Node /\ state[cur] = "READY" /\ phase = "node" /\ phase' = "drain"
        /\ TypeOK /\ CountOK /\ SlotsAgree /\ deps' = deps /\ active < Jobs
        /\ state' = [state EXCEPT ![cur] = "RUNNING"]
    BY <1>4 DEF StartProcess, IInv, CurOK, QueueOK, ReadyNodes, TypeOK
  <2>2. AbsRunning' = AbsRunning \cup {cur} /\ DoneNodes' = DoneNodes
    BY <2>1 DEF AbsRunning, DoneNodes, TypeOK
  <2>3. AbsOutcome = "building" /\ AbsOutcome' = "building"
    BY <2>1 DEF AbsOutcome
  <2>4. cur \notin AbsRunning \cup DoneNodes /\ deps[cur] \subseteq DoneNodes
    BY <2>1 DEF AbsRunning, DoneNodes, CountOK, Waiting, TypeOK
  <2>5. Cardinality(AbsRunning) < Jobs
    <3>1. AbsRunning = RunningNodes
      BY <2>1 DEF AbsRunning, RunningNodes
    <3>2. active \in Nat /\ Jobs \in Nat
      BY <2>1, JobsAssumption DEF TypeOK
    <3> QED
      BY <2>1, <3>1, <3>2, RunningFitSlots
  <2>6. Promise!Start(cur)
    BY <2>1, <2>2, <2>3, <2>4, <2>5, SameCardinality
       DEF Promise!Start, Promise!Eligible
  <2> QED
    BY <2>1, <2>6 DEF Promise!Next
<1>5. CASE PollSuccess
  <2> DEFINE n == slot[scan]
  <2>1. /\ n \in Node /\ state[n] = "RUNNING" /\ phase = "poll" /\ phase' = "poll"
        /\ CompleteNode(n) /\ TypeOK /\ CountOK /\ CompletedOK /\ deps' = deps
    BY <1>5 DEF PollSuccess, CompleteNode, IInv, SlotsAgree, TypeOK
  <2> HIDE DEF n
  <2>2. /\ Released(n) \subseteq {m \in Node : state[m] = "PENDING"}
        /\ \A m \in Node : state'[m] = (IF m = n THEN "DONE"
                             ELSE IF m \in Released(n) THEN "READY" ELSE state[m])
    BY <2>1, Completing
  <2>3. /\ n \in AbsRunning /\ AbsRunning' = AbsRunning \ {n}
        /\ DoneNodes' = DoneNodes \cup {n}
    BY <2>1, <2>2 DEF AbsRunning, DoneNodes
  <2>4. AbsOutcome = "building" /\ AbsOutcome' = "building"
    BY <2>1 DEF AbsOutcome
  <2>5. Promise!Finish(n)
    BY <2>1, <2>3, <2>4 DEF Promise!Finish
  <2> QED
    BY <2>1, <2>5 DEF Promise!Next
<1>6. CASE NodeError \/ PollFailure \/ PollTimeout \/ PollError \/ WaitError \/ Stall
  <2>1. /\ phase \notin Ended /\ phase' \in {"failed", "stalled"}
        /\ UNCHANGED <<deps, state>>
    BY <1>6 DEF NodeError, PollFailure, PollTimeout, PollError, WaitError, Stall, TurnOver,
       Abort, graphVars
  <2>2. /\ AbsOutcome = "building" /\ AbsOutcome' = "failed"
        /\ AbsRunning' = {} /\ DoneNodes' = DoneNodes
    BY <2>1 DEF AbsOutcome, AbsRunning, DoneNodes
  <2> QED
    BY <2>1, <2>2 DEF Promise!Next, Promise!Fail
<1>7. CASE Flush
  <2>1. /\ phase = "flush" /\ phase' \in {"ok", "failed"} /\ UNCHANGED <<deps, state>>
        /\ DoneNodes = Node
    BY <1>7 DEF Flush, graphVars, IInv, EndOK
  <2>2. AbsOutcome = "building" /\ AbsRunning = {} /\ AbsRunning' = {} /\ DoneNodes' = DoneNodes
    BY <2>1 DEF AbsOutcome, AbsRunning, DoneNodes
  <2>3. CASE phase' = "ok"
    <3>1. AbsOutcome' = "ok"
      BY <2>3 DEF AbsOutcome
    <3> QED
      BY <2>1, <2>2, <3>1 DEF Promise!Next, Promise!Succeed
  <2>4. CASE phase' = "failed"
    <3>1. AbsOutcome' = "failed"
      BY <2>4 DEF AbsOutcome
    <3> QED
      BY <2>1, <2>2, <3>1 DEF Promise!Next, Promise!Fail
  <2> QED
    BY <2>1, <2>3, <2>4
<1> QED
  BY <1>1, <1>2, <1>3, <1>4, <1>5, <1>6, <1>7 DEF Next, Loop, Returned

\* Hiding its queue, counters and slots, scheduler_execute does what BuildOrder
\* promises: it starts an action only after everything the action waits for,
\* keeps at most Jobs children, and ends with none.
THEOREM Refinement == Spec => ImplementsBuildOrder
<1>1. Init => Promise!Init
  BY InitMapsToInit
<1>2. IInv /\ [Next]_vars => [Promise!Next]_(Promise!vars)
  BY StepMapsToStep
<1> QED
  BY <1>1, <1>2, Invariance, PTL DEF Spec, ImplementsBuildOrder, Promise!Spec
=============================================================================
