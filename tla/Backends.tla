------------------------------ MODULE Backends ------------------------------
(***************************************************************************)
(* One authored graph and the two ways to build it: the local executor     *)
(* (NativeGraph), then the Ninja backend (NinjaGraph) over the same        *)
(* references.  The two read the same declarations with code of their own; *)
(* the properties say that each orders makers before users, and that the   *)
(* two agree on what a build does and on how it ends.                      *)
(***************************************************************************)
EXTENDS NativeGraph, NinjaGraph

CONSTANTS
  Authored,  \* the sets of references the authoring files may make
  Roots      \* the labels a build may be asked for

ASSUME RootsAssumption == Roots \subseteq Targets \cup Genrules
ASSUME AuthoredAssumption ==
  \A r \in Authored :
    /\ IsFiniteSet(r)
    /\ \A x \in r : x.field = "sources" => \E i \in 1..Len(Listed) : Listed[i] = x.item

vars == <<refs, root, nativeVars, ninjaVars>>

Init ==
  /\ refs \in Authored
  /\ root \in Roots
  /\ NativeInit
  /\ NinjaInit

Native == NativeNext /\ UNCHANGED ninjaVars

\* a graph that is not valid is refused before a backend is chosen
Ninja ==
  /\ Ended /\ phase # "refused"
  /\ NinjaNext
  /\ UNCHANGED <<refs, root, nativeVars>>

Finished == phase = "refused" \/ (Ended /\ verdict # "emit")
Stay == Finished /\ UNCHANGED vars

Next == Native \/ Ninja \/ Stay
Spec == Init /\ [][Next]_vars /\ WF_vars(Next)

-----------------------------------------------------------------------------
Actions ==
  {Rule(g) : g \in Genrules} \cup {Stage(s) : s \in Stages}
    \cup {Final(t) : t \in Targets} \cup {Pch(t) : t \in Targets}
    \cup UNION {CompileActions(t) : t \in Targets}

\* Every variable has its type.
TypeOK ==
  /\ root \in Roots
  /\ NativeTypeOK
  /\ wanted \subseteq Targets /\ nodes \subseteq Actions /\ done \subseteq nodes
  /\ emitted \subseteq Targets /\ written \subseteq Actions
  /\ mark \in [Genrules \cup Stages -> {"new", "open", "written"}]
  /\ verdict \in {"emit", "circular", "unsupported", "missing", "stalled", "built"}

-----------------------------------------------------------------------------
\* the actions before a in the action graph
Upto(a) ==
  Grown(Before(edges, a), [b \in nodes |-> Before(edges, b)], Cardinality(nodes))

Compared == Ended /\ phase # "refused" /\ verdict # "emit"

\* the target whose headers an action waits for, when it is not its own
Borrowed(a) == a.act = "compile" /\ a.owner # a.of

\* what a source may import: the target's interfaces, or those listed before
Imports(a) ==
  IF a.act # "compile" \/ ~Modules(a.of) THEN {}
  ELSE {Compile(a.of, a.of, d) : d \in {x \in Interfaces(a.of) :
          a.src.out = "m" => Index(a.of, x) < Index(a.owner, a.src)}}

(***************************************************************************)
(* In the action graph of the local executor whatever makes a file that an *)
(* action reads comes before it: generated sources, objects and tools,     *)
(* link and run inputs, usage inputs, artifacts, across groups, interfaces *)
(* and object libraries, and the interfaces of the modules it may import.  *)
(* Two kinds of header reads are excepted, of which HeadersBeforeCompile   *)
(* tells, and a rule whose tool is an output of its own; an action whose   *)
(* source cannot be compiled fails before it reads anything.               *)
(***************************************************************************)
ProducersFirst ==
  Connected => \A a \in {b \in nodes : Prepared(b)} :
    Reads(a) \cup Imports(a) \subseteq Upto(a) \cup
      (IF a.act = "pch" \/ Borrowed(a) THEN Makers(Headers(a.of)) ELSE {}) \cup
      (IF a.act = "rule" THEN {a} ELSE {})

(***************************************************************************)
(* A compile action waits for the makers of all headers it reads           *)
(* (docs/perf/stella-ninja-architecture.md:87).                            *)
(***************************************************************************)
HeadersBeforeCompile ==
  Connected => \A a \in nodes :
    a.act \in {"compile", "pch"} => Makers(Headers(a.of)) \subseteq Upto(a)

(***************************************************************************)
(* Every statement Ninja runs names the makers of what its action reads,   *)
(* so that Ninja orders them, whatever the two backends do otherwise; only *)
(* a generated tool that is given by its path is not named, nor are the    *)
(* interfaces that a source borrowed from an object library may import.    *)
(***************************************************************************)
NinjaNamesReads ==
  verdict = "built" => \A a \in Upstream({RootAction}) :
    Reads(a) \cup (IF Borrowed(a) THEN {} ELSE Imports(a)) \subseteq Inputs(a) \cup
      (IF a.act = "rule" THEN Makers(Paths(Items(a.of, "tool"))) ELSE {})

-----------------------------------------------------------------------------
\* what the local executor makes because of an action and Ninja does not
Unfollowed(a) ==
  CASE a.act = "rule" ->
         Makers({i \in Paths(Items(a.of, "tool") \cup Items(a.of, "args")) : i.of # a.of})
    [] a.act = "final" ->
         {Rule(g) : g \in ConsumedRules(a.of)} \cup {Final(o) : o \in Labels(a.of, "objects")}
           \cup Makers(CompileUsage(a.of) \cup LinkUsage(a.of))
    [] OTHER -> {}

Everything ==
  Grown({RootAction}, [a \in Actions |-> Inputs(a) \cup Unfollowed(a)], Cardinality(nodes))

(***************************************************************************)
(* When both backends build a label they run the same actions, but for     *)
(* those that only the local executor follows to: rules that are in the    *)
(* arguments or the tool of a rule by path, that an object library depends *)
(* on, or whose headers belong to something that compiles nothing.  What   *)
(* is linked compiles each of its sources in exactly one of them.          *)
(***************************************************************************)
SameActions ==
  phase = "built" /\ verdict = "built" =>
    /\ done = Everything
    /\ Upstream({RootAction}) \subseteq done
    /\ \A a \in done : a.act = "final" /\ Kind[a.of] \in Consumers =>
         \A s \in CompiledSources(a.of) :
           Cardinality({b \in Reads(a) : b.act = "compile" /\ b.owner = a.of
                                          /\ s \in CompiledWith(a.of, a.of, b.src)}) = 1

\* what only the local executor follows to cannot be built
OnlyLocalRefused ==
  \E t \in wanted \ emitted :
    \/ Cyclic(t)
    \/ IsCompiled(t) /\ ~ValidStrategies(t)
    \/ IsCompiled(t) /\ \E a \in CompileActions(t) : ~Prepared(a)

\* Ninja alone follows the usage of an object library that compiles nothing
OnlyNinjaFollows == \E t \in emitted : ConsumerContext(t) /\ CompileUsage(t) # {}

\* e lies on a cycle of the action graph that Ninja does not have
OnlyLocal(e) ==
  /\ e[1] = e[2] \/ e[2] \in Upto(e[1])
  /\ ~(e[2] \in Upstream({RootAction}) /\ e[1] \in Inputs(e[2]))

(***************************************************************************)
(* What the local executor builds, Ninja builds: no file is missing and no *)
(* cycle is reported, but where an object library takes its consumer's     *)
(* context.  What Ninja builds, the local executor builds, but for a cycle *)
(* through an order that only the local executor asks for, or a target     *)
(* that it alone takes in and that cannot be compiled or is on a cycle.    *)
(***************************************************************************)
SameVerdict ==
  Compared =>
    /\ phase = "built" => verdict = "built" \/ (verdict = "circular" /\ OnlyNinjaFollows)
    /\ verdict = "built" =>
         phase = "built" \/ OnlyLocalRefused \/ \E e \in edges : OnlyLocal(e)
=============================================================================
