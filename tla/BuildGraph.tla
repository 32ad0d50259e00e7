----------------------------- MODULE BuildGraph -----------------------------
(***************************************************************************)
(* The authored build graph, as the Lua authoring files leave it: targets, *)
(* generated actions (genrules) and stages, and the references one of them *)
(* makes to another in a field of its declaration.  The module says what   *)
(* the graph means to everyone who reads it: which references the          *)
(* validation of source.c refuses, what the dependency closure of plan.c   *)
(* is, which usage requirements graph.c collects, and which files the      *)
(* prepare functions of executor.c make each action read.  How the two     *)
(* backends turn it into ordered actions is in NativeGraph and NinjaGraph. *)
(*                                                                         *)
(* A file is known by the action that makes it; sources and headers that   *)
(* no action makes are always there and are left out, except that every    *)
(* compiled target has one plain source of its own.                        *)
(*                                                                         *)
(* Sources are C++; a target may compile its implementations in batches    *)
(* (unity) and build the interfaces of its modules first (modules).        *)
(***************************************************************************)
EXTENDS Naturals, FiniteSets, Sequences

CONSTANTS
  Targets,    \* labels of the targets
  Genrules,   \* labels of the generated actions
  Stages,     \* labels of the stages
  Kind,       \* the kind of each target
  Listed,     \* the sources, in the order in which targets list them
  BatchSize   \* how many implementations one unity source includes

ASSUME NamesAssumption ==
  /\ IsFiniteSet(Targets) /\ IsFiniteSet(Genrules) /\ IsFiniteSet(Stages)
  /\ Targets \cap Genrules = {}
  /\ Targets \cap Stages = {}
  /\ Genrules \cap Stages = {}

VARIABLES
  refs,  \* the references the authoring files make
  root   \* the label the build is asked for

Consumers == {"exe", "staticlib", "sharedlib"}  \* a test is built as an exe
Compiled == Consumers \cup {"objectlib"}
Metadata == {"interface", "imported", "tool"}
Kinds == Compiled \cup Metadata \cup {"group", "run_target"}

ASSUME KindAssumption == Kind \in [Targets -> Kinds]
Plain == [is |-> "plain", of |-> "-", out |-> "c"]

ASSUME ListedAssumption ==
  /\ Len(Listed) \in Nat
  /\ \A i, j \in 1..Len(Listed) : Listed[i] = Listed[j] => i = j
  /\ \E i \in 1..Len(Listed) : Listed[i] = Plain
ASSUME BatchAssumption == BatchSize \in Nat \ {0}

-----------------------------------------------------------------------------
(***************************************************************************)
(* References.  An item is the label of something, a token for its         *)
(* artifact (qstar.target_file, qstar.tool_file, qstar.stage_dir) or the   *)
(* path of an output of a generated action: an implementation source (c),  *)
(* the interface of a module (m), a header (h) or an object (o).           *)
(***************************************************************************)

Label(x)     == [is |-> "label", of |-> x, out |-> "-"]
Token(x)     == [is |-> "token", of |-> x, out |-> "-"]
StageDir(s)  == [is |-> "stage_dir", of |-> s, out |-> "-"]
Path(g, out) == [is |-> "path", of |-> g, out |-> out]
Ref(owner, field, item) == [owner |-> owner, field |-> field, item |-> item]

Items(o, field) == {r.item : r \in {x \in refs : x.owner = o /\ x.field = field}}
Labels(o, field) == {i.of : i \in Items(o, field)}
Rules(items) == {i.of : i \in {x \in items : x.is = "path"}}

IsCompiled(t) == Kind[t] \in Compiled
ConsumerContext(t) ==
  /\ Kind[t] = "objectlib"
  /\ \E r \in refs : r.owner = t /\ r.field = "consumer"

DepLabels(t) == Labels(t, "deps") \cup Labels(t, "private_deps")
LinkDeps(t) == DepLabels(t) \cap Targets
DepRules(t) == DepLabels(t) \cap Genrules
Headers(t) == Items(t, "headers")

\* the sources of a compiled target: the plain one and the generated ones
Sources(t) == IF IsCompiled(t) THEN {Plain} \cup Items(t, "sources") ELSE {}
Implementations(t) == {s \in Sources(t) : s.out = "c"}
Interfaces(t) == {s \in Sources(t) : s.out = "m"}
CompiledSources(t) == Implementations(t) \cup Interfaces(t)

\* how many of the sources S are listed before s
CountBefore(S, s) ==
  Cardinality({i \in 1..Len(Listed) :
     Listed[i] \in S /\ \E j \in 1..Len(Listed) : i < j /\ Listed[j] = s})
Index(t, s) == CountBefore(Sources(t), s)

-----------------------------------------------------------------------------
(***************************************************************************)
(* What validation lets through.                                           *)
(***************************************************************************)

\* what the authoring files can say at all: who has which field, that sources
\* and headers are paths, and that two fields only take a stage's directory
WellFormed(r) ==
  /\ r.owner \in CASE r.field \in {"tool", "inputs", "args"} -> Genrules
                   [] r.field = "files" -> Stages
                   [] OTHER -> Targets
  /\ r.item.is \in {"label", "token", "stage_dir", "path", "plain"}
  /\ r.item.is = "path" => r.item.of \in Genrules
  /\ r.item.is = "stage_dir" => r.item.of \in Stages /\ r.field \in {"run_inputs", "run_command"}
  /\ r.field \in {"sources", "headers", "pch"} => r.item.is = "path"
  /\ r.item.is = "label" => r.field \in {"deps", "private_deps", "objects"}
  /\ r.field = "link_inputs" => IsCompiled(r.owner)

\* only these have an artifact a token can name
HasArtifact(x) ==
  \/ x \in Genrules
  \/ x \in Targets /\ Kind[x] \in Consumers \cup {"imported", "tool"}

TokenAllowed(i) == i.is = "token" => HasArtifact(i.of)

ValidTool(i) ==
  i.is = "token" => i.of \in Targets /\ Kind[i.of] \in {"exe", "tool"}

ValidGenrule(g) ==
  /\ \A i \in Items(g, "tool") : ValidTool(i)
  /\ \A i \in Items(g, "inputs") : TokenAllowed(i) /\ i.of # g
  /\ \A i \in Items(g, "args") : TokenAllowed(i)

ValidStage(s) ==
  /\ Items(s, "files") # {}
  /\ \A i \in Items(s, "files") : TokenAllowed(i)

ValidObjects(t) ==
  Items(t, "objects") # {} =>
    /\ Kind[t] \in Consumers
    /\ \A o \in Labels(t, "objects") : o \in Targets /\ Kind[o] = "objectlib"

ValidTarget(t) ==
  /\ ValidObjects(t)
  /\ Labels(t, "deps") \cap Labels(t, "private_deps") = {}
  /\ Kind[t] = "objectlib" => Items(t, "link_inputs") = {}
  /\ \A f \in {"link_inputs", "run_inputs", "run_command"} :
       \A i \in Items(t, f) : TokenAllowed(i)
  /\ \A i \in Items(t, "run_command") :
       i.is = "stage_dir" => i \in Items(t, "run_inputs")
  /\ \A f \in {"compile_usage", "link_usage"} :
       \A i \in Items(t, f) : TokenAllowed(i) /\ i.is = "token"

HasPch(t) == IsCompiled(t) /\ Items(t, "pch") # {}
Unity(t) == Items(t, "unity") # {}
Modules(t) == Items(t, "modules") # {}

\* checked when the actions of a target are made, by either backend
ValidStrategies(t) ==
  /\ HasPch(t) \/ Unity(t) \/ Modules(t) => ~ConsumerContext(t)
  /\ Modules(t) => Interfaces(t) # {}

\* checked when a source is about to be compiled
ValidSource(o, s) == s.out = "m" => Modules(o)

Valid ==
  /\ \A r \in refs : WellFormed(r)
  /\ \A g \in Genrules : ValidGenrule(g)
  /\ \A s \in Stages : ValidStage(s)
  /\ \A t \in Targets : ValidTarget(t)

-----------------------------------------------------------------------------
(***************************************************************************)
(* The dependency closure and the usage requirements.                      *)
(***************************************************************************)

Next1(t) == (Labels(t, "objects") \cup DepLabels(t)) \cap Targets
PublicDeps(t) == Labels(t, "deps") \cap Targets

\* what S grows to in so many rounds, each adding what next gives for members
Grown(S, next, rounds) ==
  LET reach[n \in 0..rounds] ==
        IF n = 0 THEN S
        ELSE LET R == reach[n - 1] IN R \cup UNION {next[x] : x \in R}
  IN reach[rounds]

\* what of S has run after so many rounds, each running what waits for nothing
\* else
Ran(S, waits, rounds) ==
  LET ran[n \in 0..rounds] ==
        IF n = 0 THEN {} ELSE LET R == ran[n - 1] IN {a \in S : waits[a] \subseteq R}
  IN ran[rounds]

\* the least set that holds S and, with a target, all that next gives for it
Least(S, next) == Grown(S, next, Cardinality(Targets))

Closure(t) == {t} \cup Least(Next1(t), [x \in Targets |-> Next1(x)])
Cyclic(t) == \E u \in Closure(t) : u \in UNION {Closure(x) : x \in Next1(u)}

\* usage travels along the public dependencies of the direct dependencies
UsageOwners(t) == Least(LinkDeps(t), [x \in Targets |-> PublicDeps(x)])
CompileUsage(t) == UNION {Items(d, "compile_usage") : d \in UsageOwners(t)}
LinkUsage(t) == UNION {Items(d, "link_usage") : d \in UsageOwners(t)}

\* the dependencies whose artifacts a link takes: not beyond a group, a
\* run_target, an objectlib or a tool, and only publicly beyond an interface
LinkNext(d) ==
  IF Kind[d] \in {"group", "run_target", "objectlib", "tool"} THEN {}
  ELSE IF Kind[d] = "interface" THEN PublicDeps(d) ELSE LinkDeps(d)
LinkedDeps(t) ==
  {d \in Least(LinkDeps(t), [x \in Targets |-> LinkNext(x)]) :
     Kind[d] \in Consumers \cup {"imported"}}

-----------------------------------------------------------------------------
(***************************************************************************)
(* Actions and what they read.                                             *)
(***************************************************************************)

Action(act, x) == [act |-> act, of |-> x, owner |-> "-", src |-> Plain]
Final(t) == Action("final", t)
Rule(g)  == Action("rule", g)
Stage(s) == Action("stage", s)
Pch(t)   == Action("pch", t)
Compile(t, o, s) == [act |-> "compile", of |-> t, owner |-> o, src |-> s]

\* the action that makes what an item names
Maker(i) ==
  CASE i.is = "stage_dir" -> Stage(i.of)
    [] i.of \in Targets   -> Final(i.of)
    [] OTHER              -> Rule(i.of)
Makers(items) == {Maker(i) : i \in {x \in items : x.is # "plain"}}
Tokens(items) == {i \in items : i.is = "token"}
Paths(items) == {i \in items : i.is = "path"}

BorrowedFrom(t) == {o \in Labels(t, "objects") : ConsumerContext(o)}

\* the implementations that share a unity source, and the first of them,
\* whose compile action stands for all
BatchOf(t, s) == CountBefore(Implementations(t), s) \div BatchSize
Batch(t, s) == {x \in Implementations(t) : BatchOf(t, x) = BatchOf(t, s)}
EmitsObject(t, s) ==
  Unity(t) /\ s.out = "c" => CountBefore(Implementations(t), s) % BatchSize = 0
CompiledWith(t, o, s) ==
  IF o = t /\ Unity(t) /\ s.out = "c" THEN Batch(t, s) ELSE {s}

\* a target compiles its own sources, unless it leaves that to its
\* consumers, and those of the objectlibs that leave theirs to it
OwnActions(t) == {Compile(t, t, s) : s \in {x \in CompiledSources(t) : EmitsObject(t, x)}}
CompileActions(t) ==
  (IF ConsumerContext(t) THEN {} ELSE OwnActions(t))
    \cup UNION {{Compile(t, o, s) : s \in CompiledSources(o)} : o \in BorrowedFrom(t)}

\* the objects the sources of o give to the final action of t
ObjectsFor(t, o) ==
  {Compile(IF ConsumerContext(o) THEN t ELSE o, o, s) :
     s \in {x \in CompiledSources(o) : EmitsObject(o, x)}}
    \cup Makers({s \in Sources(o) : s.out = "o"})

GenruleReads(g) ==
  Makers(Items(g, "inputs") \cup Items(g, "tool") \cup Tokens(Items(g, "args")))

\* the interfaces a compile takes: all, or for an interface those before it;
\* a borrowed source is taken for the target's own that has its index
SourceAt(t, o, s) ==
  IF o = t THEN {s} ELSE {x \in CompiledSources(t) : Index(t, x) = Index(o, s)}
BmiReads(t, o, s) ==
  {Compile(t, t, d) : d \in {x \in Interfaces(t) :
     /\ Modules(t)
     /\ \E y \in SourceAt(t, o, s) : y.out = "m" => Index(t, x) < Index(t, y)}}

CompileReads(t, o, s) ==
  Makers(CompiledWith(t, o, s) \cup Headers(t) \cup Headers(o) \cup CompileUsage(t))
    \cup BmiReads(t, o, s)
    \cup (IF HasPch(t) /\ s.out # "m" THEN {Pch(t)} ELSE {})

PchReads(t) == Makers(Items(t, "pch") \cup Headers(t) \cup CompileUsage(t))

RunReads(t) ==
  {Final(d) : d \in {x \in LinkDeps(t) : Kind[x] \in Consumers \cup {"imported", "tool"}}}
    \cup {Rule(g) : g \in DepRules(t)}
    \cup Makers(Tokens(Items(t, "run_command")) \cup Items(t, "run_inputs"))

FinalReads(t) ==
  (UNION {ObjectsFor(t, o) : o \in {t} \cup Labels(t, "objects")})
    \cup Makers(Items(t, "link_inputs"))
    \cup (IF Kind[t] = "staticlib" THEN {}
          ELSE {Final(d) : d \in LinkedDeps(t)} \cup Makers(LinkUsage(t)))

\* the actions whose outputs the action reads
Reads(a) ==
  CASE a.act = "rule"    -> GenruleReads(a.of)
    [] a.act = "stage"   -> Makers(Items(a.of, "files"))
    [] a.act = "compile" -> CompileReads(a.of, a.owner, a.src)
    [] a.act = "pch"     -> PchReads(a.of)
    [] a.act = "final" /\ Kind[a.of] = "run_target" -> RunReads(a.of)
    [] a.act = "final" /\ Kind[a.of] \in Consumers -> FinalReads(a.of)
    [] OTHER -> {}

=============================================================================
