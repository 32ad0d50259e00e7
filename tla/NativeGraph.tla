---------------------------- MODULE NativeGraph -----------------------------
(***************************************************************************)
(* How the local executor turns the authored graph into the action graph   *)
(* it schedules: scheduler_discover finds the targets, generated actions   *)
(* and stages the build needs, scheduler_build_nodes makes their nodes and *)
(* connects them, and the scheduler then runs what the edges let it run.   *)
(*                                                                         *)
(* A pass of the discovery loop reads the sets as the pass begins; the     *)
(* code's pass sees some additions sooner.  Both stop when a pass adds     *)
(* nothing.  How the nodes interleave is the subject of Scheduler: here    *)
(* Execute is all of that, the nodes whose dependencies complete.          *)
(***************************************************************************)
EXTENDS BuildGraph

VARIABLES
  phase,   \* how far the build has come
  wanted,  \* targets discovered (target_seen)
  rules,   \* generated actions discovered (genrule_needed)
  stages,  \* stages discovered (stage_needed)
  nodes,   \* the action graph: its nodes
  edges,   \* and its edges, <<dependency, user>>
  done     \* the nodes that completed

found == <<wanted, rules, stages>>
graph == <<nodes, edges>>

-----------------------------------------------------------------------------
(* Discovery.                                                              *)

NamedTargets(items) == {i.of : i \in Tokens(items)} \cap Targets
\* Mutation: the makers of paths are left to the targets that consume them.
NamedRulesByToken(items) == {i.of : i \in Tokens(items)} \cap Genrules

NamedRules(items) == ({i.of : i \in Tokens(items)} \cap Genrules) \cup Rules(items)

\* target_consumes_genrule
ConsumedRules(t) ==
  Rules(UNION {Items(t, f) : f \in {"pch", "sources", "headers", "link_inputs"}})

\* target_compile_consumes_genrule
CompileRules(t) ==
  Rules(Headers(t) \cup {s \in Items(t, "sources") : s.out \in {"c", "m"}})

StagesOf(t) ==
  IF Kind[t] = "run_target"
  THEN {i.of : i \in {x \in Items(t, "run_inputs") : x.is = "stage_dir"}} ELSE {}

\* Mutation: the command's tokens are thought to be covered by the inputs.
RunItemsWithoutCommand(t) ==
  IF Kind[t] = "run_target"
  THEN {i \in Items(t, "run_inputs") : i.is # "stage_dir"}
         \cup (UNION {Items(s, "files") : s \in StagesOf(t)})
  ELSE {}

RunItems(t) ==
  IF Kind[t] = "run_target"
  THEN {i \in Items(t, "run_inputs") : i.is # "stage_dir"}
         \cup (UNION {Items(s, "files") : s \in StagesOf(t)})
         \cup Tokens(Items(t, "run_command"))
  ELSE {}

\* the items whose makers a target brings into the build
TargetItems(t) ==
  Tokens(Items(t, "link_inputs")) \cup CompileUsage(t) \cup LinkUsage(t) \cup RunItems(t)
GenruleItems(g) == Items(g, "tool") \cup Items(g, "inputs") \cup Items(g, "args")

PassItems ==
  UNION ({TargetItems(t) : t \in wanted} \cup {GenruleItems(g) : g \in rules})

\* scheduler_discover: the root, then passes until one adds nothing
Start ==
  /\ phase = "authored"
  /\ IF ~Valid THEN phase' = "refused" /\ UNCHANGED found
     ELSE IF root \in Genrules
     THEN phase' = "discover" /\ rules' = {root} /\ UNCHANGED <<wanted, stages>>
     ELSE IF Cyclic(root) THEN phase' = "cycle" /\ UNCHANGED found
     ELSE phase' = "discover" /\ wanted' = Closure(root) /\ UNCHANGED <<rules, stages>>
  /\ UNCHANGED <<refs, root, graph, done>>

Pass ==
  LET named == NamedTargets(PassItems) IN
  /\ phase = "discover"
  /\ wanted' = wanted \cup UNION {Closure(t) : t \in named}
  /\ rules' = rules \cup NamedRules(PassItems)
                \cup UNION {ConsumedRules(t) \cup DepRules(t) : t \in wanted}
  /\ stages' = stages \cup UNION {StagesOf(t) : t \in wanted}
  /\ phase' = IF \E t \in named : Cyclic(t) THEN "cycle"
              ELSE IF found' = found THEN "discovered" ELSE "discover"
  /\ UNCHANGED <<refs, root, graph, done>>

-----------------------------------------------------------------------------
(* Nodes and edges.                                                        *)

TargetNodes(t) ==
  {Final(t)} \cup (IF IsCompiled(t) THEN CompileActions(t) ELSE {})
    \cup (IF HasPch(t) THEN {Pch(t)} ELSE {})

AllNodes ==
  (UNION {TargetNodes(t) : t \in wanted})
    \cup {Rule(g) : g \in rules} \cup {Stage(s) : s \in stages}

GenruleWaits(g) == Makers({i \in GenruleItems(g) : i.is = "path" => i.of # g})

\* Mutation: objects are left to the nodes that make them.
DepWaitsForDeps(t) == {Final(d) : d \in LinkDeps(t)} \cup {Rule(g) : g \in DepRules(t)}

DepWaits(t) ==
  {Final(d) : d \in (Labels(t, "objects") \cup DepLabels(t)) \cap Targets}
    \cup {Rule(g) : g \in DepRules(t)}

RunWaits(t) ==
  IF Kind[t] = "run_target"
  THEN Makers(Items(t, "run_command") \cup Items(t, "run_inputs")) ELSE {}

LinkWaits(t) ==
  IF IsCompiled(t)
  THEN {Rule(g) : g \in ConsumedRules(t)}
         \cup Makers(LinkUsage(t) \cup Items(t, "link_inputs"))
         \cup CompileActions(t)
  ELSE {}

FinalWaits(t) == DepWaits(t) \cup RunWaits(t) \cup LinkWaits(t)

\* sources wait for the interfaces, an interface for those of a lower index
ModuleWaits(t, o, s) ==
  {a \in CompileActions(t) :
     /\ Modules(t) /\ a.src.out = "m" /\ a # Compile(t, o, s)
     /\ s.out = "m" => ~(Index(o, s) < Index(a.owner, a.src))}

\* a borrowed source waits for what its objectlib lists, not its consumer
CompileWaits(t, o, s) ==
  {Rule(g) : g \in CompileRules(o)} \cup Makers(CompileUsage(t)) \cup ModuleWaits(t, o, s)
    \cup (IF HasPch(t) THEN {Pch(t)} ELSE {})

PchWaits(t) == Makers(Items(t, "pch") \cup CompileUsage(t))

Waits(a) ==
  CASE a.act = "rule"    -> GenruleWaits(a.of)
    [] a.act = "stage"   -> Makers(Items(a.of, "files"))
    [] a.act = "compile" -> CompileWaits(a.of, a.owner, a.src)
    [] a.act = "pch"     -> PchWaits(a.of)
    [] OTHER             -> FinalWaits(a.of)

EdgesInto(a, within) == {<<b, a>> : b \in Waits(a) \cap within}

\* scheduler_build_nodes; an edge from a node to itself is an error
Connect ==
  /\ phase = "discovered"
  /\ IF \E t \in wanted : IsCompiled(t) /\ ~ValidStrategies(t)
     THEN phase' = "unsupported" /\ UNCHANGED graph
     ELSE /\ nodes' = AllNodes
          /\ edges' = UNION {EdgesInto(a, AllNodes) : a \in AllNodes}
          /\ phase' = IF \E e \in edges' : e[1] = e[2] THEN "cycle" ELSE "connected"
  /\ UNCHANGED <<refs, root, found, done>>

-----------------------------------------------------------------------------
(* Execution.                                                              *)

Before(E, a) == {e[1] : e \in {x \in E : x[2] = a}}

\* a source that cannot be compiled fails when its action is prepared
Prepared(a) == a.act = "compile" => ValidSource(a.owner, a.src)

\* the nodes of N that complete when a node runs once all before it have
Completes(N, E) ==
  Ran({a \in N : Prepared(a)}, [a \in N |-> Before(E, a)], Cardinality(N))

Execute ==
  /\ phase = "connected"
  /\ done' = Completes(nodes, edges)
  /\ phase' = IF done' = nodes THEN "built" ELSE "stalled"
  /\ UNCHANGED <<refs, root, found, graph>>

NativeInit ==
  /\ phase = "authored"
  /\ wanted = {} /\ rules = {} /\ stages = {}
  /\ nodes = {} /\ edges = {} /\ done = {}

NativeNext == Start \/ Pass \/ Connect \/ Execute

Phases == {"authored", "refused", "discover", "discovered", "unsupported", "cycle",
           "connected", "built", "stalled"}
Ended == phase \in {"refused", "unsupported", "cycle", "built", "stalled"}
Connected == phase \in {"connected", "built", "stalled"}

nativeVars == <<phase, found, graph, done>>

-----------------------------------------------------------------------------
(* Properties.                                                             *)

\* Every variable of the local executor has its type.
NativeTypeOK ==
  /\ phase \in Phases
  /\ rules \subseteq Genrules /\ stages \subseteq Stages
  /\ edges \subseteq nodes \X nodes

\* the makers of the files that an action's own declaration names
NamedReads(a) ==
  CASE a.act = "rule"  -> Makers({i \in GenruleItems(a.of) : i.is = "path" => i.of # a.of})
    [] a.act = "stage" -> Makers(Items(a.of, "files"))
    [] a.act = "pch"   -> Makers(Items(a.of, "pch") \cup CompileUsage(a.of))
    [] a.act = "compile" /\ a.owner = a.of ->
         Makers(CompiledWith(a.of, a.of, a.src) \cup Headers(a.of) \cup CompileUsage(a.of))
           \cup BmiReads(a.of, a.of, a.src)
    [] a.act = "final" /\ Kind[a.of] = "run_target" ->
         Makers(Tokens(Items(a.of, "run_command")) \cup Items(a.of, "run_inputs"))
    [] a.act = "final" /\ Kind[a.of] \in Consumers ->
         CompileActions(a.of)
           \cup Makers({s \in Sources(a.of) : s.out = "o"}
                         \cup Items(a.of, "link_inputs") \cup LinkUsage(a.of))
    [] OTHER -> {}

(***************************************************************************)
(* Discovery misses nothing that is named: once the nodes are connected,   *)
(* whatever makes a file named by the declaration of a scheduled action is *)
(* a node itself and an edge leads from it, and no node waits for itself.  *)
(***************************************************************************)
NamedFirst ==
  Connected =>
    /\ \A a \in nodes : NamedReads(a) \subseteq Before(edges, a)
    /\ \A e \in edges : e[1] # e[2]
=============================================================================
