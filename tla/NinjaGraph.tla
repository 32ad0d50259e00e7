----------------------------- MODULE NinjaGraph -----------------------------
(***************************************************************************)
(* How the Ninja backend writes the authored graph as a build.ninja: a     *)
(* recursive walk from the root that emits the makers of what a statement  *)
(* reads before the statement itself, with a mark on every generated       *)
(* action and stage it is inside of.  The recursion is a stack of frames,  *)
(* each a statement to write and the calls to make before.  Ninja then     *)
(* builds the default alias from the statements.                           *)
(***************************************************************************)
EXTENDS BuildGraph, SequencesExt

VARIABLES
  stack,    \* the calls under way, innermost first
  emitted,  \* targets emit_target has begun (target_emitted)
  mark,     \* "new", "open" or "written" for each genrule and stage
  written,  \* the actions whose build statements are written
  verdict   \* how emission and the build by Ninja end

ninjaVars == <<stack, emitted, mark, written, verdict>>

Call(c, x) == [call |-> c, of |-> x]
Frame(a, calls) == [writes |-> a, calls |-> calls]
Nothing == Action("nothing", "-")

-----------------------------------------------------------------------------
(* The calls that write the makers of items.                               *)

MakerCall(i) ==
  CASE i.is = "stage_dir" -> Call("stage", i.of)
    [] i.of \in Targets   -> Call("closure", i.of)
    [] OTHER              -> Call("rule", i.of)
MakerCalls(items) == SetToSeq({MakerCall(i) : i \in {x \in items : x.is # "plain"}})
RuleCalls(gs) == SetToSeq({Call("rule", g) : g \in gs})

\* emit_genrule_edge: not the genrule that makes the path itself
GenruleCalls(g) ==
  MakerCalls({i \in Items(g, "tool") \cup Items(g, "inputs") \cup Items(g, "args") :
                i.is = "path" => i.of # g})

\* Mutation: headers are forgotten.
ConsumesSources(t) ==
  Rules(UNION {Items(t, f) : f \in {"pch", "sources", "link_inputs"}})

\* target_consumes_genrule of ninja.c
Consumes(t) ==
  Rules(UNION {Items(t, f) : f \in {"pch", "sources", "headers", "link_inputs"}})

\* emit_stage_source_producer
StageCalls(s) == MakerCalls(Items(s, "files"))

\* emit_run_input_producer, then emit_run_item_producer
RunCalls(t) ==
  MakerCalls(Items(t, "run_inputs")) \o MakerCalls(Tokens(Items(t, "run_command")))

\* emit_target
TargetCalls(t) ==
  RuleCalls(DepRules(t)) \o
  CASE Kind[t] = "run_target" -> RunCalls(t)
    [] IsCompiled(t) ->
         <<Call("strategies", t)>> \o RuleCalls(Consumes(t)) \o MakerCalls(Items(t, "link_inputs"))
           \o MakerCalls(CompileUsage(t)) \o MakerCalls(LinkUsage(t))
    [] OTHER -> << >>

\* the statements one frame writes
Statements(a) ==
  CASE a.act = "final" /\ IsCompiled(a.of) ->
         {a} \cup CompileActions(a.of) \cup (IF HasPch(a.of) THEN {Pch(a.of)} ELSE {})
    [] a.act = "nothing" -> {}
    [] OTHER -> {a}

\* the dependencies first; a target's closure is larger than theirs
ClosureCalls(t) ==
  LET OfSize(n) == {u \in Closure(t) : Cardinality(Closure(u)) = n}
      upto[n \in 0..Cardinality(Targets)] ==
        IF n = 0 THEN << >>
        ELSE upto[n - 1] \o SetToSeq({Call("target", u) : u \in OfSize(n)})
  IN upto[Cardinality(Targets)]

-----------------------------------------------------------------------------
(* The inputs each statement is written with.                              *)

\* Mutation: the tool is left out.
RuleInputsWithoutTool(g) == Makers(Items(g, "inputs") \cup Tokens(Items(g, "args")))

RuleInputs(g) ==
  Makers(Tokens(Items(g, "tool")) \cup Items(g, "inputs") \cup Tokens(Items(g, "args")))

DepAliases(t) == {Final(d) : d \in LinkDeps(t)} \cup {Rule(g) : g \in DepRules(t)}

\* write_run_command_deps
RunItemInputs(t) == Makers(Tokens(Items(t, "run_command")) \cup Items(t, "run_inputs"))
RunInputs(t) == RunItemInputs(t) \cup DepAliases(t)

\* write_dependency_usage_inputs
CompileUsageInputs(t) == Makers(CompileUsage(t))
LinkUsageInputs(t) == Makers(LinkUsage(t))

\* what the compile statement starts from: a source or those of its batch
SourceInputs(t, o, s) == Makers(CompiledWith(t, o, s))
CompileInputs(t, o, s) ==
  SourceInputs(t, o, s) \cup Makers(Headers(t) \cup Headers(o)) \cup CompileUsageInputs(t)
    \cup BmiReads(t, o, s)
    \cup (IF HasPch(t) /\ s.out # "m" THEN {Pch(t)} ELSE {})

PchInputs(t) == Makers(Items(t, "pch") \cup Headers(t)) \cup CompileUsageInputs(t)

\* write_objectlib_object_deps
ObjectlibObjects(t) == UNION {ObjectsFor(t, o) : o \in Labels(t, "objects")}

\* the artifacts a link takes, as collect_dep_artifact_rec walks to them
ArtifactNext(d) ==
  CASE Kind[d] \in {"group", "run_target", "objectlib", "tool"} -> {}
    [] Kind[d] = "interface" -> PublicDeps(d)
    [] OTHER -> LinkDeps(d)
DepArtifacts(t) ==
  LET visited == Least(LinkDeps(t), [x \in Targets |-> ArtifactNext(x)])
  IN {Final(d) : d \in {x \in visited : Kind[x] \in Consumers \cup {"imported"}}}

\* an archive takes the objects only, a link the dependencies as well
ArchiveInputs(t) ==
  ObjectsFor(t, t) \cup ObjectlibObjects(t)
    \cup Makers(Items(t, "link_inputs")) \cup DepAliases(t)

LinkInputs(t) == ArchiveInputs(t) \cup DepArtifacts(t) \cup LinkUsageInputs(t)

ObjectlibInputs(t) ==
  (IF ConsumerContext(t) THEN {} ELSE ObjectsFor(t, t)) \cup DepAliases(t)

FinalInputs(t) ==
  CASE Kind[t] = "run_target" -> RunInputs(t)
    [] Kind[t] = "objectlib"  -> ObjectlibInputs(t)
    [] Kind[t] = "staticlib"  -> ArchiveInputs(t)
    [] Kind[t] \in Consumers \ {"staticlib"} -> LinkInputs(t)
    [] OTHER                  -> DepAliases(t)

Inputs(a) ==
  CASE a.act = "rule"    -> RuleInputs(a.of)
    [] a.act = "stage"   -> Makers(Items(a.of, "files"))
    [] a.act = "compile" -> CompileInputs(a.of, a.owner, a.src)
    [] a.act = "pch"     -> PchInputs(a.of)
    [] OTHER             -> FinalInputs(a.of)

\* what Ninja has to build for S: the statements upstream of it
Upstream(S) ==
  Grown(S, [a \in S \cup written |-> Inputs(a) \cap written], Cardinality(written))

-----------------------------------------------------------------------------
(* Emission.                                                               *)

Top == Head(stack)
Next1Call == Head(Top.calls)
Rest == <<[Top EXCEPT !.calls = Tail(@)]>> \o Tail(stack)

Calling(c) == verdict = "emit" /\ stack # << >> /\ Top.calls # << >> /\ Next1Call.call = c

\* qstar_graph_visit_closure
EnterClosure ==
  /\ Calling("closure")
  /\ IF Cyclic(Next1Call.of)
     THEN verdict' = "circular" /\ UNCHANGED stack
     ELSE /\ stack' = <<[Top EXCEPT !.calls = ClosureCalls(Next1Call.of) \o Tail(@)]>>
                        \o Tail(stack)
          /\ UNCHANGED verdict
  /\ UNCHANGED <<emitted, mark, written>>

\* emit_target: once for each target
EnterTarget ==
  /\ Calling("target")
  /\ emitted' = emitted \cup {Next1Call.of}
  /\ stack' = (IF Next1Call.of \in emitted THEN << >>
               ELSE <<Frame(Final(Next1Call.of), TargetCalls(Next1Call.of))>>) \o Rest
  /\ UNCHANGED <<mark, written, verdict>>

\* emit_genrule_edge and emit_stage_edge: an open one is a cycle
EnterMarked(c, a, calls) ==
  /\ Calling(c)
  /\ verdict' = IF mark[Next1Call.of] = "open" THEN "circular" ELSE verdict
  /\ mark' = IF mark[Next1Call.of] = "new"
             THEN [mark EXCEPT ![Next1Call.of] = "open"] ELSE mark
  /\ stack' = (IF mark[Next1Call.of] = "new" THEN <<Frame(a, calls)>> ELSE << >>) \o Rest
  /\ UNCHANGED <<emitted, written>>

EnterRule == EnterMarked("rule", Rule(Next1Call.of), GenruleCalls(Next1Call.of))
EnterStage ==
  EnterMarked("stage", Stage(Next1Call.of), StageCalls(Next1Call.of))

\* qstar_cxx_validate_strategies, once the rules depended on are written
CheckStrategies ==
  /\ Calling("strategies")
  /\ verdict' = IF ValidStrategies(Next1Call.of) THEN verdict ELSE "unsupported"
  /\ stack' = Rest
  /\ UNCHANGED <<emitted, mark, written>>

\* validate_ninja_compile_source
CannotCompile(a) == a.act = "compile" /\ a.src.out = "m" /\ ~Modules(a.owner)

\* what the frame is about is written once the calls before it are made
Write ==
  /\ verdict = "emit" /\ stack # << >> /\ Top.calls = << >>
  /\ verdict' = IF \E a \in Statements(Top.writes) : CannotCompile(a)
                THEN "unsupported" ELSE verdict
  /\ written' = written \cup Statements(Top.writes)
  /\ mark' = IF Top.writes.act \in {"rule", "stage"}
             THEN [mark EXCEPT ![Top.writes.of] = "written"] ELSE mark
  /\ stack' = Tail(stack)
  /\ UNCHANGED emitted

RootAction == IF root \in Genrules THEN Rule(root) ELSE Final(root)

\* Ninja refuses a file nobody makes and a cycle among what it has to build
NinjaBuild ==
  LET U == Upstream({RootAction})
  IN /\ verdict = "emit" /\ stack = << >>
     /\ verdict' = CASE ~((UNION {Inputs(a) : a \in U}) \subseteq written) -> "missing"
                     [] Ran(U, [a \in U |-> Inputs(a)], Cardinality(U)) # U -> "stalled"
                     [] OTHER -> "built"
     /\ UNCHANGED <<stack, emitted, mark, written>>

NinjaInit ==
  /\ stack = <<Frame(Nothing, <<Call(IF root \in Genrules THEN "rule" ELSE "closure", root)>>)>>
  /\ emitted = {}
  /\ mark = [x \in Genrules \cup Stages |-> "new"]
  /\ written = {}
  /\ verdict = "emit"

NinjaNext ==
  \/ EnterClosure \/ EnterTarget \/ EnterRule \/ EnterStage
  \/ CheckStrategies \/ Write \/ NinjaBuild
=============================================================================
