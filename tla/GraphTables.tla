---------------------------- MODULE GraphTables ----------------------------
(***************************************************************************)
(* The tables of a project's graph: what an entry holds before anything of *)
(* its declaration is read, which labels it may not share, and the schemas *)
(* of a language provider.                                                 *)
(*                                                                         *)
(* The graph is one sequence of entries in the order they were declared.   *)
(* An entry has a table (is), a kind, a key (a label or a plain name), the *)
(* directory its labels are relative to (dir), the file it comes from      *)
(* (origin) and its fields, each a sequence.                               *)
(***************************************************************************)
EXTENDS Naturals, Sequences, SequencesExt, TLC

Of(graph, is) == SelectSeq(graph, LAMBDA e : e.is = is)
Keys(graph, is) == {e.key : e \in ToSet(Of(graph, is))}
Find(graph, is, key) == graph[CHOOSE k \in DOMAIN graph : graph[k].is = is /\ graph[k].key = key]
Field(e, f) == IF f \in DOMAIN e.fields THEN e.fields[f] ELSE <<>>
None == <<>>

\* the result F of x, where x is worked out once
With(x, F(_)) == CHOOSE y \in {F(v) : v \in {x}} : TRUE

\* a labelled thing of one of these tables takes its label for all of them
Labelled == {"target", "rule", "stage", "config", "toolset"}

Entry(is, kind, key, at, fields) ==
  [is |-> is, kind |-> kind, key |-> key, dir |-> at.dir, origin |-> at.file, fields |-> fields]

Clashes(graph, key, tables) == \E is \in tables : key \in Keys(graph, is)

\* what a table says of a new entry: the graph with it, or a refusal
Accepted(graph, e) == [ok |-> TRUE, graph |-> Append(graph, e)]
Refused(graph) == [ok |-> FALSE, graph |-> graph]
Enter(graph, e, tables) == IF Clashes(graph, e.key, tables) THEN Refused(graph) ELSE Accepted(graph, e)

NewTarget(graph, kind, key, at) ==
  Enter(graph, Entry("target", kind, key, at, [compile_context |-> <<"own">>, toolset |-> None]), Labelled)
NewConfig(graph, key, at) == Enter(graph, Entry("config", "config", key, at, [toolset |-> None]), Labelled)
NewToolset(graph, key, at) == Enter(graph, Entry("toolset", "toolset", key, at, [roles |-> None]), Labelled)
NewRule(graph, kind, key, at) ==
  Enter(graph, Entry("rule", kind, key, at, [tool |-> <<"generator">>, toolset |-> None]), Labelled)
NewStage(graph, key, at) == Enter(graph, Entry("stage", "stage", key, at, [root |-> None]), Labelled)

\* a family goes by its bare name and a suite's label is only compared with
\* the labels of other suites here: the rest is for the validation
NewFamily(graph, name, at) == Enter(graph, Entry("family", "family", name, at, [variants |-> None]), {"family"})
NewSuite(graph, key, at) == Enter(graph, Entry("suite", "suite", key, at, [tests |-> None]), {"suite"})
NewResource(graph, name, at) == Enter(graph, Entry("resource", "resource", name, at, [capacity |-> None]), {"resource"})

\* the value an option has for the project: the one given with -D wins
OptionTypes == {"string", "boolean", "integer", "combo", "list"}
ValueFits(type, value, choices) ==
  CASE type = "boolean" -> value \in {"true", "false"}
    [] type = "integer" -> value \in {"1", "2"}
    [] type = "combo" -> value \in ToSet(choices)
    [] OTHER -> TRUE

\* qstar_graph_add_project_option checks everything before it adds anything
NewOption(graph, name, fields, overrides, at) ==
  LET type == fields.type[1]
      given == {o \in overrides : o.name = name}
      e == Entry("option", type, name, at, [value |-> {o.value : o \in given}, declared |-> fields.value])
  IN IF /\ type \in OptionTypes
        /\ (type = "combo") <=> (fields.choices # None)
        /\ ValueFits(type, fields.value[1], fields.choices)
        /\ \A o \in given : ValueFits(type, o.value, fields.choices)
     THEN Enter(graph, e, {"option"})
     ELSE Refused(graph)

NewVariant(graph, name, fields, at) ==
  IF fields.values = None THEN Refused(graph)
  ELSE Enter(graph, Entry("variant", "variant", name, at, fields), {"variant"})

\* a project is declared once, and all of it is checked before any is set
NewProject(graph, fields, at) ==
  IF fields.root \in {None, <<".">>} THEN Enter(graph, Entry("project", "project", <<>>, at, fields), {"project"})
  ELSE Refused(graph)

UnknownOverride(graph, overrides) == \E o \in overrides : o.name \notin Keys(graph, "option")

UnknownToolset(graph) ==
  \E k \in DOMAIN graph :
    /\ graph[k].is \in {"config", "target", "rule"}
    /\ \E t \in ToSet(Field(graph[k], "toolset")) : t \notin Keys(graph, "toolset")

(***************************************************************************)
(* Language providers.  A schema is added to the provider that is in the   *)
(* table already, so one that is refused leaves the provider behind.       *)
(***************************************************************************)
Preloaded == {"c", "cxx", "asm"}

NewProvider(graph, m, at) ==
  IF m.ns \in Preloaded \/ \E p \in ToSet(Of(graph, "provider")) : p.origin = at.file THEN Refused(graph)
  ELSE Enter(graph, Entry("provider", m.api, m.ns, at, [units |-> None, finals |-> None, impl |-> <<m.impl>>]),
             {"provider"})

\* the last entry of the graph, changed
Latest(graph) == graph[Len(graph)]
Changed(graph, f, items) == [graph EXCEPT ![Len(graph)].fields = (f :> items) @@ @]

AddUnit(before, u) ==
  With(before, LAMBDA graph : Changed(graph, "units", Append(Latest(graph).fields.units, u)))

AddFinal(before, f) ==
  With(before, LAMBDA graph :
    Changed(graph, "finals", Append(Latest(graph).fields.finals, [f EXCEPT !.inputs = None, !.outputs = None])))

\* an input the final of a manifest names twice is only refused here
AddFinalInput(before, input) ==
  With(before, LAMBDA graph :
    LET finals == Latest(graph).fields.finals
        n == Len(finals)
    IN IF input \in ToSet(finals[n].inputs) THEN Refused(graph)
       ELSE [ok |-> TRUE, graph |-> Changed(graph, "finals", [finals EXCEPT ![n].inputs = Append(@, input)])])

AddFinalOutputs(before, outputs) ==
  With(before, LAMBDA graph :
    LET finals == Latest(graph).fields.finals IN
    Changed(graph, "finals", [finals EXCEPT ![Len(finals)].outputs = outputs]))
=============================================================================
