---------------------------- MODULE Declarations ----------------------------
(***************************************************************************)
(* The declaration functions of the qstar table: what qstar.exe,           *)
(* qstar.config and the others do to the graph.  Most of them enter an     *)
(* empty entry first and read the declared fields into it one after the    *)
(* other, so a declaration that is refused half way leaves what it had     *)
(* read by then: a project that catches the error with pcall goes on with  *)
(* it.                                                                     *)
(*                                                                         *)
(* A declaration d has a table (is), a kind, the text of its name, its     *)
(* fields, and the place where it is wrong (bad): "none", "name",          *)
(* "schema", or the field whose items are read up to a bad one.  What it   *)
(* comes to is the graph, whether it was accepted (ok) and, of a refusal,  *)
(* whether it was written to the graph's own error (told).                 *)
(***************************************************************************)
EXTENDS GraphTables

Root == "//"
External == "@"

\* qstar_label_canonicalize: //dir:name and @name stand for themselves
Label(text, dir) ==
  CASE Head(text) = Root -> Tail(text)
    [] Head(text) = External -> text
    [] OTHER -> dir \o text

Given(d, f) == IF f \in DOMAIN d.fields THEN d.fields[f] ELSE <<>>

(***************************************************************************)
(* Reading fields.  A field is read into a list of the entry, as it is or  *)
(* as labels, or replaces what the entry has.                              *)
(***************************************************************************)
Texts(f)    == [from |-> f, to |-> f, how |-> "texts"]
Labels(f)   == [from |-> f, to |-> f, how |-> "labels"]
Into(f, g)  == [from |-> f, to |-> g, how |-> "labels"]
Once(f)     == [from |-> f, to |-> f, how |-> "once"]
OnceLabel(f) == [from |-> f, to |-> f, how |-> "label"]
Sources     == [from |-> "sources", to |-> "sources", how |-> "sources"]
Configs     == [from |-> "configs", to |-> "configs", how |-> "configs"]
Tools       == [from |-> "tools", to |-> "roles", how |-> "tools"]

\* what is wrong with this one goes straight to lua_error: it is not kept as
\* the graph's own error
Direct(f)   == [from |-> f, to |-> f, how |-> "direct"]

Of1(fields, f) == IF f \in DOMAIN fields THEN fields[f] ELSE <<>>

\* merge_config_lists and merge_config_scalars: lists grow, scalars are replaced
MergedLists == {"libs", "lib_dirs", "link", "link_options", "link_inputs", "lang"}
MergedScalars == {"toolset", "artifact_name", "cacheable"}
Merge(fields, config) ==
  [f \in DOMAIN fields \cup (DOMAIN config.fields \cap (MergedLists \cup MergedScalars)) |->
     CASE f \in MergedLists -> Of1(fields, f) \o Field(config, f)
       [] f \in MergedScalars /\ Field(config, f) # <<>> -> Field(config, f)
       [] OTHER -> Of1(fields, f)]

\* qstar_graph_apply_target_configs: the configs before an unknown one are merged
ApplyConfigs(graph, fields, labels) ==
  LET known(k) == labels[k] \in Keys(graph, "config")
      merged == SelectSeq([k \in DOMAIN labels |-> k], LAMBDA k : \A j \in 1..k : known(j))
  IN FoldLeft(LAMBDA now, k : Merge(now, Find(graph, "config", labels[k])), fields, merged)

(***************************************************************************)
(* Sources.  One given as a unit of a provider, or whose suffix only one   *)
(* provider knows, is lowered by the implementation of that provider while *)
(* the declaration runs; impl holds the functions each namespace has.      *)
(***************************************************************************)
BuiltinSuffixes == {"c", "o"}
Units(graph) == UNION {{<<p.key, u>> : u \in ToSet(p.fields.units)} : p \in ToSet(Of(graph, "provider"))}

\* read_source_unit_table and find_raw_provider_source_unit
UnitOf(graph, s) ==
  LET matches == {pu \in Units(graph) :
                    /\ s.suffix = pu[2].suffix
                    /\ s.ns # "" => pu[1] = s.ns /\ pu[2].name = s.unit}
  IN CASE s.ns # "" /\ matches = {} -> [ok |-> FALSE, unit |-> {}]
       [] s.ns = "" /\ \/ Cardinality(matches) > 1
                       \/ matches # {} /\ s.suffix \in BuiltinSuffixes -> [ok |-> FALSE, unit |-> {}]
       [] OTHER -> [ok |-> TRUE, unit |-> matches]

Native(s) == [path |-> s.path, suffix |-> s.suffix, ns |-> "", unit |-> ""]

\* lower_provider_source_unit: the implementation is loaded and has the
\* function the unit names
Lowers(impl, pu) == pu[1] \in DOMAIN impl /\ pu[2].lower \in impl[pu[1]]

\* push_provider_source_item: the path is a source of the target before its
\* unit is lowered, and remains one if the lowering fails
ReadSource(graph, impl, before, s) ==
  With(before, LAMBDA acc : With(UnitOf(graph, s), LAMBDA found :
    IF ~acc.ok \/ ~found.ok THEN [acc EXCEPT !.ok = FALSE]
    ELSE IF found.unit = {} THEN [acc EXCEPT !.items = Append(@, Native(s))]
    ELSE LET pu == CHOOSE x \in found.unit : TRUE
             lowered == Lowers(impl, pu)
         IN [ok |-> lowered,
             items |-> Append(acc.items, IF lowered THEN [Native(s) EXCEPT !.ns = pu[1], !.unit = pu[2].name]
                                         ELSE Native(s))]))

ReadSources(graph, impl, items) ==
  FoldLeft(LAMBDA acc, s : ReadSource(graph, impl, acc, s), [ok |-> TRUE, items |-> <<>>], items)

\* read_toolset_tools: a namespace of tools needs its provider
ReadTools(graph, tools) ==
  LET known(t) == t.ns \in {""} \cup Preloaded \cup Keys(graph, "provider")
      bad == {k \in 1..Len(tools) : ~known(tools[k])}
  IN IF bad = {} THEN [ok |-> tools # <<>>, items |-> tools]
     ELSE [ok |-> FALSE, items |-> SubSeq(tools, 1, (CHOOSE k \in bad : \A j \in bad : k <= j) - 1)]

LabelsOf(d, at, r) == [k \in DOMAIN Given(d, r.from) |-> Label(Given(d, r.from)[k], at.dir)]

\* what is read from one field, and whether it stops there
Piece(graph, at, impl, d, r) ==
  LET items == Given(d, r.from)
      bad == d.bad = r.from
      kept == IF bad THEN <<>> ELSE items
  IN CASE r.how = "texts" -> [ok |-> ~bad, items |-> items]
       [] r.how = "labels" -> [ok |-> ~bad, items |-> LabelsOf(d, at, r)]
       [] r.how \in {"once", "direct"} -> [ok |-> ~bad, items |-> kept]
       [] r.how = "label" -> [ok |-> ~bad, items |-> IF bad THEN <<>> ELSE LabelsOf(d, at, r)]
       [] r.how = "configs" ->
            [ok |-> ~bad /\ ToSet(LabelsOf(d, at, r)) \subseteq Keys(graph, "config"), items |-> LabelsOf(d, at, r)]
       [] r.how = "sources" -> LET came == ReadSources(graph, impl, items) IN [came EXCEPT !.ok = @ /\ ~bad]
       [] r.how = "tools" -> LET came == ReadTools(graph, items) IN [came EXCEPT !.ok = @ /\ ~bad]

\* lists grow with what is read and the others are replaced by it
Grow(r, now, items) == IF r.how \in {"texts", "labels"} THEN now \o items ELSE IF items = <<>> THEN now ELSE items

\* the fields are read one after the other until one is bad, the configs
\* before any that they are merged into
FieldsRead(graph, at, d, fields, pieces, stop) ==
  LET first == IF stop > 0 /\ pieces[1].read = Configs /\ d.bad # "configs"
               THEN ApplyConfigs(graph, fields, LabelsOf(d, at, Configs)) ELSE fields
      into(f) == SelectSeq([k \in 1..stop |-> pieces[k]], LAMBDA p : p.read.to = f)
  IN [f \in DOMAIN first \cup {pieces[k].read.to : k \in 1..stop} |->
        FoldLeft(LAMBDA now, p : Grow(p.read, now, p.came.items), Of1(first, f), into(f))]

FirstBad(pieces) ==
  LET bad == {k \in DOMAIN pieces : ~pieces[k].came.ok}
  IN IF bad = {} THEN Len(pieces) ELSE CHOOSE k \in bad : \A j \in bad : k <= j

\* a field that is not there is passed over, but a toolset needs its tools
Pieces(graph, at, impl, d, reads) ==
  SelectSeq([k \in DOMAIN reads |-> [read |-> reads[k], came |-> Piece(graph, at, impl, d, reads[k])]],
            LAMBDA p : Given(d, p.read.from) # <<>> \/ p.read = Tools \/ d.bad = p.read.from)

ReadFields(graph, at, impl, d, fields, reads) ==
  With(Pieces(graph, at, impl, d, reads), LAMBDA pieces :
  With(FirstBad(pieces), LAMBDA stop :
    LET ok == \A k \in DOMAIN pieces : pieces[k].came.ok
    IN [ok |-> ok, told |-> ~ok /\ pieces[stop].read.how # "direct",
        fields |-> FieldsRead(graph, at, d, fields, pieces, stop)]))

(***************************************************************************)
(* The fields of each kind of declaration, in the order they are read.     *)
(***************************************************************************)
TargetReads(kind) ==
  <<Configs, Texts("lang"), Sources, Labels("objects"), Labels("deps"), Into("public_deps", "deps"),
    Labels("private_deps"), Texts("visibility"), Texts("libs"), Texts("lib_dirs"), Texts("link"),
    Texts("link_options"), Texts("link_inputs"), Texts("compile_usage"), Texts("link_usage"),
    Once("compile_context"), OnceLabel("toolset"), Once("cacheable"), Direct("artifact_name")>>
  \o CASE kind = "imported" -> <<Once("artifact_kind"), Texts("artifacts")>>
       [] kind = "tool" -> <<Direct("path")>>
       [] kind = "run_target" -> <<Once("description"), Texts("inputs"), Texts("command"), Direct("timeout"), Texts("expect")>>
       [] kind = "test" -> <<Texts("resources"), Once("retry"), Texts("setup"), Texts("cleanup"), Once("skip"),
                             Direct("timeout"), Once("manual")>>
       [] OTHER -> <<>>

ConfigReads ==
  <<Texts("libs"), Texts("lib_dirs"), Texts("link"), Texts("link_options"), Texts("link_inputs"), Texts("lang"),
    Once("cacheable"), OnceLabel("toolset"), Direct("artifact_name")>>

ToolsetReads ==
  <<Tools, Once("response_files"), Once("response_style"), Once("allow_absolute_tools"), Texts("path_tools"),
    Texts("response_file_tools")>>

\* tool and args, the fields of an older form, are looked for first
RuleReads == <<Direct("tool"), OnceLabel("toolset"), Texts("inputs"), Texts("outputs"), Texts("command"), Once("cacheable")>>
TransformReads == <<OnceLabel("toolset"), Texts("input"), Texts("output"), Texts("command"), Once("cacheable")>>
ConfigureReads == <<Direct("output"), Once("description"), Texts("defines"), Once("cacheable")>>
StageReads == <<Direct("root"), Once("description"), Texts("files")>>
FamilyReads == <<Once("allow_shared_sources"), Texts("variants"), Labels("targets")>>
SuiteReads == <<Labels("tests"), Texts("tags"), Once("description"), Once("manual")>>
ResourceReads == <<Once("description"), Direct("capacity")>>

(***************************************************************************)
(* The declarations.                                                       *)
(***************************************************************************)
Fails(graph, told) == [ok |-> FALSE, told |-> told, graph |-> graph]

\* no field that the kind does not have, and none of another type, which is
\* looked at before any field is read
FieldsFit(d) == d.bad # "schema"

\* an entry that is in the graph already, and what is read into it
Fill(entered, at, impl, d, reads) ==
  With(entered, LAMBDA new :
    IF ~new.ok \/ ~FieldsFit(d) THEN Fails(new.graph, TRUE)
    ELSE With(ReadFields(new.graph, at, impl, d, Latest(new.graph).fields, reads), LAMBDA done :
           [ok |-> done.ok, told |-> done.told,
            graph |-> [new.graph EXCEPT ![Len(new.graph)].fields = done.fields]]))

\* what is missing altogether is only noticed at the end
Complete(filled, d, fields) ==
  With(filled, LAMBDA done :
    IF done.ok /\ \A f \in fields : Given(d, f) = <<>> THEN Fails(done.graph, FALSE) ELSE done)

AddTarget(graph, d, at, impl) ==
  LET done == Fill(NewTarget(graph, d.kind, Label(d.name, at.dir), at), at, impl, d, TargetReads(d.kind))
  IN IF d.kind = "run_target" THEN Complete(done, d, {"command"}) ELSE done

AddConfig(graph, d, at, impl) == Fill(NewConfig(graph, Label(d.name, at.dir), at), at, impl, d, ConfigReads)
AddToolset(graph, d, at, impl) == Fill(NewToolset(graph, Label(d.name, at.dir), at), at, impl, d, ToolsetReads)
AddRule(graph, d, at, impl) == Fill(NewRule(graph, d.kind, Label(d.name, at.dir), at), at, impl, d, RuleReads)
AddTransform(graph, d, at, impl) == Fill(NewRule(graph, d.kind, Label(d.name, at.dir), at), at, impl, d, TransformReads)
AddConfigureFile(graph, d, at, impl) ==
  Fill(NewRule(graph, d.kind, Label(d.name, at.dir), at), at, impl, d, ConfigureReads)
AddStage(graph, d, at, impl) == Fill(NewStage(graph, Label(d.name, at.dir), at), at, impl, d, StageReads)
AddSuite(graph, d, at, impl) == Fill(NewSuite(graph, Label(d.name, at.dir), at), at, impl, d, SuiteReads)
AddResource(graph, d, at, impl) ==
  Complete(Fill(NewResource(graph, d.name, at), at, impl, d, ResourceReads), d, {"capacity"})

AddFamily(graph, d, at, impl) ==
  Complete(Fill(NewFamily(graph, d.name, at), at, impl, d, FamilyReads), d, {"variants", "targets"})

\* an option, a variant and the project are read before anything is added;
\* what a variant returns is only made afterwards, and may fail then
Whole(new) == IF new.ok THEN [ok |-> TRUE, told |-> FALSE, graph |-> new.graph] ELSE Fails(new.graph, TRUE)

\* the type is one of those there are and the value is of it
OptionFits(d) == d.bad = "none"

\* the values are scalars, or lists and tables of them however deep: what is
\* too deep to be returned is only noticed then
VariantFits(d) == d.bad \in {"none", "nested"}

AddOption(graph, d, at, overrides) ==
  IF ~OptionFits(d) THEN Fails(graph, d.bad \notin {"type", "value"})
  ELSE Whole(NewOption(graph, d.name, [type |-> Given(d, "type"), value |-> Given(d, "value"), choices |-> Given(d, "choices")],
                       overrides, at))

AddVariant(graph, d, at) ==
  IF ~VariantFits(d) THEN Fails(graph, d.bad # "values")
  ELSE LET new == Whole(NewVariant(graph, d.name, [values |-> Given(d, "values"), tags |-> Given(d, "tags")], at))
       IN IF new.ok /\ d.bad = "nested" THEN Fails(new.graph, FALSE) ELSE new

SetProject(graph, d, at) ==
  IF d.bad # "none" THEN Fails(graph, TRUE) ELSE Whole(NewProject(graph, [root |-> Given(d, "root")], at))

\* where a declaration runs: the directory its labels are relative to and the
\* file it is written in
Declared(graph, d, at, impl, overrides) ==
  IF d.bad = "name" THEN Fails(graph, FALSE)
  ELSE CASE d.is = "target" -> AddTarget(graph, d, at, impl)
         [] d.is = "config" -> AddConfig(graph, d, at, impl)
         [] d.is = "toolset" -> AddToolset(graph, d, at, impl)
         [] d.is = "rule" /\ d.kind = "custom" -> AddRule(graph, d, at, impl)
         [] d.is = "rule" /\ d.kind = "transform" -> AddTransform(graph, d, at, impl)
         [] d.is = "rule" /\ d.kind = "configure" -> AddConfigureFile(graph, d, at, impl)
         [] d.is = "stage" -> AddStage(graph, d, at, impl)
         [] d.is = "suite" -> AddSuite(graph, d, at, impl)
         [] d.is = "resource" -> AddResource(graph, d, at, impl)
         [] d.is = "family" -> AddFamily(graph, d, at, impl)
         [] d.is = "option" -> AddOption(graph, d, at, overrides)
         [] d.is = "variant" -> AddVariant(graph, d, at)
         [] d.is = "project" -> SetProject(graph, d, at)
=============================================================================
