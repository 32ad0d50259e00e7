----------------------------- MODULE Authoring ------------------------------
(***************************************************************************)
(* Evaluating a project's authoring files into its graph: the Lua runtime, *)
(* seen from outside Lua.  A file is a sequence of statements that declare *)
(* things, evaluate other files - fragments, modules, language providers - *)
(* or call a helper of a module; any of them may be wrapped in pcall.      *)
(*                                                                         *)
(* The C functions behind qstar.subdir and the others keep one context     *)
(* (current directory, module depth, import stack, provider stack) that    *)
(* each changes before it runs a file and restores by hand afterwards,     *)
(* also when the file fails.  frames is the C and Lua stack, one record    *)
(* per file under evaluation or helper under way.                          *)
(*                                                                         *)
(* A file is [dir, base, ext]; a directory is a sequence of names.  What   *)
(* evaluation ends with is lowered (ProviderFinals) and validated          *)
(* (TestSuites) as the command line does.                                  *)
(***************************************************************************)
EXTENDS ProviderFinals, TestSuites

CONSTANTS
  ProjectChoices, \* [files, entry, overrides]: the projects that are tried
  Requests,       \* what qstar test may be asked for: [suites, tags, exclude]
  MaxFrames       \* bound: how many files and helpers may be under way

VARIABLES
  project,   \* the files there are, the one qstar is given and its -D options
  phase,     \* "run", "lower", "check", "ok" or "failed"
  frames,    \* what is under way, the innermost last: [file, role, pc, dir]
  ctx,       \* struct qstar_lua_context: [dir, depth, imports, providers]
  evaluated, \* graph->evaluated_fragments
  exports,   \* qstar.module.exports: the modules that returned a table
  languages, \* qstar.provider.exports: the manifests that were activated
  impl,      \* qstar.provider.implementations: functions by namespace
  graph,     \* the tables (GraphTables)
  stale,     \* TRUE once something was written to graph->error
  lints,     \* graph->lints: the fragments found missing
  err,       \* TRUE while a Lua error is unwinding the stack
  finals     \* what the providers' finals came to: [next, done]

vars == <<project, phase, frames, ctx, evaluated, exports, languages, impl, graph, stale, lints, err, finals>>
tables == <<graph, stale, impl, languages, lints>>
rest == <<project, phase, finals>>

-----------------------------------------------------------------------------
(***************************************************************************)
(* Files.                                                                  *)
(***************************************************************************)
File(dir, base, ext) == [dir |-> dir, base |-> base, ext |-> ext]
Fragment(dir) == File(dir, Last(dir), "qst")
ModuleFile(dir) == File(dir, Last(dir), "qsm")
Entry0 == File(<<>>, "qstar", "lua")

Exists(f) == f \in DOMAIN project.files
Text(f) == project.files[f]

\* do, and where it is written whether the path starts with ./ (here)
Decl(is, kind, name, fields, bad) == [is |-> is, kind |-> kind, name |-> name, fields |-> fields, bad |-> bad]
Statement(do, dir, base, here) ==
  [do |-> do, dir |-> dir, base |-> base, here |-> here, guarded |-> FALSE, d |-> Decl("", "", <<>>, <<>>, "none")]
SubdirOf(dir) == Statement("subdir", dir, "", TRUE)
ImportFileOf(dir, base, here) == Statement("import_file", dir, base, here)
ImportModuleOf(dir, here) == Statement("import_module", dir, "", here)
UseLanguageOf(dir) == Statement("use_language", dir, "", FALSE)
UseLanguageId(id) == Statement("use_language", <<>>, id, FALSE)
CallOf(dir) == Statement("call", dir, "", FALSE)
RaiseError == Statement("raise", <<>>, "", FALSE)
Declaration(d) == [Statement("declare", <<>>, "", FALSE) EXCEPT !.d = d]
Pcall(s) == [s EXCEPT !.guarded = TRUE]

Top == Last(frames)
Body(fr) == IF fr.role = "call" THEN Text(fr.file).helper ELSE Text(fr.file).body
Running == phase = "run" /\ frames # <<>> /\ ~err
AtStatement == Running /\ Top.pc > 0 /\ Top.pc <= Len(Body(Top))
Now == Body(Top)[Top.pc]
Doing(do) == AtStatement /\ Top.role # "implementation" /\ Now.do = do

-----------------------------------------------------------------------------
(***************************************************************************)
(* The start: qstar_lua_eval_file.                                         *)
(***************************************************************************)
Frame(file, role, dir) == [file |-> file, role |-> role, pc |-> 0, dir |-> dir]
Removed == "qs"

\* a file below the root is evaluated in its directory, the root's own file
\* must be qstar.lua
Startable(p) ==
  /\ p.entry.ext # Removed
  /\ Entry0 \in DOMAIN p.files
  /\ p.entry.dir = <<>> => p.entry = Entry0

Init ==
  /\ project \in ProjectChoices
  /\ phase = IF Startable(project) THEN "run" ELSE "failed"
  /\ frames = IF Startable(project) THEN <<Frame(project.entry, "fragment", <<>>)>> ELSE <<>>
  /\ ctx = [dir |-> IF Startable(project) THEN project.entry.dir ELSE <<>>, depth |-> 0, providers |-> <<>>,
            imports |-> IF Startable(project) THEN <<project.entry>> ELSE <<>>]
  /\ evaluated = ctx.imports
  /\ exports = {} /\ languages = {} /\ impl = <<>> /\ graph = <<>>
  /\ stale = ~Startable(project) /\ lints = {} /\ err = FALSE
  /\ finals = [next |-> 1, done |-> <<>>]

-----------------------------------------------------------------------------
(***************************************************************************)
(* The stack.                                                              *)
(***************************************************************************)
Roles == {"fragment", "module", "manifest", "implementation"}
Deep(role) == role \in {"module", "manifest"}

\* enter_authoring_input, after the directory was changed
PushFile(file, role, dir) ==
  /\ Len(frames) < MaxFrames
  /\ frames' = Append(frames, Frame(file, role, ctx.dir))
  /\ ctx' = [ctx EXCEPT !.dir = dir, !.imports = Append(@, file),
                        !.providers = IF role = "manifest" THEN Append(@, file) ELSE @]
  /\ evaluated' = Append(evaluated, file)

\* leave_authoring_input and the lines around it, for a frame that ends; the
\* depth only counts a module once it is loaded
LeaveWith(fr, dir) ==
  IF fr.role = "call" THEN ctx
  ELSE [dir |-> dir, imports |-> Front(ctx.imports),
        depth |-> IF Deep(fr.role) /\ fr.pc > 0 THEN ctx.depth - 1 ELSE ctx.depth,
        providers |-> IF fr.role = "manifest" THEN Front(ctx.providers) ELSE ctx.providers]

\* Mutation: a file that fails leaves its directory behind
LeaveContextOnReturn(fr) == LeaveWith(fr, IF err THEN ctx.dir ELSE fr.dir)

LeaveContext(fr) == LeaveWith(fr, fr.dir)

Below == Front(frames)
Advanced(stack) == IF stack = <<>> THEN stack ELSE [stack EXCEPT ![Len(stack)].pc = @ + 1]
Step == frames' = Advanced(frames)

\* luaL_error and lua_error: nothing else happens in this statement
Raise == err' = TRUE /\ UNCHANGED frames
Still == UNCHANGED <<ctx, evaluated, exports, tables, rest>>
Raised == Raise /\ Still
Told == Raise /\ stale' = TRUE /\ UNCHANGED <<ctx, evaluated, exports, graph, impl, languages, lints, rest>>

EnterFile(file, role, dir) == PushFile(file, role, dir) /\ UNCHANGED <<exports, tables, err, rest>>

\* luaL_loadfilex: a file that cannot be compiled has changed the context too
Load ==
  /\ Running /\ Top.pc = 0
  /\ IF Exists(Top.file) /\ Text(Top.file).form # "broken"
     THEN /\ Step
          /\ ctx' = [ctx EXCEPT !.depth = IF Deep(Top.role) THEN @ + 1 ELSE @]
          /\ UNCHANGED err
     ELSE /\ frames' = Below
          /\ ctx' = LeaveContext(Top)
          /\ err' = TRUE
  /\ UNCHANGED <<evaluated, exports, tables, rest>>

\* Mutation: only the depth is looked at
RefusesNested(f) == ctx.depth > 0

\* a fragment is not evaluated inside a module, inside itself, or twice
Refuses(f) == ctx.depth > 0 \/ f \in ToSet(ctx.imports) \/ f \in ToSet(evaluated)

\* qstar.subdir always starts from the current directory
Subdir ==
  LET dir == ctx.dir \o Now.dir
      f == Fragment(dir)
      missing == ctx.depth = 0 /\ ~Exists(f)
  IN /\ Doing("subdir")
     /\ \/ missing /\ lints' = lints \cup {f} /\ Raise
           /\ UNCHANGED <<ctx, evaluated, exports, graph, stale, impl, languages, rest>>
        \/ ~missing /\ Refuses(f) /\ Raised
        \/ ~missing /\ ~Refuses(f) /\ EnterFile(f, "fragment", dir)

From(here) == IF here THEN ctx.dir ELSE <<>>

ImportFile ==
  LET f == File(From(Now.here) \o Now.dir, Now.base, "qst")
      refused == Refuses(f) \/ ~Exists(f)
  IN /\ Doing("import_file")
     /\ \/ refused /\ Raised
        \/ ~refused /\ EnterFile(f, "fragment", f.dir)

\* a module that returned a table is not evaluated again, one that did not is
\* not tried again
ImportModule ==
  LET f == ModuleFile(From(Now.here) \o Now.dir)
      cached == f \notin ToSet(ctx.imports) /\ f \in exports
      refused == f \in ToSet(ctx.imports) \/ f \in ToSet(evaluated) \/ ~Exists(f)
  IN /\ Doing("import_module")
     /\ \/ cached /\ Step /\ UNCHANGED err /\ Still
        \/ ~cached /\ refused /\ Raised
        \/ ~cached /\ ~refused /\ EnterFile(f, "module", f.dir)

\* a provider that is named by its id is looked for in the project first
Bundled == "standard"
Manifest(s) ==
  IF s.base = "" THEN ModuleFile(s.dir)
  ELSE LET own == ModuleFile(<<"qstar", "languages", s.base>>)
       IN IF Exists(own) THEN own ELSE ModuleFile(<<Bundled, s.base>>)

UseLanguage ==
  LET m == Manifest(Now)
      forbidden == ctx.depth > 0 /\ ctx.providers = <<>>
      circular == m \in ToSet(ctx.imports) \cup ToSet(ctx.providers)
      known == \E p \in ToSet(Of(graph, "provider")) : p.origin = m
      refused == forbidden \/ circular \/ IF known THEN m \notin languages ELSE ~Exists(m)
  IN /\ Doing("use_language")
     /\ \/ refused /\ Raised
        \/ ~refused /\ known /\ Step /\ UNCHANGED err /\ Still
        \/ ~refused /\ ~known /\ EnterFile(m, "manifest", m.dir)

\* a declaration that is refused has changed the graph all the same
Declare ==
  /\ Doing("declare")
  /\ \/ ctx.depth > 0 /\ Raised
     \/ /\ ctx.depth = 0
        /\ \E came \in {Declared(graph, Now.d, [dir |-> ctx.dir, file |-> Top.file], impl, project.overrides)} :
             /\ graph' = came.graph
             /\ stale' = (stale \/ came.told)
             /\ IF came.ok THEN Step /\ UNCHANGED err ELSE Raise
        /\ UNCHANGED <<ctx, evaluated, exports, impl, languages, lints, rest>>

\* the function of a module runs in the context of whoever calls it
CallHelper ==
  LET f == ModuleFile(Now.dir)
      callable == f \in exports
  IN /\ Doing("call")
     /\ \/ ~callable /\ Raised
        \/ /\ callable /\ Len(frames) < MaxFrames
           /\ frames' = Append(frames, [Frame(f, "call", ctx.dir) EXCEPT !.pc = 1])
           /\ UNCHANGED err /\ Still

\* error(), and whatever an implementation's environment does not have
RaiseStatement ==
  /\ AtStatement /\ (Now.do = "raise" \/ Top.role = "implementation")
  /\ Raised

-----------------------------------------------------------------------------
(***************************************************************************)
(* The end of a file: return, or an error that goes up until some caller's *)
(* statement is wrapped in pcall.                                          *)
(***************************************************************************)
Returning == Running /\ Top.pc > 0 /\ Top.pc > Len(Body(Top))
Form == Text(Top.file).form

ReturnFragment ==
  /\ Returning /\ Top.role \in {"fragment", "call"}
  /\ frames' = Advanced(Below)
  /\ ctx' = LeaveContext(Top)
  /\ UNCHANGED <<evaluated, exports, tables, err, rest>>

\* an error of the C function itself, after the context was restored
ReturnRaised == frames' = Below /\ ctx' = LeaveContext(Top) /\ err' = TRUE

\* one primary artifact, which is the one without a suffix of its own, and at
\* most one to link with
ValidArtifacts(outputs) ==
  /\ Cardinality({k \in DOMAIN outputs : outputs[k].suffix = ""}) = 1
  /\ Cardinality({k \in DOMAIN outputs : outputs[k].role = "link-interface"}) <= 1

ValidFinal(api, f) ==
  /\ FinalKind(f.kind) = "none" => f.kind = "executable"
  /\ api = "2" =>
       /\ ToSet(f.inputs) \subseteq {"sources", "objects", "link_interfaces", "link_inputs", "link_options"}
       /\ ValidArtifacts(f.outputs)

\* validate_language_provider_manifest_table
ValidManifest(m) == m.api \in {"1", "2"} /\ m.exports # {} /\ \A k \in DOMAIN m.finals : ValidFinal(m.api, m.finals[k])

\* a manifest cannot be imported as a module, but inside another manifest
ReturnModule ==
  LET manifest == Form = "provider" /\ ctx.providers # <<>>
      valid == ValidManifest(Text(Top.file).manifest)
  IN /\ Returning /\ Top.role = "module"
     /\ IF Form = "ok" \/ (manifest /\ valid)
        THEN /\ frames' = Advanced(Below)
             /\ ctx' = LeaveContext(Top)
             /\ exports' = exports \cup {Top.file}
             /\ UNCHANGED err
        ELSE ReturnRaised /\ UNCHANGED exports
     /\ stale' = (stale \/ (manifest /\ ~valid))
     /\ UNCHANGED <<evaluated, graph, impl, languages, lints, rest>>

ImplementationOf(manifest) == File(manifest.dir, Text(manifest).manifest.impl, "lua")

\* the manifest is left before it is looked at; its implementation runs at
\* the depth of whoever activates the provider
ReturnManifest ==
  LET m == Text(Top.file).manifest
      f == ImplementationOf(Top.file)
      bad == Form = "ok" \/ (Form = "provider" /\ ~ValidManifest(m))
      left == LeaveContext(Top)
  IN /\ Returning /\ Top.role = "manifest"
     /\ IF Form = "provider" /\ ~bad /\ Exists(f)
        THEN /\ frames' = Append(Below, Frame(f, "implementation", left.dir))
             /\ ctx' = [left EXCEPT !.dir = f.dir, !.imports = Append(@, f)]
             /\ evaluated' = Append(evaluated, f)
             /\ UNCHANGED err
        ELSE ReturnRaised /\ UNCHANGED evaluated
     /\ stale' = (stale \/ bad)
     /\ UNCHANGED <<exports, graph, impl, languages, lints, rest>>

\* the schemas of a manifest go into the table one by one
AddInputs(acc, inputs) == FoldLeft(LAMBDA a, i : With(a, LAMBDA now : IF now.ok THEN AddFinalInput(now.graph, i) ELSE now), acc, inputs)
AddFinalSchema(before, f, api) ==
  With(before, LAMBDA a :
    LET new == [ok |-> TRUE, graph |-> AddFinal(a.graph, f)] IN
    IF ~a.ok THEN a
    ELSE IF api # "2" THEN new
    ELSE With(AddInputs(new, f.inputs), LAMBDA full :
           IF full.ok THEN [full EXCEPT !.graph = AddFinalOutputs(@, f.outputs)] ELSE full))
AddSchemas(entered, m) ==
  With(entered, LAMBDA new :
    IF ~new.ok THEN new
    ELSE FoldLeft(LAMBDA a, f : AddFinalSchema(a, f, m.api),
                  [ok |-> TRUE, graph |-> FoldLeft(LAMBDA g, u : AddUnit(g, u), new.graph, m.units)], m.finals))

\* the rest of qstar_lua_use_language: the implementation is registered
\* under its namespace before the graph refuses a namespace that is taken
ReturnImplementation ==
  LET manifest == ModuleFile(Top.file.dir)
      m == Text(manifest).manifest
      functions == Text(Top.file).functions
      complete == Form = "ok" /\ m.exports \subseteq functions
      at == [dir |-> <<>>, file |-> manifest]
  IN /\ Returning /\ Top.role = "implementation"
     /\ \E new \in {AddSchemas(NewProvider(graph, m, at), m)} :
          /\ IF complete
             THEN /\ impl' = (m.ns :> functions) @@ impl
                  /\ graph' = new.graph
             ELSE UNCHANGED <<impl, graph>>
          /\ IF complete /\ new.ok
             THEN /\ frames' = Advanced(Below)
                  /\ ctx' = LeaveContext(Top)
                  /\ languages' = languages \cup {manifest}
                  /\ UNCHANGED <<err, stale>>
             ELSE /\ ReturnRaised
                  /\ stale' = (stale \/ Form = "ok")
                  /\ UNCHANGED languages
     /\ UNCHANGED <<evaluated, exports, lints, rest>>

Unwinding == phase = "run" /\ err /\ frames # <<>>

Catch ==
  /\ Unwinding /\ Now.guarded
  /\ Step /\ err' = FALSE
  /\ Still

\* one call of lua_pcall returns its error, and the next one up goes on
Unwind ==
  /\ Unwinding /\ ~Now.guarded
  /\ frames' = Below
  /\ ctx' = LeaveContext(Top)
  /\ UNCHANGED <<evaluated, exports, tables, err, rest>>

-----------------------------------------------------------------------------
(***************************************************************************)
(* After the evaluation.                                                   *)
(***************************************************************************)
Evaluated ==
  /\ phase = "run" /\ frames = <<>>
  /\ phase' = IF err THEN "failed" ELSE "lower"
  /\ stale' = (stale \/ err)
  /\ UNCHANGED <<project, frames, ctx, evaluated, exports, languages, impl, graph, lints, err, finals>>

\* the targets are lowered one after the other, in the order of the table
Lower ==
  LET targets == Of(graph, "target") IN
  /\ phase = "lower" /\ finals.next <= Len(targets)
  /\ \E came \in {LowerFinal(graph, impl, stale, finals.done, targets[finals.next].key)} :
       /\ finals' = [next |-> finals.next + 1, done |-> came.done]
       /\ phase' = IF came.ok THEN phase ELSE "failed"
       /\ stale' = (stale \/ ~came.ok)
  /\ UNCHANGED <<project, frames, ctx, evaluated, exports, languages, impl, graph, lints, err>>

Lowered ==
  /\ phase = "lower" /\ finals.next > Len(Of(graph, "target"))
  /\ phase' = "check"
  /\ UNCHANGED <<project, frames, ctx, evaluated, exports, tables, err, finals>>

\* what main checks of the whole graph and this model has the data for
Valid == ~UnknownOverride(graph, project.overrides) /\ ~UnknownToolset(graph) /\ ValidSuites(graph)

Validate ==
  /\ phase = "check"
  /\ \E valid \in {Valid} : /\ phase' = IF valid THEN "ok" ELSE "failed"
                         /\ stale' = (stale \/ ~valid)
  /\ UNCHANGED <<project, frames, ctx, evaluated, exports, languages, impl, graph, lints, err, finals>>

Next ==
  \/ Load \/ Subdir \/ ImportFile \/ ImportModule \/ UseLanguage \/ Declare \/ CallHelper \/ RaiseStatement
  \/ ReturnFragment \/ ReturnModule \/ ReturnManifest \/ ReturnImplementation \/ Catch \/ Unwind
  \/ Evaluated \/ Lower \/ Lowered \/ Validate

\* qstar runs until it has read everything or stopped
Spec == Init /\ [][Next]_vars /\ WF_vars(Next)

-----------------------------------------------------------------------------
(***************************************************************************)
(* Properties.                                                             *)
(***************************************************************************)

\* The context that every qstar function changes and restores by hand always
\* is the one of the files under evaluation, whatever failed before and was
\* caught: the directory is that of the innermost file (a helper runs in its
\* caller's), the import stack and the provider stack are those files, and the
\* depth counts the modules among them.  eval_fragment, eval_module,
\* eval_provider_implementation, qstar_lua_use_language.
ContextIsTheStack ==
  LET files == SelectSeq(frames, LAMBDA fr : fr.role # "call")
      of(fs) == [k \in DOMAIN fs |-> fs[k].file]
  IN /\ ctx.imports = of(files)
     /\ ctx.dir = IF files = <<>> THEN <<>> ELSE Last(files).file.dir
     /\ ctx.depth = Len(SelectSeq(files, LAMBDA fr : Deep(fr.role) /\ fr.pc > 0))
     /\ ctx.providers = of(SelectSeq(files, LAMBDA fr : fr.role = "manifest"))

\* A fragment is evaluated at most once, and everything in the graph comes
\* from a file that is recorded as evaluated and has its labels in that file's
\* directory, unless a helper declared it for its caller: the plan cache and
\* the daemon watch the recorded files only.
FilesRunOnce ==
  /\ \A i, j \in DOMAIN evaluated : i # j /\ evaluated[i] = evaluated[j] => evaluated[i].ext # "qst"
  /\ \A k \in DOMAIN graph :
       LET e == graph[k] IN /\ e.origin \in ToSet(evaluated) /\ Exists(e.origin)
                            /\ e.origin.ext = "qst" => e.dir = e.origin.dir

FilesTracked == ContextIsTheStack /\ FilesRunOnce

\* done with the lowering, a target some qstar.lang/2 provider can make has one
\* owner, and its inputs fit those it needs
FinalsFit(Fits(_, _, _)) ==
  phase \in {"check", "ok"} =>
    \A t \in ToSet(Of(graph, "target")) :
      \A ns \in OwnersOf(graph, t, "2") :
        LET f == FinalsFor(graph, ns, FinalKind(t.kind))[1] IN
        /\ OwnersOf(graph, t, "2") = {ns}
        /\ t.key \in DOMAIN finals.done
        /\ finals.done[t.key].owner = ns
        /\ Fits(t, finals.done[t.key].inputs, NeededInputs(graph, finals.done, t, f, ns))

\* In a project that was lowered, a target some qstar.lang/2 provider can make
\* has one owner, and its action is given exactly the sources, objects, link
\* artifacts and link inputs that belong in it, a dependency counting with the
\* link-interface artifact of its own final; but for dependencies declared
\* after the target, which are only known to count with one of their artifacts
\* (LinkArtifactsArePromised).  lower_provider_final_action.
FinalsGetTheirInputs ==
  LET given(t, inputs, needed) ==
        LET late == LinkedLater(graph, t)
            open == UNION {PathsOf(graph, finals.done, l) : l \in late}
        IN /\ inputs \ open = needed \ open
           /\ \A l \in late : inputs \cap PathsOf(graph, finals.done, l) # {}
  IN FinalsFit(given)

\* The same of every dependency, wherever it is declared: what deps and
\* private_deps hand on is the link-interface artifact
\* (docs/language-provider-backend-contract.md).
LinkArtifactsArePromised ==
  LET given(t, inputs, needed) == inputs = needed IN FinalsFit(given)

\* The suites a request picks by tag: those with one of its tags or, when it
\* only excludes, all but the manual ones.
Picked(o) ==
  {l \in Keys(graph, "suite") :
     /\ ~Manual(graph, l)
     /\ IF o.tags = {} THEN o.suites = <<>> /\ o.exclude # {} ELSE Tagged(graph, l, o.tags)}
Asked(o) == MembersOf(graph, Reached(graph, ToSet(o.suites) \cup Picked(o), o.exclude))

KnownSuites(o) == ToSet(o.suites) \subseteq Keys(graph, "suite")
SelectsAsked(o) ==
  LET came == Selection(graph, o) IN
  /\ came.ok <=> KnownSuites(o) /\ Asked(o) # {}
  /\ came.ok => ToSet(came.labels) = Asked(o) /\ IsInjective(came.labels)

\* it selects at least what was asked for, and nothing twice
SelectsMore(o) ==
  LET came == Selection(graph, o) IN
  /\ KnownSuites(o) /\ Asked(o) # {} => came.ok
  /\ came.ok => Asked(o) \subseteq ToSet(came.labels) /\ IsInjective(came.labels)

\* suites are named, and a tag is excluded while none is included
NamesAndExcludes(o) == o.suites # <<>> /\ o.tags = {} /\ o.exclude # {}

\* In a validated project every request of qstar test that names known suites
\* selects, each once, the members of the suites that are reachable from the
\* named and the picked ones through suites without an excluded tag, and is
\* refused when that is nothing, but for requests that name suites and only
\* exclude, which select more (RequestsSelectOnlyThat); a suite is listed with
\* a target exactly when selecting the suite selects the target.
\* qstar_graph_resolve_test_selection,
\* qstar_graph_collect_test_suite_memberships.
SelectionIsReachability ==
  phase = "ok" =>
    /\ \A o \in Requests : IF NamesAndExcludes(o) THEN SelectsMore(o) ELSE SelectsAsked(o)
    /\ \A l \in MembersOf(graph, Keys(graph, "suite")) :
         Memberships(graph, l) = {s \in Keys(graph, "suite") : l \in MembersOf(graph, Reached(graph, {s}, {}))}

\* Every request selects what it asks for and no more: naming a suite and
\* excluding a tag takes that tag out of the named suite
\* (docs/composable-test-suites.md, CLI selection).
RequestsSelectOnlyThat == phase = "ok" => \A o \in Requests : SelectsAsked(o)

\* Reading a project ends, however its files name each other: import cycles
\* and provider cycles are noticed.
EvaluationEnds == <>(phase \in {"ok", "failed"})
=============================================================================
