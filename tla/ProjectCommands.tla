-------------------------- MODULE ProjectCommands --------------------------
(***************************************************************************)
(* Project commands: named sequences of steps an authoring file declares,  *)
(* with options of their own, that qstar reads, validates once and then    *)
(* runs on demand.  A command may call another one, so running one is a    *)
(* stack of frames; a step of any other kind unfolds into the builds,      *)
(* copies and processes of Staging.                                        *)
(*                                                                         *)
(* A project is a sequence of commands [name, aliases, default, options,   *)
(* steps].  Values and labels are members of small sets.                   *)
(***************************************************************************)
EXTENDS Staging, Functions, Relation

CONSTANTS
  Projects,    \* what the authoring files may declare
  Invocations, \* what a user may type: [name, argv]
  TestTargets, \* the targets that are tests
  Reserved,    \* command names the command line keeps
  Integers10,  \* the words that read as a decimal integer
  DepthLimit,  \* how deep calls may nest: 32 in the code
  MaxRuns      \* bound: how many commands the user runs

VARIABLES
  project,  \* the declared commands
  phase,    \* "declared", "refused", "idle", "running", "ok", "failed", "help", "killed"
  frames,   \* the calls under way: [cmd, values, pc], the innermost last
  busy,     \* TRUE while the current step unfolds
  log,      \* history: what the steps of this run did, in order
  started,  \* history: the first frame of this run, or none
  runs      \* how many commands the user has run

commandVars == <<project, phase, frames, busy, log, started, runs>>
vars == <<stagingVars, commandVars>>

-----------------------------------------------------------------------------
(***************************************************************************)
(* What an authoring file writes: qstar.step.*, qstar.param.* and the      *)
(* items of qstar.cli.                                                     *)
(***************************************************************************)

Word(w)     == [is |-> "word", of |-> w]
Param(o)    == [is |-> "param", of |-> o]
ArgIf(o, w) == [is |-> "arg_if", of |-> o, word |-> w]
ArgsIf(o, words) == [k \in DOMAIN words |-> ArgIf(o, words[k])]
Input(n)    == [is |-> "input", of |-> n]
File(l)     == [is |-> "file", of |-> l]
StageDir(s) == [is |-> "stage_dir", of |-> s]

Always == "always"
Step(kind, of, when) ==
  [kind |-> kind, of |-> of, when |-> when, argv |-> <<>>, inputs |-> <<>>,
   to |-> Word("none"), dry |-> FALSE]

LabelStep(kind, l, when) == Step(kind, l, when)
StageStep(s, root, dry, when) == [Step("stage", s, when) EXCEPT !.to = Word(root), !.dry = dry]
ExportStep(s, to, dry, when) == [Step("export_stage", s, when) EXCEPT !.to = to, !.dry = dry]
CallStep(c, when) == Step("call", c, when)
RunStep(inputs, argv, when) == [Step("run", "none", when) EXCEPT !.inputs = inputs, !.argv = argv]

Option(type, required, default) ==
  [type |-> type, required |-> required, default |-> default, choices |-> {"d", "v"}]
NoDefault == "no default"

-----------------------------------------------------------------------------
(***************************************************************************)
(* Reading and validating.                                                 *)
(***************************************************************************)

IsRelative(w) == w \in Dirs
HasDefault(o) == o.default # NoDefault
Options(c) == DOMAIN c.options
NamesOf(c) == {c.name} \cup ToSet(c.aliases)
StepsOf(c) == {c.steps[k] : k \in DOMAIN c.steps}

\* read_command_option_default: what the reader lets through
ReadableOption(o) ==
  HasDefault(o) =>
    /\ o.type # "list"
    /\ o.type = "bool" => o.default \in {"true", "false"}
    /\ o.type = "int" => o.default \in Integers10

\* a placeholder of the argument vector stands for an input that is there
ReadableStep(st) ==
  st.kind = "run" =>
    \A k \in DOMAIN st.argv : st.argv[k].is = "input" => st.argv[k].of \in DOMAIN st.inputs

\* the name is checked as the command is declared, its aliases only later
Readable(p) ==
  /\ \A i \in DOMAIN p : /\ p[i].name \notin Reserved
                         /\ \A j \in 1..(i - 1) : p[i].name \notin NamesOf(p[j])
                         /\ \A o \in Range(p[i].options) : ReadableOption(o)
                         /\ \A st \in StepsOf(p[i]) : ReadableStep(st)

ValidOption(o) ==
  /\ o.type \in {"string", "path", "bool", "int", "enum", "list"}
  /\ o.required => ~HasDefault(o) /\ o.type # "bool"
  /\ o.type = "enum" => o.choices # {}
  /\ o.type = "enum" /\ HasDefault(o) => o.default \in o.choices
  /\ o.type = "path" /\ HasDefault(o) => IsRelative(o.default)

IsBool(c, o) == o \in Options(c) /\ c.options[o].type = "bool"

ValidArg(c, a) ==
  /\ a.is = "param" => a.of \in Options(c)
  /\ a.is = "arg_if" => IsBool(c, a.of)

Known(l) == l \in Targets \cup Rules \cup Stages
Everything == "//..."

Candidates(p, word) == {i \in DOMAIN p : word \in NamesOf(p[i])}

ValidStep(p, c, st) ==
  /\ st.when # Always => IsBool(c, st.when)
  /\ CASE st.kind = "build" -> Known(st.of)
       [] st.kind = "test" -> st.of = Everything \/ st.of \in TestTargets
       [] st.kind = "stage" -> st.of \in Stages /\ (st.to.of # "none" => IsRelative(st.to.of))
       [] st.kind \in {"check", "lint"} -> st.of = Everything \/ Known(st.of)
       [] st.kind = "call" -> Candidates(p, st.of) # {}
       [] st.kind = "run" -> st.argv # <<>> /\ \A k \in DOMAIN st.argv : ValidArg(c, st.argv[k])
       [] st.kind = "export_stage" ->
            /\ st.of \in Stages
            /\ IF st.to.is = "param"
               THEN st.to.of \in Options(c) /\ c.options[st.to.of].type = "path"
               ELSE IsRelative(st.to.of)
       [] OTHER -> FALSE

ValidNames(p) ==
  /\ \A i \in DOMAIN p : IsInjective(p[i].aliases) /\ ToSet(p[i].aliases) \cap Reserved = {}
  /\ \A i, k \in DOMAIN p :
       i # k => /\ p[i].name \notin NamesOf(p[k])
                /\ ToSet(p[i].aliases) \cap NamesOf(p[k]) = {}
  /\ \A i, k \in DOMAIN p : p[i].default /\ p[k].default => i = k

\* qstar_graph_find_project_command: the first one the word names
Lookup(p, word) == CHOOSE i \in Candidates(p, word) : \A k \in Candidates(p, word) : i <= k

\* project_command_dfs_validate: a command that is met again while its own
\* calls are looked at is on a cycle; Visit returns what has been looked at
Visiting == 1
Visited == 2
RECURSIVE Visit(_, _, _)
Visit(p, i, state) ==
  IF state.cycle \/ state.of[i] = Visited THEN state
  ELSE IF state.of[i] = Visiting THEN [state EXCEPT !.cycle = TRUE]
  ELSE LET calls == SelectSeq(p[i].steps, LAMBDA st : st.kind = "call")
           after == FoldLeft(LAMBDA s, st : Visit(p, Lookup(p, st.of), s),
                             [state EXCEPT !.of[i] = Visiting], calls)
       IN [after EXCEPT !.of[i] = Visited]

\* Mutation: a command under way counts as looked at.
RECURSIVE VisitOnce(_, _, _)
VisitOnce(p, i, state) ==
  IF state.cycle \/ state.of[i] # 0 THEN state
  ELSE LET calls == SelectSeq(p[i].steps, LAMBDA st : st.kind = "call")
           after == FoldLeft(LAMBDA s, st : VisitOnce(p, Lookup(p, st.of), s),
                             [state EXCEPT !.of[i] = Visiting], calls)
       IN [after EXCEPT !.of[i] = Visited]

\* Mutation
HasCallCycleOnce(p) ==
  FoldLeft(LAMBDA s, i : VisitOnce(p, i, s), [cycle |-> FALSE, of |-> [i \in DOMAIN p |-> 0]],
           [i \in DOMAIN p |-> i]).cycle

HasCallCycle(p) ==
  FoldLeft(LAMBDA s, i : Visit(p, i, s), [cycle |-> FALSE, of |-> [i \in DOMAIN p |-> 0]],
           [i \in DOMAIN p |-> i]).cycle

\* qstar_graph_validate_project_commands
ValidCommands(p) ==
  /\ \A i \in DOMAIN p :
       /\ p[i].steps # <<>>
       /\ \A o \in Range(p[i].options) : ValidOption(o)
       /\ \A st \in StepsOf(p[i]) : ValidStep(p, p[i], st)
  /\ ValidNames(p)
  /\ ~HasCallCycle(p)

-----------------------------------------------------------------------------
(***************************************************************************)
(* The values a command runs with.                                         *)
(***************************************************************************)

\* command_runtime_init: a bool starts with its default; every other option
\* is given its default and then, by the branch that follows, the empty value
InitialValues(c) ==
  [o \in Options(c) |->
     CASE c.options[o].type = "bool" -> IF HasDefault(c.options[o]) THEN c.options[o].default ELSE "false"
       [] c.options[o].type = "list" -> <<>>
       [] OTHER -> ""]

\* validate_command_option_value
ValidValue(o, v) ==
  /\ o.type = "int" => v \in Integers10
  /\ o.type = "enum" => v \in o.choices
  /\ o.type = "path" => IsRelative(v)

\* The items of an argument vector: [is: "set", of, to] is --of=to, or --of
\* with to = "" and a value in the next item; [is: "no", of] is --no-of.
Set(o, v) == [is |-> "set", of |-> o, to |-> v]
No(o)     == [is |-> "no", of |-> o, to |-> ""]
Value(v)  == [is |-> "value", of |-> "", to |-> v]
Help      == [is |-> "help", of |-> "", to |-> ""]

Assign(c, acc, o, v) ==
  IF ~ValidValue(c.options[o], v) THEN [acc EXCEPT !.status = "error"]
  ELSE [acc EXCEPT !.awaits = "",
                   !.seen = @ \cup {o},
                   !.values[o] = IF c.options[o].type = "list" THEN Append(@, v) ELSE v]

\* one item of the loop of parse_project_command_args
ParseItem(c, acc, item) ==
  LET error == [acc EXCEPT !.status = "error"] IN
  IF acc.status # "ok" THEN acc
  ELSE IF acc.awaits # ""
       THEN IF item.is = "value" THEN Assign(c, acc, acc.awaits, item.to) ELSE error
  ELSE CASE item.is = "help" -> [acc EXCEPT !.status = "help"]
         [] item.is = "value" -> error
         [] item.is = "no" -> IF IsBool(c, item.of) THEN Assign(c, acc, item.of, "false") ELSE error
         [] item.is = "set" ->
              IF item.of \notin Options(c) THEN error
              ELSE IF IsBool(c, item.of)
                   THEN IF item.to \in {"", "true", "false"}
                        THEN Assign(c, acc, item.of, IF item.to = "false" THEN "false" ELSE "true")
                        ELSE error
              ELSE IF item.to = "" THEN [acc EXCEPT !.awaits = item.of]
              ELSE Assign(c, acc, item.of, item.to)

\* parse_project_command_args: the values, and "ok", "help" or "error"
ParseArgs(c, argv) ==
  LET start == [status |-> "ok", awaits |-> "", seen |-> {}, values |-> InitialValues(c)]
      end == FoldLeft(LAMBDA acc, item : ParseItem(c, acc, item), start, argv)
      missing == {o \in Options(c) : c.options[o].required} \ end.seen
  IN IF end.status = "ok" /\ (end.awaits # "" \/ missing # {}) THEN [end EXCEPT !.status = "error"] ELSE end

-----------------------------------------------------------------------------
(***************************************************************************)
(* Running.                                                                *)
(***************************************************************************)

Top == frames[Len(frames)]
Command == project[Top.cmd]
Current == Command.steps[Top.pc]
HasStep == Top.pc <= Len(Command.steps)

Frame(i, parsed) == [cmd |-> i, values |-> parsed.values, given |-> parsed.seen, pc |-> 1]
Advance(fs) == [fs EXCEPT ![Len(fs)].pc = @ + 1]

\* resolve_command_runtime_argv, one item: a file or a stage directory stands
\* for its path
Resolved(c, values, st, a) ==
  CASE a.is = "param" -> IF c.options[a.of].type = "list" THEN values[a.of] ELSE <<values[a.of]>>
    [] a.is = "arg_if" -> IF values[a.of] = "true" THEN <<a.word>> ELSE <<>>
    [] a.is = "input" -> <<st.inputs[a.of].of>>
    [] OTHER -> <<a.of>>
ResolvedArgv(c, values, st) ==
  FlattenSeq([k \in DOMAIN st.argv |-> Resolved(c, values, st, st.argv[k])])

ExportTo(values, st) == IF st.to.is = "param" THEN values[st.to.of] ELSE st.to.of
StageRoot(st) == IF st.to.of = "none" THEN Own ELSE st.to.of

\* what a step does, as the history tells it
Entry(c, values, st) ==
  [kind |-> st.kind, of |-> st.of, dry |-> st.dry,
   words |-> CASE st.kind = "run" -> ResolvedArgv(c, values, st)
               [] st.kind = "export_stage" -> <<ExportTo(values, st)>>
               [] st.kind = "stage" -> <<StageRoot(st)>>
               [] OTHER -> <<>>]

\* the input an item of an argument vector stands for
ArgInput(st, a) == IF a.is = "input" THEN st.inputs[a.of] ELSE a

\* project_command_materialize_input: a stage is staged at its own root, a
\* file is built, and a word is left alone
Materialize(i) ==
  CASE i.is = "stage_dir" -> <<Stage(i.of, Own, FALSE)>>
    [] i.is = "file" -> <<Make(i.of)>>
    [] OTHER -> <<>>

\* Mutation: only the declared inputs are made.
MaterializeNothing(st, a) == <<>>

\* what the words of a run step name is made as its inputs are
MaterializeArg(st, a) == Materialize(ArgInput(st, a))

RunInputs(st) == ToSet(st.inputs) \cup {ArgInput(st, st.argv[k]) : k \in DOMAIN st.argv}
Process(c, values, st) ==
  [do |-> "process", inputs |-> RunInputs(st),
   words |-> IF \A k \in DOMAIN st.argv : ValidArg(c, st.argv[k]) THEN ResolvedArgv(c, values, st)
             ELSE <<"unknown option">>]
Check(l) == [do |-> "check", of |-> l]
Lint(l) == [do |-> "lint", of |-> l]
Test(l) == [do |-> "test", of |-> l]

\* qstar_graph_test: the selected tests are built, then run as one batch
TestWork(l) ==
  (IF l = Everything THEN [k \in 1..Cardinality(TestTargets) |-> Make(SetToSeq(TestTargets)[k])]
   ELSE <<Make(l)>>) \o <<Test(l)>>

\* run_project_command_internal, the branches that call something else
WorkOf(c, values, st) ==
  CASE st.kind = "build" -> <<Make(st.of)>>
    [] st.kind = "test" -> TestWork(st.of)
    [] st.kind = "stage" -> <<Stage(st.of, StageRoot(st), st.dry)>>
    [] st.kind = "check" -> <<Check(st.of)>>
    [] st.kind = "lint" -> <<Lint(st.of)>>
    [] st.kind = "export_stage" -> <<Export(st.of, ExportTo(values, st), st.dry)>>
    [] st.kind = "run" ->
         FlattenSeq([k \in DOMAIN st.inputs |-> Materialize(st.inputs[k])])
           \o FlattenSeq([k \in DOMAIN st.argv |-> MaterializeArg(st, st.argv[k])])
           \o <<Process(c, values, st)>>

\* export_project_command_stage: where to is looked at before anything is done
Refusal(c, values, st) ==
  CASE st.kind = "export_stage" /\ st.to.is = "param" /\ st.to.of \notin Options(c) -> "unknown option"
    [] st.kind = "export_stage" /\ ~IsRelative(ExportTo(values, st)) -> "no destination"
    [] OTHER -> "none"

Idle == phase = "running" /\ ~busy

Stop(outcome, reason) ==
  /\ phase' = outcome
  /\ why' = reason
  /\ work' = <<>>
  /\ frames' = <<>>
  /\ busy' = FALSE

\* Validate the declared commands: qstar eval stops at the first error.
Validate ==
  /\ phase = "declared"
  /\ phase' = IF Readable(project) /\ ValidCommands(project) THEN "idle" ELSE "refused"
  /\ UNCHANGED <<stagingVars, project, started, frames, busy, log, runs>>

\* qstar_graph_run_project_command; without a name, the default command
RunCommand(call) ==
  /\ phase \in {"idle", "ok", "failed", "help", "killed"} /\ runs < MaxRuns
  /\ runs' = runs + 1
  /\ log' = <<>>
  /\ LET named == IF call.name = "" THEN {i \in DOMAIN project : project[i].default}
                  ELSE Candidates(project, call.name)
     IN IF named = {}
        THEN Stop("failed", "no command") /\ started' = <<>>
        ELSE LET i == IF call.name = "" THEN CHOOSE d \in named : TRUE ELSE Lookup(project, call.name)
                 parsed == ParseArgs(project[i], call.argv)
             IN CASE parsed.status = "error" -> Stop("failed", "arguments") /\ started' = <<>>
                  [] parsed.status = "help" -> Stop("help", "none") /\ started' = <<>>
                  [] OTHER -> /\ phase' = "running"
                              /\ started' = <<Frame(i, parsed)>>
                              /\ frames' = <<Frame(i, parsed)>>
                              /\ why' = "none"
                              /\ UNCHANGED <<work, busy>>
  /\ UNCHANGED <<version, tree, manifest, cut, short, project>>

\* command_runtime_bool_enabled: a step whose condition is false is skipped
Conditional == Current.when # Always
Enabled == Conditional => IsBool(Command, Current.when) /\ Top.values[Current.when] = "true"

SkipStep ==
  /\ Idle /\ HasStep /\ ~Enabled
  /\ IF IsBool(Command, Current.when)
     THEN frames' = Advance(frames) /\ UNCHANGED <<phase, why, work, busy>>
     ELSE Stop("failed", "unknown option")
  /\ UNCHANGED <<version, tree, manifest, cut, short, project, started, log, runs>>

\* Mutation: a called command sees the values of its caller.
CalledWithCaller(i) ==
  [ParseArgs(project[i], <<>>) EXCEPT
     !.values = [o \in DOMAIN @ |-> IF o \in DOMAIN Top.values THEN Top.values[o] ELSE @[o]]]

\* a called command has no arguments: its own initial values
CalledValues(i) == ParseArgs(project[i], <<>>)

CallCommand ==
  /\ Idle /\ HasStep /\ Enabled /\ Current.kind = "call"
  /\ LET i == Lookup(project, Current.of)
         parsed == CalledValues(i)
     IN IF Candidates(project, Current.of) = {} THEN Stop("failed", "unknown command")
        ELSE IF parsed.status = "error" THEN Stop("failed", "arguments")
        ELSE IF Len(frames) > DepthLimit THEN Stop("failed", "depth")
        ELSE frames' = Append(frames, Frame(i, parsed)) /\ UNCHANGED <<phase, why, work, busy>>
  /\ UNCHANGED <<version, tree, manifest, cut, short, project, started, log, runs>>

StartStep ==
  /\ Idle /\ HasStep /\ Enabled /\ Current.kind # "call"
  /\ LET refusal == Refusal(Command, Top.values, Current) IN
     IF refusal # "none" THEN Stop("failed", refusal)
     ELSE /\ busy' = TRUE
          /\ work' = WorkOf(Command, Top.values, Current)
          /\ UNCHANGED <<phase, why, frames>>
  /\ UNCHANGED <<version, tree, manifest, cut, short, project, started, log, runs>>

Running(kind) == phase = "running" /\ busy /\ Pending /\ Now.do = kind

CopyStep ==
  /\ phase = "running" /\ busy
  /\ StagingStep
  /\ UNCHANGED commandVars

\* run_project_command_process: the process may change the project's inputs;
\* it ends well, or with an exit code, a timeout or an expectation not met
RunProcess ==
  /\ Running("process")
  /\ IF Now.words = <<>> THEN Fail("argv") /\ UNCHANGED version
     ELSE IF Now.words = <<"unknown option">> THEN Fail("unknown option") /\ UNCHANGED version
     ELSE /\ version' \in {version} \cup ({version + 1} \cap Whole)
          /\ (work' = Rest /\ UNCHANGED why) \/ Fail("process")
  /\ UNCHANGED <<tree, manifest, cut, short, commandVars>>

\* a batch of tests passes or not; a check of a validated graph passes; the
\* linter only knows targets
RunOther ==
  /\ \/ Running("test") /\ ((work' = Rest /\ UNCHANGED why) \/ Fail("test"))
     \/ Running("check") /\ work' = Rest /\ UNCHANGED why
     \/ /\ Running("lint")
        /\ IF Now.of \in Targets \cup {Everything}
           THEN (work' = Rest /\ UNCHANGED why) \/ Fail("lint")
           ELSE Fail("unknown target")
  /\ UNCHANGED <<version, tree, manifest, cut, short, commandVars>>

\* Mutation: a step that fails is started again.
EndStepAgain ==
  /\ phase = "running" /\ busy /\ ~Pending
  /\ log' = IF why = "none" THEN Append(log, Entry(Command, Top.values, Current)) ELSE log
  /\ frames' = IF why = "none" THEN Advance(frames) ELSE frames
  /\ busy' = FALSE
  /\ why' = "none"
  /\ UNCHANGED <<version, tree, manifest, cut, short, work, project, phase, started, runs>>

EndStep ==
  /\ phase = "running" /\ busy /\ ~Pending
  /\ IF why = "none"
     THEN /\ log' = Append(log, Entry(Command, Top.values, Current))
          /\ frames' = Advance(frames)
          /\ busy' = FALSE
          /\ UNCHANGED <<phase, why, work>>
     ELSE Stop("failed", why) /\ UNCHANGED log
  /\ UNCHANGED <<version, tree, manifest, cut, short, project, started, runs>>

\* the last step of a command is done: its caller goes on, if it has one
ReturnFromCommand ==
  /\ Idle /\ ~HasStep
  /\ IF Len(frames) = 1 THEN Stop("ok", "none")
     ELSE frames' = Advance(Front(frames)) /\ UNCHANGED <<phase, why, work, busy>>
  /\ UNCHANGED <<version, tree, manifest, cut, short, project, started, log, runs>>

\* qstar is killed in the middle of a step; between two steps nothing is half
\* done.  The user edits the project between two commands
Kill ==
  /\ phase = "running" /\ busy /\ Pending
  /\ StagingKilled
  /\ phase' = "killed" /\ frames' = <<>> /\ busy' = FALSE
  /\ UNCHANGED <<project, log, started, runs>>

Edit ==
  /\ phase \in {"ok", "failed", "killed"} /\ runs < MaxRuns /\ version < MaxVersion
  /\ version' = version + 1
  /\ UNCHANGED <<tree, manifest, cut, short, work, why, commandVars>>

Interpret ==
  \/ SkipStep \/ CallCommand \/ StartStep \/ CopyStep
  \/ RunProcess \/ RunOther \/ EndStep \/ ReturnFromCommand

Next ==
  \/ Validate
  \/ \E call \in Invocations : RunCommand(call)
  \/ Interpret
  \/ Kill
  \/ Edit

Init ==
  /\ StagingInit
  /\ project \in Projects
  /\ phase = "declared"
  /\ frames = <<>> /\ busy = FALSE /\ log = <<>> /\ started = <<>> /\ runs = 0

\* the thread that runs a command goes on as long as it can; a process it
\* waits for ends, at the latest by its timeout
Spec == Init /\ [][Next]_vars /\ WF_vars(Interpret)

-----------------------------------------------------------------------------
(***************************************************************************)
(* Properties.                                                             *)
(***************************************************************************)

TypeOK ==
  /\ StagingTypeOK
  /\ phase \in {"declared", "refused", "idle", "running", "ok", "failed", "help", "killed"}
  /\ busy \in BOOLEAN
  /\ runs \in 0..MaxRuns
  /\ Len(frames) <= DepthLimit + 1
  /\ phase # "running" => frames = <<>> /\ work = <<>> /\ ~busy

\* What a command means: the steps of a command one after the other, a step
\* whose condition is false left out, and in the place of a call the steps of
\* the called command with the values that command declares.  Bound is said of
\* a step whose words name no option with a lost default.
LostDefaults(c, given) ==
  {o \in Options(c) \ given : HasDefault(c.options[o]) /\ c.options[o].type # "bool"}
Bound(c, given, st) ==
  \A k \in DOMAIN st.argv : st.argv[k].is = "param" => st.argv[k].of \notin LostDefaults(c, given)

DeclaredValue(o) ==
  IF HasDefault(o) THEN o.default
  ELSE CASE o.type = "bool" -> "false" [] o.type = "list" -> <<>> [] OTHER -> ""
AsDeclared(c, given, values) ==
  [o \in Options(c) |-> IF o \in given THEN values[o] ELSE DeclaredValue(c.options[o])]

RECURSIVE Expansion(_, _, _, _)
Expansion(i, given, typed, depth) ==
  LET c == project[i]
      values == AsDeclared(c, given, typed)
      Means(st) ==
        IF st.when # Always /\ values[st.when] # "true" THEN <<>>
        ELSE IF st.kind # "call" THEN <<[does |-> Entry(c, values, st), bound |-> Bound(c, given, st)]>>
        ELSE IF depth = 0 THEN <<>> ELSE Expansion(Lookup(project, st.of), {}, <<>>, depth - 1)
  IN FlattenSeq([k \in DOMAIN c.steps |-> Means(c.steps[k])])

Does(done, meant) ==
  IF meant.bound THEN done = meant.does ELSE done = [meant.does EXCEPT !.words = done.words]

\* A command does the steps its declaration expands to, in that order and no
\* others, with the values its user gave or its declaration states, whatever
\* is called from where; when it reports ok it has done them all (the frames
\* of run_project_command_internal).  The words of a step that names an option
\* without a value of the user's and with a default that is no bool are left
\* out: command_runtime_init loses that default (DefaultIsUsed).
RunsTheExpansion ==
  /\ TypeOK
  /\ started # <<>> =>
       LET all == Expansion(started[1].cmd, started[1].given, started[1].values, DepthLimit) IN
       /\ Len(log) <= Len(all)
       /\ \A k \in DOMAIN log : Does(log[k], all[k])
       /\ phase = "ok" => Len(log) = Len(all)

Delivers(st, lost) ==
  /\ st.kind = "build" => tree[Here(st.of)] = version
  /\ st.kind = "stage" /\ ~st.dry => Holds(st.of, RootOf(st.of, StageRoot(st)), lost)
  /\ st.kind = "export_stage" /\ ~st.dry => Holds(st.of, ExportTo(Top.values, st), lost)

InputMade(i, lost) ==
  /\ i.is = "file" => tree[Here(i.of)] = version
  /\ i.is = "stage_dir" => Holds(i.of, Root[i.of], lost)

DeliveredBut(lost) ==
  phase = "running" /\ busy /\ why = "none" =>
    IF ~Pending THEN Delivers(Current, lost)
    ELSE Now.do = "process" => \A i \in Now.inputs : InputMade(i, lost)

\* A step delivers what it names: a file that was built comes from the inputs
\* as they are, a stage and its export hold what their sources would be made
\* to, and a process starts with every file and stage directory that its
\* inputs or its words name made since the inputs last changed
\* (project_command_materialize_inputs, qstar_graph_stage,
\* export_project_command_stage); but for the files that a copy counted as
\* done has left short (CopiesAreWhole).
StepsDeliver == DeliveredBut(short)

\* The same of every file: what a step has copied is the source byte for byte
\* (the comment of copy_file_to_path).
CopiesAreWhole == DeliveredBut({})

Made(i) == (i.is = "file" => i.of \in Makers) /\ (i.is = "stage_dir" => i.of \in Stages)

\* Labels validation does not look up, or for less than the step needs: a
\* stage or a rule is a label it knows, but no build finds a stage and the
\* linter finds neither; the files and stage directories of a run step are
\* only looked up when the step makes them.
LateLabel(st) ==
  \/ st.kind = "build" /\ st.of \in Stages
  \/ st.kind = "lint" /\ st.of \in Rules \cup Stages
  \/ st.kind = "run" /\ \E i \in RunInputs(st) : ~Made(i)

\* Once the commands of a project are validated, every word a user may type
\* names at most one of them, no command calls itself, and no run fails for a
\* name, a condition, a call or a label that validation could have looked up
\* (qstar_graph_validate_project_commands), the labels of LateLabel left out.
Unresolved == {"unknown option", "unknown command", "depth"}
UnknownLabel == {"unknown target", "unknown stage"}
CallsOf(i) == {Lookup(project, st.of) : st \in {x \in StepsOf(project[i]) : x.kind = "call"}}
ValidatedMeansResolvable ==
  phase \notin {"declared", "refused"} =>
    /\ \A i, j \in DOMAIN project : i # j => NamesOf(project[i]) \cap NamesOf(project[j]) = {}
    /\ LET calls == [i, j \in DOMAIN project |-> j \in CallsOf(i)]
       IN \A i \in DOMAIN project : ~TransitiveClosure(calls, DOMAIN project)[i, i]
    /\ phase = "failed" => why \notin Unresolved
    /\ phase = "running" /\ busy /\ why \in UnknownLabel => LateLabel(Current)

\* A step that builds or stages a label the project declares never ends for
\* want of that label (docs/syntax.md, the step qstar.step.build).
LabelsAreBuilt == phase = "failed" => why \notin UnknownLabel

\* Every command that was started ends: calls return, and no step waits for
\* something that never comes (run_project_command_internal).
CommandEnds == phase = "running" ~> phase # "running"

\* An option that is not given has the value its declaration gives it
\* (docs/generic-command-artifact-workflow.md, the field `default`).
DefaultIsUsed ==
  \A k \in DOMAIN frames :
    LET c == project[frames[k].cmd] IN
    \A o \in Options(c) \ frames[k].given :
      HasDefault(c.options[o]) => frames[k].values[o] = c.options[o].default
=============================================================================
