# qstar: TLA+ models and proofs

qstar is a build tool written in C. Lua files declare targets; a graph is made
from them; the executor turns the graph into *actions* (compile, archive, link,
command, stage, test) and runs those that are out of date. A daemon (`stella`)
keeps the loaded graph and the recorded state in memory between builds.

These modules model the parts of qstar where the order of events, failures and
stale records decide whether a build is right. Definitions carry the names of
the C functions they stand for; `PROJECT.json` gives the lines of each.

Contents: [components](#1-components), [modules](#2-modules),
[what is checked](#3-what-is-checked), [what is proved](#4-what-is-proved),
[disagreements found](#5-disagreements-between-code-and-documentation),
[what is left out](#6-what-is-not-modelled), [plan](#7-plan).

## 1. Components

All paths are under `src/`, the program's own sources under `src/src/`.

| Component | Where | State it keeps | Operations | What makes it correct | Module |
|---|---|---|---|---|---|
| Action scheduler | `executor.c` 8800-10070 | node states and dependency counts, ready queue, process slots, counters | pop, settle, requeue, start, poll, complete, cancel, stall check, wait | dependencies first; slot books agree; nobody started twice; no child left; stall only for a cycle; returns | `BuildOrder`, `Scheduler`, `SchedulerProofs` |
| Dirty check and build state | `executor.c` 1400-3100, 5600-6000, 6500-6660, 7950-8060, 10070-10160 | `state.db` (key per action), memo of file digests, keys of this build | load, key, skip decision, record, preserve, write | success means fresh outputs; a matching key vouches for its output; no rework | `BuildState`, `BuildStateProofs` |
| Depfile dependencies | `executor.c` 2400-2900, 5600-6000 | `deps.db`, refresh queue | parse, reuse a recorded list, refresh after a run | a reused list is the list in the depfile | `BuildState`, `BuildStateProofs` |
| Test batches and resources | `test_resources.c` | one record per test, usage per resource | claim, setup, body, cleanup, timeout, retry, report | capacity respected; cleanup before release; status per protocol; returns | `TestBatch`, `TestBatchProofs` |
| Local action cache | `action_cache.c`, `executor.c` 1225-1305 | blobs, manifests and aliases on disk | look up, restore, store, discard | a restored output is what the action would make | `ActionCache`, `ActionCacheProofs` |
| Daemon start and stop | `daemon.c` 517-935, 2658-3075 | socket, pid file, lock file, the processes | start, stop, serve, hello | one daemon per directory; none lost; leftovers of a crash block nobody; a stop kills no other program | `DaemonLifecycle`, `DaemonLifecycleProofs` |
| Daemon requests | `daemon.c` 951-1332, 1933-2655, `main.c` 1337-1364 | the loaded graph and its identity, connections | connect, send, read, fall back; accept, ensure the graph, build, answer | the graph is the one asked for and no older than the request; who takes the daemon for unavailable has nothing built there; everyone gets an end | `DaemonService`, `DaemonServiceProofs`; its copies of the records in `BuildState` |
| File watcher | `daemon.c` 1349-1875 | event queue, watched paths, flags | open, poll, mark incomplete, refresh | a graph older than its authoring files is not used | `DaemonService`, `DaemonServiceProofs` |
| Plan cache | `stella_cache.c`, `main.c` 1360-1420 | `graph.qsg`, `actions.qsa`, `inputs.json`, `manifest.json` | load, store | a loaded plan is what an evaluation would make now, for this request; what was stored is found | `PlanCache`, `PlanCacheProofs` |
| Graph discovery, edges, validation | `graph.c`, `source.c`, `plan.c`, `cxx.c`, `executor.c` 3100-5600, 8200-9600 | targets, generated actions, stages; the nodes and edges of a build | validate, close over goals, collect usage, discover, connect | what is built is what the goals need; makers come before users | `BuildGraph`, `NativeGraph`, `Backends`, `BackendsProofs` |
| Ninja backend | `ninja.c` | the walk: emitted targets, marks of rules and stages | write the statements of a label, build the default | the same actions in an order as safe as the local executor's | `NinjaGraph`, `Backends`, `BackendsProofs` |
| Stages and install trees | `executor.c` 11460-11853, `graph.c` | the stage's manifest, the copied files | stage, export | a manifest that says ok tells what is there | `Staging`, `ProjectCommands` |
| Project commands | `executor.c` 10200-11400, `graph.c` 3000-3700, `lua_runtime.c` | declared commands; frames and values of a run | read, validate, parse arguments, run steps, call | the declared steps, once, in order, from files as they are; it ends | `ProjectCommands`, `Staging` |
| Composable test suites | `test_suite.c` | none | validate, find cycles, select, list memberships | a request selects what is reachable, each once | `TestSuites`, `Authoring` |
| Lua runtime and DSL | `lua_runtime.c`, `graph.c` | the evaluation context, registries of exports and providers, the graph's tables | evaluate files, declare, activate providers, lower units and finals | the context is the stack's; what is in the graph comes from a recorded file; finals get their inputs | `Authoring`, `Declarations`, `GraphTables`, `ProviderFinals` |
| Process capture, child control | `platform_process.c` | pipes, process groups, deadlines | spawn, poll, wait, terminate | a terminated child is reaped | as an environment of `Scheduler` and `TestBatch` |
| Response files and argv | `action_materialize.c`, `argv.c` | none | quote, spill to a file | the tool sees the same arguments | planned, pure |
| Tool resolution and policy | `tool_resolution.c`, `tool_context.c`, `external_tool_policy.c` | resolved tools | resolve by precedence | precedence kept | planned, pure |
| Sources, labels, headers, rules | `source.c`, `label.c`, `header.c`, `rule.c` | none | classify, parse | a label names one thing | planned, pure |
| Planner output | `plan.c` | none | print the graph for a reader | – | not modelled |
| Logs, init, fmt, lint, LSP, command line, editor extension | `init.c`, `fmt.c`, `lint.c`, `lsp.c`, `main.c`, `editors/` | none that a build reads | – | – | not modelled |

How they interact. The command line, or the daemon for a client, loads a graph
(from Lua, from the plan cache, or from the daemon's memory). Evaluation makes
the graph in three parts: the authoring files run, the targets of language
providers are lowered, the whole is validated. A build then validates and closes
the graph for its goals and either discovers and connects the actions itself
(`graph_build_with_options_and_state_cache`) or writes a `build.ninja` and runs
Ninja. The local executor loads `state.db` and
`deps.db` (or takes the daemon's copies), lets the scheduler run the actions,
and on success writes both files and updates the daemon's copies. The scheduler
asks the dirty check about each action, asks the local action cache for those
that are out of date, and gives the rest to child processes. Tests are selected
through the suites, built like other targets and then run by the batch runner,
which has its own loop. A project command runs builds, stages, tests and processes
one after the other in the thread of the command line.

What is hard. One thread and many children: a child may end, or overrun its
limit, between any two steps of the loop. Records outlive builds: a record made
by one build decides what the next one skips, so what counts are sequences of
builds with edits, failures, cancelled processes and kills in between. Several
records of one fact: node states, slots and a counter in the scheduler; claims,
holders and phases in the test runner; `state.db`, `deps.db`, the depfiles, the
outputs and the daemon's copies in the build state; a Lua stack and a context
kept by hand in the evaluation. Two pieces of code that must agree: discovery
and connection in the local executor (an edge to a node that was not discovered
is dropped without a word), and the local executor and the Ninja backend.
The hazards are listed with
their lines in `PROJECT.json`, with the properties that would notice them.

## 2. Modules

    BuildOrder          what the executor promises
       ^ implemented by
    Scheduler  <--  SchedulerProofs      (theorems)
       ^            MCScheduler          (instances for TLC)
    TestBatch       <-- MCTestBatch,       TestBatchProofs
    BuildState      <-- MCBuildState,      BuildStateProofs
    ActionCache     <-- MCActionCache,     ActionCacheProofs
    DaemonLifecycle <-- MCDaemonLifecycle, DaemonLifecycleProofs
    DaemonService   <-- MCDaemonService,   DaemonServiceProofs
    PlanCache       <-- MCPlanCache,       PlanCacheProofs

    BuildGraph      the authored references and what they mean
       ^  ^
       |  NativeGraph
       NinjaGraph
            both composed by  Backends  <-- MCBackends, BackendsProofs

    Staging  <-- ProjectCommands  <-- MCProjectCommands

    GraphTables  <-- Declarations  <-- ProviderFinals --+
         ^---------- TestSuites ------------------------+-- Authoring  <-- MCAuthoring

`Scheduler` takes any relation for the edges of its nodes; `NativeGraph` says which
relation the code hands to it, and takes of the scheduler only what the theorems
about it say: what can complete does, and what lies on or behind a cycle does not.

A definition under the comment "Mutation" is a changed copy of the definition
after it. No specification uses it; it serves to show that the properties notice
such a change.

**BuildOrder** states the promise of the executor with three sets: an action is
started or settled only when all it depends on is done, at most `Jobs` processes
run, success means everything is done, the first failure takes every running
process along.

**Scheduler** is `scheduler_execute` with `scheduler_run_ready`,
`scheduler_poll_running`, `scheduler_complete_node`, `cancel_running_actions`.

| Variable | C |
|---|---|
| `deps` | the edges of `scheduler_add_edge`; any relation without self loops |
| `state`, `remaining` | `nodes[n].state`, `.remaining_deps` |
| `ready` | `sched->ready[ready_head..]` |
| `cur` | the node just popped |
| `slot`, `active` | `running[i]`, the loop's `active` |
| `completed`, `progressed`, `scan` | locals of the loop |
| `proc` | the children, as the operating system sees them |

An action of the module is one iteration of an inner loop. What an action of
the build does is data: it may be settled inline (groups, stages, up-to-date or
restored actions), may fail to be prepared or started, and its child may exit
well, exit badly or overrun its limit.

**TestBatch** is `qstar_graph_execute_test_batch`: a launching pass and a polling
pass over the tests. Setup, body, cleanup, the end of an attempt and the decision
to retry are operators on one test's record, named after the C functions
(`start_attempt`, `advance_after_phase`, `finish_attempt`, `set_phase_result`).
Whether a process can be started is chosen anew for each phase, because the C
code then continues inside the same pass. `log` is history: how each phase of
each attempt ended, against which statuses and results are judged.

**BuildState** is a sequence of builds. `edition`, `option`, `obj`, `depfile` are
the working tree; `stateDb`, `depsDb`, `mem` survive a build; the rest is the
build in progress. Each action prepares (`prepared_action_cache_hit`), then is
skipped or started; a finished process leaves an output and a depfile; at the
end `depfile_refresh_queue_flush` recomputes the keys of what was compiled, and
the two databases are written one after the other. In between, files are edited
or removed, options change, outputs are deleted, processes fail, a database
cannot be written, the builder is killed, the daemon restarts. The constant
`Hazards` names which of these happen in an instance. The contents of files and
outputs are what made them: an output is a record of the option and of the
editions it was made from, so "up to date" is an equation, not a flag. A digest
of a source stands for its edition; an output is known by its size and second
only, as in `hash_file`, and sizes are taken to be equal. A recorded depfile list
is reused when the depfile's second and its length are the recorded ones
(`DepsHit`), as `qstar_parse_depfile_inputs` does.

**ActionCache** is one action's use of the local cache: `prepared_action_cache_restore`
and `_store` over `qstar_action_cache_evaluate`, `_restore` and `_store`.

| Variable | C |
|---|---|
| `content`, `output`, `depfile` | the working tree |
| `manifest`, `blob`, `depblob` | the files of `cas/v1/<key>/` |
| `alias` | the alias files, by base key |
| `job` | the spec and the decision: inputs, key, base key, the entry looked at |
| `step` | how far the build has come |

Each file that the code replaces is replaced by a step of its own, and the
builder may be killed at any of them; a failing copy leaves the destination
truncated (`RestoreFails`), a failing replacement leaves no file (`PutFails`).
Between builds files change or go, the target is cleaned, blobs rot. What a
compiler reads is a function of what it reads (`CompilerAssumption`); a depfile
cut short by a killed compiler is one of the inputs the lookup meets. Every key
begins with the action's id, so that one action stands for all.

**DaemonLifecycle** is `daemon_start`, `daemon_stop` and `serve_socket` up to its
accept loop, run by several users at once over one directory.

| Variable | C, system |
|---|---|
| `proc` | what each pid is: nothing, a server at some step of `serve_socket`, a zombie, another program |
| `sock`, `pidFile`, `lock` | the three files; the socket remembers who bound it and whether it is owner-only |
| `cmd` | for each running command: the point in the function, and its locals (`child`, `pid`, the peer it talks to) |
| `seen` | history: commands overlapped, one was killed, a foreground server was used |
| `marks` | history, until commands overlap: a server ended between bind and chmod, the recorded pid changed hands while a command was running |

A step is one system call that another process can notice. `daemon_hello` is a
connection and an answer, `daemon_cleanup_lifecycle_files` three removals,
`daemon_write_pid_file` a truncation and a write. `Init` allows any leftovers of
one dead daemon, a socket that was never protected among them. Servers die and
commands are killed at any step; a child that ends before its parent stays a
zombie, which `kill(pid, 0)` takes for alive. The system gives free pids to other
processes and takes them back at any moment. `daemon_stop` is the answer to its hello,
SIGTERM (`StopTerm`) and, if the pid is still alive after its wait, SIGKILL (`StopInsist`); a process
that comes by the pid between the answer and a signal is a `"newcomer"`, any other
a `"stranger"`.

**DaemonService** is the accept loop with `handle_build_request`,
`handle_query_request`, `ensure_graph`, `load_graph` and the watcher on one side,
and `qstar_daemon_build_client` with its caller in `main.c` on the other.

| Variable | C |
|---|---|
| `tree` | the authoring files of each workspace: an edition, and whether they evaluate |
| `server` | where the one thread is, the connection it serves, the status it will send |
| `loaded`, `graph` | `server->graph_loaded`; the graph's edition, `cwd`/`file`/`build_dir` (`ws`) and `label` |
| `fps` | the authoring fingerprints |
| `watch` | `server->watcher`: `active`, `incomplete`, `skipped_missing`, and the events not yet read |
| `backlog` | connections waiting for `accept` |
| `client` | where each client is, what it asks, the lines it has been sent (`<<>>`, the first, the final) |
| `lost` | history: an edit fell into a load (`"load"`), or came before the watcher was replaced (`"event"`) |

A load is three steps (evaluation, fingerprints, watch), between which files
change. The plan cache is transparent here: a load gives the graph of the files
as they are. Writing to somebody who has gone kills the writer, since neither
side handles SIGPIPE.

**PlanCache** is `qstar_stella_plan_cache_try_load` and `_store` with what `main`
does around them, by any number of builders in one directory.

| Variable | C |
|---|---|
| `tree`, `listing` | each authoring file: its edition, whether it uses globs; what a glob would find |
| `cache` | the four files: a plan, a plan and its label, the editions of the files that the evaluation came to, the identity of the request |
| `job` | where each builder is, the plan and the actions it has loaded or made |
| `state`, `stored` | history: what the last store came to (alone in the directory and whole, all but the manifest, anything else); which request it was for |

A step reads or replaces one file (`rename_atomic`; the temporary name has the
pid in it, so that only names are shared). `Choice` stands for all that the
manifest compares beside the label: entry file, platform, options, aliases. It decides which
authoring files an evaluation comes to (`Visits`), and only these are fingerprinted
(`write_inputs_json`) and compared (`inputs_match`).
`Troubles` names what goes wrong: builders die, replacements fail (the build then
fails too), files are removed, and files are edited during a build.

**BuildGraph** is the authored graph as a set of references: `refs` holds which label
names what in which field of its declaration, as a label, as the token of a made
file (`qstar.target_file`, `qstar.tool_file`), as a path under the build directory or as a
stage's directory. The module gives what every reader of the graph takes from it:
what validation refuses (`Valid`), the usage requirements that deps and interfaces
pass on, and what each action reads (`Reads`, from the prepare functions of
`executor.c`). Targets are executables, libraries, object libraries with a compile
context of their own or of their consumer, interfaces, groups and run targets. Sources are
C++: implementations (`out = "c"`), interfaces of modules (`"m"`), headers and
objects, in the order `Listed`. A target may compile its implementations in batches of
`BatchSize` (`unity`; the first of a batch stands for all, `Batch`, `EmitsObject`), build its
interfaces first (`modules`; which of them a compile takes is `BmiReads`) and have a
precompiled header. What `cxx.c` refuses is `ValidStrategies` and `ValidSource`; it is
looked at when the actions of a target are made and not by the validation.

**NativeGraph** is `scheduler_discover`, `scheduler_build_nodes` and the edge functions.

| Variable | C |
|---|---|
| `wanted`, `rules`, `stages` | `target_seen`, `genrule_needed`, `stage_needed` |
| `nodes`, `edges` | the nodes and what `scheduler_add_edge` connects |
| `phase`, `done` | how far the build is; the nodes that completed |

Discovery is repeated passes until one adds nothing; then the nodes are made and
each asks for its edges. An edge is made only when its maker is a node. A target whose
C++ strategies are not supported ends the connection (`phase = "unsupported"`); a source that
cannot be compiled ends the build when it is its turn (`Prepared`).

**NinjaGraph** is `emit_target` and what it calls: a stack of the calls under way,
the targets begun, a mark on each rule and stage (open or written), the statements
written, one call more for the check of a target's C++ strategies. The recursion of the C code is unfolded, one return per step, so that it ends
in `circular` where the code finds an open mark. Ninja's own part is external: it
builds what the default alias needs, and fails when a file has no maker or the
statements have a cycle.

**Backends** runs both over the same references, one after the other, and compares
what they make, in which order, and how they end.

**Staging** is `qstar_graph_stage` and `export_project_command_stage`.

| Variable | C |
|---|---|
| `version` | how often the project's inputs have changed |
| `tree` | the copied and the built files: the version they come from, absent, or cut short |
| `manifest`, `cut` | the stages' manifests; history: which stages' latest staging left no manifest of its own |
| `short` | history: files that a copy left short while it counted as done |
| `work`, `why` | what the thread still has to do; `graph->error` |

A copy opens (and truncates) its destination in one step and writes it in the next,
a build stands before each copy of a made file, the manifest replaces the old one at
the end, also after an error. Opening, writing and the replacement of the manifest may each fail: a
write that fails leaves a torn file, a manifest that cannot be replaced leaves the old one. A copy whose last
bytes are lost when the file is closed goes on as if it were whole, as the code does not look at
that result; so does a copy of a file onto itself, which has truncated it.

**ProjectCommands** is `qstar.cli.command` and `qstar_graph_run_project_command`: reading and
validating the declared commands, parsing the user's arguments into values, and running.
`frames` holds the calls under way, each with a command, its values and a position; `busy`
says that the step at the position is being done. What a step does is
`work` of `Staging`; a process of a run step is an item of `work` that names
everything it reads. `log` and `started` are history.

**GraphTables** and **Declarations** are the tables of `struct qstar_graph` and the functions
of the `qstar` table that fill them. The graph is one sequence of entries in the order of
their declaration. A declaration is an operator from the graph to a new graph and a
verdict: most of the C functions enter an empty entry first and read the fields into
it one by one, so that a refusal leaves what was read so far. `With` binds a value
that is used often to a name that is evaluated once.

**ProviderFinals** is the lowering of provider-made targets: `lower_provider_final_action`
with the artifacts and link inputs it collects, target by target in the order of
declaration. What an implementation computes is external (`AsksFor`: which inputs it
asks for).

**TestSuites** is `test_suite.c`: validation, the search for cycles, selection and memberships.

**Authoring** is the evaluation of a project.

| Variable | C |
|---|---|
| `frames` | the C and Lua stack, a record per file or helper under way: file, role, position, saved directory |
| `ctx` | `struct qstar_lua_context`: current directory, module depth, import stack, provider stack |
| `evaluated`, `lints` | `graph->evaluated_fragments`, `graph->lints` |
| `exports`, `languages`, `impl` | the registries `qstar.module.exports`, `qstar.provider.exports`, `qstar.provider.implementations` |
| `graph`, `stale` | the tables; whether anything was written to `graph->error` |
| `err`, `phase`, `finals` | a Lua error on its way up; how far the project is; what was lowered |

A file is a sequence of statements: a declaration, one of the ways to evaluate another
file (`subdir`, `import_file`, `import_module`, `use_language`), a call of a helper that
a module returned, an `error`; each may be inside a `pcall`. Each
statement, each return and each frame that an error passes is a step, and the C function of
that frame restores the context by hand, as in the code. When evaluation is over, the
targets are lowered and the suites validated.

## 3. What is checked

| Run | Instance | Shows |
|---|---|---|
| `scheduler_graphs` | all 4096 relations on 4 nodes, one inline, 2 slots; 504,549 states | slot books, no orphans, stalls, no idle slot, `BuildOrder` implemented (order, completeness, the end of every child), termination |
| `testbatch_batch` | 4 tests: one with both hooks and a retry, one skipped, three that compete for two resources and 2 holders; 1,099,699 states | right reports (statuses after any sequence of phases and retries, results), cleanup, resources kept, no orphans, termination |
| `buildstate_failures` | 2 sources, a shared header, a link; 3 builds, failures and kills at every step; 141,828 states | fresh outputs, records that vouch: sound keys and a transparent `deps.db` |
| `buildstate_reverts` | 1 source, daemon, partial goals, options that go back, deletions, restarts; 4 builds; 140,258 states | no rework |
| `actioncache_entries` | a source, a header, a header included by it; compile or generate; 2 edits or rotten blobs, any number of cleans, builds, kills; 1,254,371 states | fresh outputs, stored is found, entries kept: they vouch for what they hold and stay |
| `daemonlifecycle_files` | 2 commands (start, stop, serve) and 2 pids, any leftovers, pids that change hands; 4,541,404 states | one daemon, and it is known to the next command; no leftover blocks but a socket that was never protected; no stranger is killed |
| `daemonservice_requests` | 2 clients, 2 workspaces, a build with fall back, one without, a query; 1 edit, 3 requests; 600,907 states | right answer (a current graph, the one asked for, a success that was built), nothing built for those who take the daemon for unavailable, everyone gets an end |
| `plancache_builds` | 2 builders, 2 labels, 2 platforms; an authoring file of both platforms and one of each; 2 edits, 4 builds; builders die, replacements fail, files are removed; 2,741,625 states | a hit is right (current as far as the inputs can vouch, and of the request), stored is found |
| `backends_graphs` | a run target, an executable, a library, an object library, an interface, a group, two rules and a stage; every one, two or (with two that combine with all) three references of 52 added to it; every choice of C++ strategies over up to three implementations and two interfaces; usage that only an object library gets; four goals; 299,279 states | whatever a declaration names comes first; whatever an action reads or may import comes first, across groups, interfaces and object libraries; Ninja names what its actions read; both run the same actions; both end the same way |
| `commands_steps` | three commands with options, conditions and calls, two stages; 337 projects, 7 ways to call; 2 runs, one change of the inputs, one file short at a time; builds, processes, copies and manifests fail, qstar is killed; 668,655 states | a run is the expansion of the declaration; steps deliver fresh files; manifests tell what is there; what is validated can be resolved, but for labels looked up for less; it ends |
| `authoring_projects` | 4,427 projects: files that name each other, declarations that follow each other, two language providers and five kinds of target, three suites; 67,340 states | the context is that of the stack and every file is tracked; finals get their inputs; selection is reachability; evaluation ends |
| `plancache_manifest` | 1 builder, 2 platforms, no edit, 3 builds | the miss that the documentation promises after a failed manifest is a hit: section 5 |

Why the bounds are enough. *Scheduler*: four nodes hold chains, forks, joins,
diamonds, and cycles with and without nodes outside them; with three process
nodes and two slots an action is put back in the queue, and two children are
alive when a third event fails the build. The theorems of section 4 lift the
bounds. *TestBatch*: the second attempt of a test meets the claims of the two
others; every combination of endings of three phases is met twice, by the test
that is retried. `Requests` makes one pair exclude each other on a resource of
capacity one and another on a request for the whole of a larger one.
*BuildState*: what matters happens across two consecutive builds; a third build
sees the records left by a build that failed over the records of one that did
not; the fourth, in `buildstate_reverts`, sees options back where they were.

*ActionCache*: two edits make a header change and change back, or change with a
rotten blob; the inner header is in the list or not according to the outer one,
so the list that led to an entry can be wrong for the tree it is found in.
*DaemonLifecycle*: two commands overlap in every way, and with two pids a start
can meet one living or dead daemon while its own child boots; symmetric in
commands and in pids. *DaemonService*: one client builds with fall back; the
other asks about the same workspace or builds another; with three requests the
graph is loaded, replaced or reused, and used again; one edit is before, in or
after any step of a load or a build. *PlanCache*: two stores overlap, for the same or
for different requests, and two more builds load what they leave; one edit makes
a plan use a glob or stop using it, the other changes what the glob finds or a file that one platform
alone evaluates; symmetric in builders, labels and platforms.

*Backends*: every reference the declarations allow occurs alone and with every other,
so that every path of two is tried: a tool that is made by a rule whose
input is a library, a header used through an interface, an object library compiled for
its consumer. Graphs that validation refuses, and cycles through each kind of edge, are
among them. For the C++ strategies (`MCCxx`) two implementations fill a batch (`BatchSize` = 2) and a
third begins another; interfaces stand before, between and after them in `MCListed`; an object
library with two sources compiles them itself or lends them. `MCContext` lets one that lends them
depend on an interface of its own, whose usage may close a circle; with the interface as a goal a rule may reach targets that
only the local executor takes in. *ProjectCommands*: a step that copies nothing before every kind of step, and one that copies before those that build, copy, read or call; calls two
deep, with a cycle; the second run meets what the first one left, also when it was
killed, and the inputs change between the two. The code refuses calls deeper
than 32, the instances than `DepthLimit` = 4, more than three commands that do not call
themselves can reach. `MaxRuns` and `MaxVersion` bound runs and changes of the inputs, `MaxShort` how many
files are short at a time for bytes lost unnoticed; the copy of a short file is another, without bound.
*Authoring*: two files below the entry, a module with a helper, and a second module or
provider; each of the statements that can fail does so inside and outside a
`pcall`, before and after another one. `MaxFrames` = 8 is never reached. In both, the instance
is a set of projects, and TLC explores all of them in one run.

A property may join several that are told apart in its module: `ReportIsRight`
(`StatusFollowsProtocol`, `ResultNamesDecision`), `RecordsVouch` (`KeyVouches`,
`DepsDbTransparent`), `EntriesKept` (`EntriesVouch`, `CommittedStays`),
`OneKnownDaemon` (`OneDaemon`, `NoLostDaemon`), `RightAnswer` (`GraphIsCurrent`,
`BuildsWhatIsAsked`, `SuccessWasBuilt`), `HitIsRight` (`HitIsCurrent`, `HitIsOfRequest`),
`FilesTracked` (`ContextIsTheStack`, `FilesRunOnce`); the type invariant of the module is
in most of them. What `Scheduler` promises about order, completeness and second
starts is checked through `BuildOrder` and proved by itself.

Bounds named in the modules: `MaxEdits` and `MaxBuilds` of `BuildState`,
`MaxEdits` of `ActionCache`, `MaxEdits` and `MaxAsks` of `DaemonService`,
`MaxEdits` and `MaxBuilds` of `PlanCache`, `DepthLimit`,
`MaxRuns`, `MaxVersion` and `MaxShort` of `ProjectCommands`, `MaxFrames` of `Authoring`. In
`DaemonLifecycle` the number of commands and pids bounds everything; its
`OwnerOnly` says whether the umask alone makes a new socket owner-only, and the
runs take the umask that does not, under which more can go wrong. The
`DaemonService` instances end when no request is left and are not checked for
deadlock; `AllAnswered` says what must not be missing then. The instances of `BuildState`,
`PlanCache` and `ProjectCommands` have no deadlock check, since a behaviour stops when builds, runs and edits
are used up; that of `Authoring` stops when the project is read or refused, which `EvaluationEnds` demands. In `ActionCache` a clean is always
possible between builds. `Scheduler`, `TestBatch` and `Backends` step to themselves once they have
returned and are checked for deadlock.

What the passing runs of `BuildState` assume (the hypotheses of its theorems), each because section 5 or
the code shows what happens without it: files change between builds and not
during one; two writes of an output are at least a second apart; after a failed
build options are not set back, nor outputs deleted; either all builds go through the daemon or none
does; the inputs a target lists come first in its depfile; one build at a time;
the children of a killed builder die with it.

What the passing run of `PlanCache` assumes: files change between builds and not
during one, the provider directory stays the same (section 5), and an edit leaves
another fingerprint. `HitIsOfRequest` speaks of stores that had the directory to
themselves: two that overlap leave files of both. After such stores, and after one that was cut off
before its inputs, `HitIsCurrent` speaks only of the files that every evaluation comes to (`Vouching`).

What properties except, because the code does otherwise: `ResultNamesDecision` an error that
a good cleanup follows; `StaleNeverBlocks` a server that ended between bind and chmod; `StrangersLive`
newcomers; `UnavailableMeansUnbuilt` is about clients that take the daemon for unavailable and not
those that cannot write; `RunsTheExpansion` words that name an option with a lost default;
`ValidatedMeansResolvable` the labels of `LateLabel`; `StepsDeliver` and `ManifestTellsTree` the files in `short`;
`FinalsGetTheirInputs` dependencies declared later (`LinkedLater`); `SelectionIsReachability` requests that name suites
and exclude a tag (`SelectsMore`). Each exception has a property without it and a counterexample in section 5.

Fairness. `Scheduler` and `TestBatch` assume that the loop keeps stepping (it is
one thread that nothing blocks for good: its wait has a timeout) and that time
passes, so that a child which has not ended is eventually past its limit. No
child is assumed to end by itself. An action without a limit is not covered: the
loop then waits as long as its child lives. `DaemonService` assumes weak fairness
of the server's steps and of each client's: both are loops without a lock between
them, and a build ends, which is `Scheduler!Terminates`. That a client or the
daemon is killed, an edit, a restart and a new request are never assumed.
`ProjectCommands` assumes that the one thread goes on with the steps of a command and that
the builds and processes it waits for end, which is `Scheduler!Terminates` and the
time limit of a run step; it does not assume that qstar is not killed, nor that anything
succeeds. `Authoring` and `Backends` assume weak fairness of their only thread.

## 4. What is proved

`SchedulerProofs` proves, for every finite set of nodes, every number of slots
and every set of dependency relations (`NodeAssumption`, `JobsAssumption`,
`GraphsAssumption`):

| Theorem | States |
|---|---|
| `Invariance` | the inductive invariant `IInv` holds |
| `TypeCorrect` | `[]TypeOK` |
| `DependenciesComeFirst` | `[]DepsBeforeUse` |
| `SlotsAccounted` | `[]SlotsAgree` |
| `NothingLeftRunning` | `[]NoOrphans` |
| `StallIsACycle` | `[]StallMeansCycle` |
| `SuccessIsComplete` | `[]OkMeansAllDone` (which the runs check through `ImplementsBuildOrder`) |
| `NoIdleSlots` | `[]WorkConserving` |
| `NoSecondStart` | `StartedOnce` |
| `Refinement` | `Spec => Promise!Spec`, that is `BuildOrder` |

The safety properties are not inductive by themselves. `IInv` adds what the code
relies on without saying so: `remaining[n]` is the number of dependencies that
are not done and a pending node has at least one (`CountOK`); `completed` is the
number of done nodes (`CompletedOK`); the queue holds exactly the ready nodes,
each once, apart from the one in hand (`QueueOK`, `CurOK`); a node is running
exactly when its child is in a slot, and only such a child can be alive
(`SlotsAgree`, `ChildOK`); a stall is declared when everything unfinished waits
(`EndOK`). With it: a node in hand has a count of zero, so its dependencies are
done; the cancellation finds every living child because the count and the slots
agree, and the timeout path, which does not lower the count, still does since it
terminates its own child itself; at a stall the unfinished nodes each wait for
another unfinished one, so they contain a cycle. The lemmas `QueueAppend`,
`QueuePop` and `QueuePutBack` say what the queue operations do to a sequence
without repetitions; `Completing` says what `CompleteNode` does to the counts.
There is one lemma per step, and `Refinement` maps each step to a step of
`BuildOrder` or to a stutter.

`BackendsProofs` proves, for any disjoint finite sets of labels, any kinds, any order of sources, any size of a
batch and any set of finite sets of references over the sources that are listed (`NamesAssumption`, `KindAssumption`,
`ListedAssumption`, `BatchAssumption`, `AuthoredAssumption`):

| Theorem | States |
|---|---|
| `GraphInvariance` | the inductive invariant `GInv` of discovery, connection and the two builds holds |
| `NativeTypeCorrect` | edges lead between nodes, what is found exists |
| `NamedFilesComeFirst` | `[]NamedFirst`: whatever makes a file that the declaration of a scheduled action names is scheduled, and comes before it |
| `MakersComeFirst` | `[]ProducersFirst`: whatever makes a file that an action reads, or may import, is ordered before it, through targets, groups, interfaces, usage and object libraries |
| `StatementsNameWhatTheyRead` | `[]NinjaNamesReads`: the inputs of every statement that Ninja runs name the makers of what its command reads |
| `SameActionsInBoth` | `[]SameActions`: a local build that succeeds has run what follows from the root and no other action, Ninja needs none beside them, and each source of what is linked is compiled in exactly one |
| `SameVerdictInBoth` | `[]SameVerdict`: what the local executor builds, Ninja builds, and the reverse, but for the three cases that the property names |

An edge to a maker that is not a node is dropped by the code, so that `NamedFirst` is about
discovery: the loop ends with a pass that adds nothing, hence every maker that a
pass looks for from what was found is found (`FoundAll`); each stage that is found is used by
a run target that is (`StagesUsed`), whose items were looked at. The references do not change,
and so neither do the closures and the usage made from them (`SameUsage`, `SameItems`,
`SameValid`). Then each kind of action is taken by itself: each item it names (`ItemShapes`)
is among those discovery looked at, its maker is a node (`MakerFound`), and connecting
asks for that edge; for the sources that share a batch the edges of all of them are asked for
(`SourceMakers`), and for the interfaces a compile takes, those that come before it
(`BmiWaits`).

`ProducersFirst` is about makers that no field of the target names: those that usage hands on along dependencies, the
objects of an object library, the artifacts beyond a group or an interface. It needs
what the closures come to for every graph. They are all made by one recursive function,
`Grown`: so many rounds, each adding what is next to what is there. Two facts about it suffice,
that it is the least closed set from below (`GrownLeast`) and that with a round for each member it is closed
(`GrownClosed`). They are inductions over the rounds; since the induction theorems of the library cannot be
instantiated, `Inductive` derives induction over numbers from the minimality of a set
(`WFMin` for the ordering of the intervals `0..n-1` by inclusion) for sets of numbers in place of predicates. With them:
`Whole` says that discovery takes in, with a target, its closure, and `Wired` that an action has an edge
from each of its waits which is a node; the two make `Upto` closed under waiting (`WaitsUpto`), and
for each kind of action what it reads is followed back along edges (`CompileUpto`, `PchUpto`,
`RuleUpto`, `RunUpto`, `LinkUpto`). The statements of Ninja are compared with the reads kind by
kind; they need only that each collects its artifacts from the same dependencies (`SameArtifacts`).

`SameActions` asks for the converse of what `GInv` says: that discovery took in nothing too much.
`FInv` adds to `GInv` that the root is found (`RootFound`) and that each target, rule and stage that was found follows
from the root along the inputs of Ninja's statements or along what `Unfollowed` lists (`Needed`); each
pass preserves it, since what a pass adds is named by something it looked at (`PassFollowed`,
`FinalFollows`, `RuleFollows`, `ClosureFollowed`). What follows from the root is again the least closed set
(`Follow`, `FollowClosed`), so the nodes are that set (`GraphIsNeeded`). A build
that succeeds has run all of them (`AllRan`); `Everything` grows for one round per node, which is enough for a set
within the nodes (`RoundsEnd`). That a source is in
one compilation only is the division of the C sources of a target into batches: which number an earlier source has among
those (`Earlier`), and that numbers with the same quotient share the first of the batch (`Divided`, `OneLeads`).

`SameVerdict` is about how both builds end. Four things are needed.

- *The walk of the Ninja backend leaves nothing out.* Its stack is taken as two sets, the calls still to come and the
  actions being written. `Walk` says that each call made by something entered is pending or made (`Taken`), and that
  what is entered is being written or has its statements; when the stack is empty, the inputs of whatever is written are
  written, so that no file is missing.
- *The walk reports no cycle that the local executor has not.* `Within` says that the walk stays in the nodes, and that
  the stack is `Nested`: what is above a frame comes before what that frame writes. An open mark met again would
  then be an action before itself (`Retraces`), while a build that ran every node has none
  (`Acyclic`). An object library that takes its consumer's context is the exception the property names.
- *Ninja finds no cycle in what it was given.* Its inputs are edges of the local executor, but for the order
  of a compile, which it takes from the target compiled for. Of the actions Ninja could not run, take those whose
  final (`ForFinal`) waits for least, among them one that waits for least: what it waits for is among
  them and waits for less (`NinjaRunsAll`).
- *The local executor stalls on a cycle only* (`NInv`). Of the actions it did not run, those least in `Upto` wait for
  each other (`LeastLoop`); were all these edges Ninja's too, Ninja could not have run them
  (`NinjaRunsOne`). So one is an edge that only the local executor has.

The second and third are about a local build that succeeded. The invariants stand one upon the other: `FInv`, `WInv` of
the walk (`WalkInvariance`), `NInv` (`FailureInvariance`) and `PInv`, which puts `Within` beside a successful local
build (`RetraceInvariance`).

`TestBatchProofs`, for any tests, hooks, retries, resources and job limit (`TestAssumption`;
`ResourceAssumption` is what `qstar_graph_validate_test_resources` has checked before a batch
begins: no test asks for more than there is):

| Theorem | States |
|---|---|
| `Invariance` | the inductive invariant `IInv` holds |
| `ResourcesAreKept` | `[]ResourcesKept`: the accounts are what the attempts hold, within the limits |
| `ReportsAreRight` | `[]ReportIsRight`: statuses follow the protocol, results name a phase that decided the status, but for an error that a good cleanup follows |
| `NoOrphansLeft` | `[]NoOrphans` |
| `SpanAndNoDeadlock` | `[](HeldForTheWholeAttempt /\ NoResourceDeadlock)` |
| `CleanupComesFirst` | `CleanupBeforeRelease` |

`IInv` says of each test's record where it is in its protocol, against the history of how its
phases ended: the status so far is the verdict on the phases that have ended (`StatusSoFar`), the
phase that comes next has not run in this attempt (`Fresh`), nothing is logged twice or ahead
(`LoggedOnce`, `LogsPast`); and of the batch that its two ledgers are sums over the tests that hold
something, that the number of done tests is counted right, that a process alive belongs to a record
that says so. The proof is about one record at a time: an operator of the code on a record
(`EndPhase`, `Judge`, `Advance`, `StartAttempt`) takes a record in one shape to one in another, and
a lemma per pass lifts that to the batch. A circle of waiting tests is impossible since claims are
made all at once: whoever waits holds nothing.

`BuildStateProofs`, for any files, includes, compilations and links, goals and options and any
number of edits and builds (`TreeAssumption`). Its theorems have hypotheses, each of which
section 5 shows to be needed or the code relies on:

| Theorem | Under | States |
|---|---|---|
| `Types` | – | types; where the actions of a build are in each phase |
| `ListsAreTrue` | no two depfiles in one second | a recorded list with the stamp of a depfile is the list in it (`DepsDbTransparent`) |
| `Invariance` | `OneFrontend`, `Forward` | the inductive invariant `VInv` |
| `BuildsAreFresh` | `OneFrontend`, `Forward` | `[]BuiltIsFresh` |
| `RecordsAreBelievable` | `OneFrontend`, `Forward` | `[]RecordsVouch` |
| `RepeatedBuildsAreIdle` | `OneFrontend`, `ListedFirst`, no two depfiles in one second | `[]NoRework` |
| `SourceAlone` | only the source is listed, and does not include itself | `ListedFirst` |

`OneFrontend`: the builds of a directory all go through the daemon or none does. `Forward`: no edit
under a running build, no second write within a second, no output deleted and no option set back
after a failure, and a listed input that can vanish is a source; failures, kills, writes that fail,
depfiles deleted and headers removed are all allowed. It is what `buildstate_failures` checks. `RepeatedBuildsAreIdle` needs nothing of
`Forward`: options may go back, outputs be deleted and files change under a build.

That a matching key vouches for its output is not inductive, since the key of an action that runs is
made before it runs and completed after. `VInv` says of a recorded key, whether or not it matches
now, that it is made of digests of files that were there (`Bound`), that it lists what the source
includes in the edition which it gives for that source (`Cover`), and that the output is fresh if it is
the key the next build would compute (`Good`, `Key0`). An edit makes a new edition, so a key that
matched afterwards would have to name it, and cannot; a failed process leaves a stamp later than all
recorded ones, and the link that recorded the old one no longer matches. Digests are memoised during
a build (`MemoInv`) and the two databases are written one after the other, so the same is said of the
keys in hand (`next`). For `NoRework` the argument runs the other way (`NInv`): while nothing
changes, what the build in progress puts into its key is what the next one will compute
(`MemoIsTrue`, `NextIsKey`), in that order, and a key kept for an action that was up to date stays
(`KeptInv`). The order is where `ListedFirst` comes in; section 5 has the program that violates it.

`ActionCacheProofs`, for any files, contents and compiler (`ValueAssumption`,
`CompilerAssumption`: what a compiler reads is decided by what it has read):

| Theorem | States |
|---|---|
| `Invariance` | the inductive invariant `IInv` |
| `BuildsAreFresh` | `[]BuiltIsFresh` |
| `StoredEntriesAreFound` | `[]StoredIsFound` |
| `EntriesAreKept` | `EntriesKept` |

A manifest tells of some contents whose key lists everything that was read (`Vouches`); a lookup
that ends in a restore has checked that the key of the present tree is that key, so by
`CompilerAssumption` the present tree makes the same output. `JobInv` and `StoreInv` say what each
point of a lookup or a store knows of the tree and of the entry, in particular that a restore by
alias has looked again after the depfile was put in place, and that the manifest is written only when blob and
depfile are.

`DaemonLifecycleProofs`, for any number of commands and pids (`CommandAssumption`):

| Theorem | States |
|---|---|
| `Invariance` | the inductive invariant `IInv` |
| `OneDaemonIsKnown` | `[]OneKnownDaemon` |
| `NoStrangerIsKilled` | `StrangersLive`, however commands overlap and pids change hands |
| `StaleFilesNeverBlock` | `StaleNeverBlocks`: no refusal, as unsafe neither, for what a crash has left, servers that end between bind and chmod excepted |

`IInv` has three layers. Always: a command that has a child is the only one that has it, the child
is alive or a zombie, what is about to be signalled is no stranger (a process that comes by the pid then is a newcomer). As long as
commands follow one another and no recorded pid changes hands (`Orderly`): at most one command is active, what it has seen of the files is still
so, and a server that is booting is its child. And as long as nobody serves in the foreground (`OneServer`),
nor kills a command (`Named`): there is one server, the socket is its own, and the pid
file names it or the command that will write it is at work. Beside it, `HalfInv` says that a socket which is not owner-only
belongs to a server between bind and chmod, as long as none has ended there.

`DaemonServiceProofs`, for any clients, requests and workspaces (`RequestAssumption`,
`BoundAssumption`):

| Theorem | States |
|---|---|
| `Invariance` | the inductive invariant `IInv` |
| `AnswersAreRight` | `[]RightAnswer` |
| `UnavailableIsUnbuilt` | `[]UnavailableMeansUnbuilt`: a client that falls back since it takes the daemon for unavailable has nothing under way or done there |

`ConnectionsInv` says that a connection is in the backlog once, or served, or neither; `TalkInv` relates
what a client has been sent to where the server is with it; `MemoryInv` that a loaded graph is as old as
its fingerprints and, unless events were lost, that a change since then shows in the watcher; `RequestInv`
that the server carries the request that it read from `ensure` to the end of the build.

`PlanCacheProofs`, for any builders and requests and any bounds (`PlanCacheAssumption`):

| Theorem | Under | States |
|---|---|---|
| `Invariance` | – | the inductive invariant `IInv` |
| `HitsAreOfTheRequest` | – | `[](TypeOK /\ HitIsOfRequest)` |
| `StoredPlansAreFound` | – | `[]StoredIsFound` |
| `HitsAreRight` | no edit during a build | `[]HitIsRight` |

After a whole store the four files agree, and so do the ones a builder has read so far with what it is
about to read (`WholeAgrees`); a store that has had the directory to itself has left its own plan in
the files it has written (`StoringAgrees`). `CurrentInv` adds that inputs which match vouch for the
graph and the actions beside them, in the files of `Scope`: all that the plan was made of once a store has replaced
all but the manifest, and otherwise those that every evaluation comes to, since a mixture of two
stores lists the files of one. An edit during a build breaks it (section 5), hence the hypothesis.

Two definitions are written for the prover. `Without` of `BuildState` and of
`ActionCache` removes by ranks, not by `SelectSeq`, whose recursion the
prover cannot unfold; `Put` of `ActionCache` says which keys an entry has. The assumptions on constants are typing of the
instance, the source of a compilation being a file, and `None` and the special values being nobody's name.

Only model-checked: every liveness property (`Terminates`, `AllAnswered`, `EvaluationEnds`,
the end of a command), since fairness is outside what the prover handles;
`Staging` and `ProjectCommands`; `TestSuites`, `ProviderFinals` and `Authoring`. `ProjectCommands`, `TestSuites` and
`ProviderFinals` declare recursive operators, since what they model are recursive walks, and would need
another form to be proved about.

## 5. Disagreements between code and documentation

Where a property is said to be violated, the checker finds it so; most of these properties state what a line of the
documentation, of a comment or of a test says. `plancache_manifest` is a run of its own, and `PROJECT.json` quotes its lines:

- A store for another platform that fails at the manifest has
  replaced the three other files. The old manifest still answers for the earlier
  platform, the inputs are unchanged, and the next build for it loads the graph of
  the other one. `docs/perf/stella-plan-cache-design.md:142` says that the next invocation is then a miss.

For the rest, a `.cfg` file that is named needs no change (`tlc -config X_y.cfg MCX`); "in `X.cfg` check
P" means to replace its `SYMMETRY`, invariants and properties by the one named, with `SPECIFICATION Spec`.

Records and caches:

- In `BuildState_reverts.cfg` set `Frontends = {"cli"}`, `Goals = {{c1, exe}}`,
  `Hazards = {"bad-exit"}`, `MaxBuilds = 3` and the invariant `CancelledIsRetried`: a failed
  build records nothing, so the key of the last success stays. If options go
  back to those of that success, the action is skipped over what its failed or
  cancelled process left. The log line promised `retry=next-build` (`executor.c:6888`).
- In `BuildState_failures.cfg` add `"delete-output"` to `Hazards`: `RecordsVouch` is violated:
  an output is deleted, the process that makes it again fails and leaves a part of it, and the
  record of the last success matches that part.
- `BuildState_beside.cfg`: `BuiltIsFresh` is violated. A daemon that has loaded the keys decides from its copy, while a build
  beside it has replaced `state.db` and the outputs (`executor.c:2682`): a program is built through the daemon, beside
  it with other options, and through the daemon with the first ones, and the outputs of the other options stay.
  `docs/daemon/stella-daemon.md:255`: "Daemon memory state mirrors existing on-disk state."
- In `BuildState_failures.cfg` set `Hazards = {"edit-while-building"}`:
  `RecordsVouch` and `BuiltIsFresh` are violated. The digest of a header found by a first compilation
  is taken when the build ends (`executor.c:5923`), so an edit in between is
  recorded as compiled. With `{"same-second"}` they are violated too: an output
  rewritten within the second, with the same size, looks unchanged to the link
  that uses it (`executor.c:1474`). Both are against
  `docs/perf/stella-plan-cache-design.md:120-121`.
- `BuildState_listed.cfg`: `NoRework` is violated. The key
  stored after a run and the key computed before the next hash the same inputs in
  different orders when a listed header is not included by the source
  (`executor.c:5869`, `6526`), and every build runs such an action again. `docs/performance-gates.md:31`
  measures a rerun that does nothing, and `tests/cxx-build-strategies.sh:85` expects one.
- In `ActionCache_entries.cfg` check `HeaderChangeIsMiss`: it is violated. A lookup by alias restores the entry's depfile before it knows that the
  entry fits (`action_cache.c:652`). When that list names a header that is gone,
  together with its include, the lookup fails the build, and the restored depfile
  stays to fail the next one, until the target is cleaned;
  `docs/local-action-cache.md:131` says that a changed header is a miss.
- `PlanCache_torn.cfg`: `PartialIsMiss` is violated. A store for one platform dies after its graph and actions; a file that
  only its evaluation came to is edited; the inputs of the earlier store, for the other platform, do not list that file
  (`stella_cache.c:1350`, `1408-1436`), so that a build for the other platform is a hit, on a graph that is of another platform and
  outdated. `docs/perf/stella-plan-cache-design.md:144,243`: a partial cache is a miss, and so is a mismatch of any authoring file.
- In `PlanCache_torn.cfg` set `Troubles = {"edit-while-building"}` and check `HitIsCurrent`: it
  is violated. The fingerprints are taken when the plan is stored
  (`stella_cache.c:1351`), after the evaluation, so a file edited in between is
  recorded as evaluated and every later build uses the old graph.
- In `PlanCache_builds.cfg` set `Provider = {1, 2}` and add
  `job[b].plan.provider = job[b].ask.provider` to `HitIsOfRequest`: `HitIsRight` is
  violated. `QSTAR_PROVIDER_DIR` (`lua_runtime.c:10281`) is
  read by an evaluation and is not in the manifest.

Daemon and tests:

- `DaemonLifecycle_half.cfg`: `StaleIsCleaned` is violated. A server binds under the umask of its user and protects the
  socket afterwards (`daemon.c:2687-2693`). If it ends in between, every later start is refused as unsafe
  (`daemon.c:657-661`, called at 709, before it is known whether anybody listens). `docs/daemon/stella-daemon.md:172-175` has stale sockets cleaned up.
- `DaemonLifecycle_reused.cfg`: `OnlyTheDaemonEnds` is violated. Between the answer to a stop's hello and SIGTERM, or in the
  five seconds before SIGKILL (`daemon.c:2963-2980`), the daemon may end by itself and its pid go to another process of
  the user, which then gets the signal. `docs/daemon/stella-daemon.md:170` says that a stop ends the
  process only when the pid is that of the answer.
- In `DaemonLifecycle_reused.cfg` set `Offered = {"stop", "serve"}` and check `OneActiveInstance`: it is violated.
  `--stop` removes the socket as soon as the recorded
  pid is dead, without asking who listens. A foreground server that has taken
  over from a crashed daemon is cut off that way, and the next start puts a
  second daemon beside it. The documentation says there is one active instance
  (`docs/daemon/stella-daemon.md:151`).
- In `DaemonService_requests.cfg` check `NoEventIsLost`: it is violated. The refresh after a build replaces
  the watcher without reading the old one's queue (`daemon.c:2335`). An authoring file
  edited during that build is then not noticed by any later request. The documentation
  says that a lost event invalidates the graph (`docs/daemon/stella-daemon.md:322`).
- In `DaemonService` remove `/\ lost = {}` from `GraphIsCurrent` and `RightAnswer` is violated
  by a load during which a file changes (`daemon.c:2132`): evaluated too early,
  fingerprinted and watched too late.
- In `DaemonService_requests.cfg` check `BuiltOnce`: it is violated. A
  client that cannot write the output it reads falls back although the daemon is
  building (`daemon.c:1146`); `docs/daemon/stella-daemon.md:241-242` allows a
  fall back only before the stream begins.
- In `TestBatch_batch.cfg` check `ResultNamesCause`: it is violated. When a setup
  fails and the cleanup then succeeds, the error result names the cleanup
  (`test_resources.c:771`); `docs/test-resources-and-results.md:172-173` says it
  names the phase that is the cause.

Graphs:

- In `Backends_graphs.cfg` set `Authored <- MCHeaders` and check `HeadersBeforeCompile`: it is violated. A precompiled header, and
  a source that an object library lends to its consumer, are compiled without waiting
  for the generated headers of the consumer; `docs/perf/stella-ninja-architecture.md:87` says
  that compiles wait for generated headers. `ProducersFirst` excepts these two reads.
- What `SameActions` and `SameVerdict` except. A link usage that names the target's own
  artifact is a cycle for the local executor, also in a static library, which links nothing; Ninja
  builds it. The local executor makes rules that a rule names in its arguments by path, that only an
  interface or an object library reaches, or whose headers belong to something that compiles nothing;
  Ninja does not. If one of these is a target it cannot compile, the local executor alone fails. A tool of a rule that is given by the path of a generated file is an edge of the
  local executor and no input of the Ninja statement (`NinjaNamesReads` excepts it).
- In neither backend does a compile wait for headers that a target it depends on generates, or
  for a maker of a file which a run command names as a plain word; the first is not part of `Reads`,
  the second is an edge only if something else discovers the maker.
- `ProducersFirst` excepts a rule whose tool is an output of its own, for which the local executor makes no edge and
  which it then cannot run.
- An object library that takes its consumer's context compiles nothing, and the local executor
  looks at the usage of its dependencies only for compile actions. The Ninja backend emits the makers of that usage
  for every object library (`ninja.c:3722-3784`). If such a maker needs the consumer, Ninja reports a circular
  generated action where the local executor builds (`OnlyNinjaFollows` in `SameVerdict`; `MCContext` has the graph).
- A target that only the local executor takes in, from a rule that only it follows to, may depend on itself; the local
  executor then reports the cycle and Ninja builds (`OnlyLocalRefused`).

- A source that an object library lends to a consumer with modules is taken, when its inputs are
  collected, for the consumer's own source that has the same place in the list
  (`qstar_cxx_collect_module_inputs`, called by both backends with an index into another list). If an
  interface stands there, the source counts as one and gets the interfaces before it only; if the list is
  longer than the consumer's, it gets none. The local executor still makes it wait for
  all interfaces of the consumer (`ProducersFirst` has `Imports` without an exception); the Ninja statement does not
  name them (`NinjaNamesReads` excepts borrowed sources). `docs/syntax.md:339-340` says that
  implementations depend on every interface.

Project commands:

- `ProjectCommands_defaults.cfg`: `DefaultIsUsed` is violated. A default
  that is given to an option that is not a bool is set and then, by the
  branch that follows, overwritten with the empty value (`executor.c:10362-10368`);
  `docs/generic-command-artifact-workflow.md:346` says that it is the value when the option is omitted.
  The example at line 470 of that page fails without `--out`.
- `ProjectCommands_labels.cfg`: `LabelsAreBuilt` is violated. Validation accepts `step.build` of a stage
  (`graph.c:2959`, `docs/syntax.md:739`); the local build then fails with an unknown label. `step.lint` of a rule or a stage is
  accepted too, and always reports; `LateLabel` names these and the tokens of run steps that are looked up late.
- `ProjectCommands_copies.cfg`: `CopiesAreWhole` is violated. `copy_file_to_path` does not look at the result of `fclose(out)`
  (`executor.c:11498`): what only the close could not write is missing from a copy that counts as done, and
  the manifest of the stage says ok. The comment at `executor.c:11468` says byte for byte.
- A called command gets no arguments, although `docs/generic-command-artifact-workflow.md:405` has
  `step.call(name, args)`, so a command with a required option always fails when it is called. The
  example at line 314 of that page, a stage whose root is an option, is refused by the reader.
- A stage exported to its own root, or a file whose destination is its source,
  is truncated by the copy (in `short`, too). A dry run, or a staging under another root, replaces
  the one manifest of the stage.
- The words of a run step may all be conditional; when none is left the step fails as it
  runs. Options named `help` or `no-...` can be declared and not be given.

Authoring and suites:

- In `Authoring_later.cfg` set `ProjectChoices <- MCSuites` and check `RequestsSelectOnlyThat`: it is violated. Every suite that is not manual is a
  root as soon as a tag is excluded, also when suites are named (`test_suite.c:369-388`);
  `docs/composable-test-suites.md:116,123` gives all suites only to an exclude tag that stands alone.
  The repository's test names a suite that holds all the others.
- `Authoring_later.cfg`: `LinkArtifactsArePromised` is violated. A final reads the artifacts of its dependencies when it is
  lowered; a dependency that is declared later counts with its primary artifact and not with its link interface
  (`lua_runtime.c:3433-3440`, `3600`; `docs/language-provider-backend-contract.md:267,293`).
- Seen in the model without a line of the documentation against it: a declaration that is refused
  inside a `pcall` leaves a half-read entry, which is accepted; a source whose unit could not
  be lowered stays a plain source; an error text left by a caught error makes
  the later lowering fail; a second provider of a namespace is refused after it has
  replaced the functions of the first (`lua_runtime.c:10851-10862`).

## 6. What is not modelled

- Formatting, logging, the text of the Ninja file and of plans, the Lua interpreter, the
  command line, the text tools and the editor extension: they keep no state a
  build decides on, or are interpreters of unbounded input.
- Two builds of one directory at once. They share `state.db.tmp`; the code has no
  lock for it.
- In the daemon: `--status`, the checks on the socket's directory and path, a pid
  file that names another socket, the methods of a query, the frames of the
  stream, watch events other than those of authoring files (the program only
  traces them), the state cache across workspaces.
- Children that survive a killed builder.
- In `BuildState`: restores from the local action cache (the mode is off), actions that declare a depfile
  of their own, the fast paths that skip preparing an action when the daemon
  knows that nothing changed, the compilation database written beside the state.
- In `ActionCache`: the decision whether an action is cacheable, file modes, the
  statistics, the Ninja backend's use of the cache, files that change during a
  build, an action with several outputs.
- In `PlanCache`: the bytes of the files and their version checks, a reader that meets
  a file being replaced (a rename is atomic; on Windows a file may be missing for a
  moment, which `Remove` covers), the daemon's own use of the same functions.
- In `Scheduler`: the wait for output is one step, and terminating and reaping a
  child is one step; the platform code retries interrupted calls.

- In `BuildGraph`: sources of other languages, the family of the compiler and the standard that
  C++ strategies need, two interfaces of one name; link inputs that are libraries, visibility, aliases of packages, whether files exist.
  In `NativeGraph` a pass of discovery reads the sets as the pass begins, while the code's
  pass sees some additions sooner; both stop when a pass adds nothing.
- In `NinjaGraph`: the wrapper around restat and the action cache, `compile_commands.json`.
- In `Staging`: what the manifest says of each file, bytes of a manifest that its own close loses, directories (a failure to
  make one is a failure to open the file), a stage that the
  scheduler runs for a run target (`NativeGraph` has it as a node).
- In `ProjectCommands`: environment and expectations of a run step but for their outcome,
  help texts, the bundled command specifications.
- In `Authoring`: loops and conditions of Lua (a file is the sequence of statements it
  comes to), the pure helpers (`join`, `files`, `merge`), usage tables, scaffolds, what
  a provider's implementation computes, paths that are too long and memory that runs out, the
  validation of packages, outputs and sources that `main` does beside that of
  the suites. A manifest is validated once, while the code looks at it again inside
  `qstar.language_provider`, with the same outcome.

## 7. Plan

Done: `BuildOrder`; `Scheduler`, `TestBatch`, `BuildState`, `ActionCache`, `DaemonLifecycle`,
`DaemonService`, `PlanCache` and `Backends` (of `BuildGraph`, `NativeGraph`, `NinjaGraph`), each with its proofs; `Staging`, `ProjectCommands`; `GraphTables`, `Declarations`,
`ProviderFinals`, `TestSuites`, `Authoring`.

Modules to come, most important first:

1. Two builds at a time in `BuildState` (the hazard at `executor.c:2752`), and edits during a build in
   `ActionCache` (`executor.c:1294`).
2. Pure operators: response files, labels, tool precedence,
   each against a reference definition over bounded inputs.
3. Process capture: pipes, deadlines and process groups under `Scheduler` and
   `TestBatch`, of which their `proc` is the abstraction.

Proofs to come: `ManifestTellsTree` for `Staging`;
`ContextIsTheStack` for `Authoring`, once `TestSuites` and `ProviderFinals` have the form of
recursive functions.
