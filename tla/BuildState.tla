----------------------------- MODULE BuildState -----------------------------
(***************************************************************************)
(* Incremental builds: what one build records for the next, and how the    *)
(* next decides from it what to run.                                       *)
(*                                                                         *)
(* Of src/src/executor.c: graph_build_with_options_and_state_cache with    *)
(* the action keys, the dirty check, the depfile refresh, state.db,        *)
(* deps.db and the daemon's copies of both.  Builds follow one another     *)
(* while somebody edits the tree, changes options, deletes outputs, and    *)
(* while processes fail and the builder is killed.  The order in which a   *)
(* build runs its actions is any the dependencies allow (see Scheduler).   *)
(* The local action cache is off.                                          *)
(***************************************************************************)
EXTENDS Naturals, FiniteSets, Sequences, SequencesExt

CONSTANTS
    File,        \* sources and headers
    Compile,     \* actions that compile one source and write a depfile
    Final,       \* archive and link actions, which write none
    SourceOf,    \* SourceOf[a]: the source compiled by a
    Static,      \* Static[a]: the inputs the graph gives a, in order
    Includes,    \* Includes[f][e]: the headers edition e of source f includes
    Option,      \* what else is in a key: flags, environment, tool policy
    OptionMoves, \* the changes of option that happen
    Goals,       \* the sets of actions a build may be asked for
    Frontends,   \* who builds: "cli" or "daemon"
    Hazards,     \* what may happen, a set of HazardNames
    MaxEdits, MaxBuilds, \* bounds on a behaviour
    None

Action == Compile \cup Final
Input == File \cup Action
HazardNames == {"bad-exit", "kill", "io-error", "delete-output", "delete-depfile",
                "remove-file", "edit-while-building", "same-second", "daemon-restart"}

Needs(a) == ToSet(Static[a]) \cap Action

ASSUME TreeAssumption ==
    /\ IsFiniteSet(Action) /\ Compile \cap Final = {} /\ File \cap Action = {}
    /\ SourceOf \in [Compile -> File] /\ Static \in [Action -> Seq(Input)]
    /\ \A a \in Compile : ToSet(Static[a]) \subseteq File /\ SourceOf[a] \in ToSet(Static[a])
    /\ \A a \in Final : ToSet(Static[a]) \subseteq Compile
    /\ \A a \in Compile, e \in 0..MaxEdits : Includes[SourceOf[a]][e] \in Seq(File)
    /\ Goals \subseteq SUBSET Action /\ \A g \in Goals : \A a \in g : Needs(a) \subseteq g
    /\ None \notin Option /\ OptionMoves \subseteq Option \X Option
    /\ Frontends \subseteq {"cli", "daemon"} /\ Hazards \subseteq HazardNames
    /\ MaxEdits \in Nat \ {0} /\ MaxBuilds \in Nat

VARIABLES
    \* the working tree
    edition,   \* edition[f]: which edit wrote f; 0 when the file is missing
    option,    \* the option the graph has at present
    obj,       \* obj[a]: the output of a, its time in seconds and what made it
    depfile,   \* depfile[a]: the depfile of a, its time and the list in it
    second,    \* the clock that stamps outputs and depfiles
    edits,     \* number of edits so far
    \* the build directory and the daemon
    stateDb,   \* state.db: the key recorded for each action
    depsDb,    \* deps.db: the depfile list recorded for each action
    mem,       \* the daemon's in-memory copies
    \* the build in progress
    phase,     \* "idle", "build", "state" or "deps"
    goal, frontend,
    st,        \* st[a]: "todo", "running", "skipped" or "built"
    prev, next,          \* keys recorded before, keys of this build
    depsPrev, depsNext,  \* the same for depfile lists
    memo,      \* the digests this build has already computed
    plan,      \* plan[a]: the key and depfile list of a when it was prepared
    builds,    \* number of builds begun
    \* history, for the properties
    sure,      \* actions brought up to date by builds since the last change
    steady,    \* nothing changed since the build in progress began
    owed       \* actions whose process was cancelled or failed and not rerun

tree == <<edition, option, obj, depfile, second, edits>>
stored == <<stateDb, depsDb, mem>>
ctx == <<goal, frontend, st, prev, next, depsPrev, depsNext, memo, plan, builds>>
history == <<sure, steady, owed>>
vars == <<tree, stored, phase, ctx, history>>

May(h) == h \in Hazards

NoKey == [opt |-> None, inputs |-> <<>>, deps |-> <<>>]
NoDeps == [print |-> 0, list |-> <<>>]
Nothing == [opt |-> None, read |-> <<>>]
NoOutput == [stamp |-> 0, of |-> Nothing]
NoPlan == [key |-> NoKey, deps |-> <<>>]
NoMemory == [loaded |-> FALSE, state |-> [a \in Action |-> NoKey],
             depsLoaded |-> FALSE, deps |-> [a \in Action |-> NoDeps]]

\* What s lists and t does not, in the order of s.
Without(s, t) ==
    LET kept == {i \in DOMAIN s : s[i] \notin ToSet(t)}
        Rank(i) == Cardinality({h \in kept : h <= i})
    IN  [n \in 1..Cardinality(kept) |-> s[CHOOSE i \in kept : Rank(i) = n]]

-----------------------------------------------------------------------------
\* What the tools do.

\* The depfile a compiler writes: the source and what it includes.
Discovered(a) == <<SourceOf[a]>> \o Includes[SourceOf[a]][edition[SourceOf[a]]]

Reads(a) == IF a \in Compile THEN ToSet(Discovered(a)) ELSE ToSet(Static[a])

\* What an output is when its action runs now.
Content(a) ==
    [opt |-> option,
     read |-> [x \in Reads(a) |-> IF x \in File THEN edition[x] ELSE obj[x].of]]

InputsExist(a) ==
    \A x \in Reads(a) : IF x \in File THEN edition[x] # 0 ELSE obj[x].stamp # 0

-----------------------------------------------------------------------------
\* Keys.

\* hash_file: once computed, a digest stands for the rest of the build.  An
\* output is known by its size and time only.
HashFile(x) ==
    IF memo[x] # <<>> THEN memo[x]
    ELSE <<x, IF x \in File THEN edition[x] ELSE obj[x].stamp>>

\* compute_action_key: digests in the order of the lists.
ActionKey(inputs, deps) ==
    [opt |-> option,
     inputs |-> [i \in DOMAIN inputs |-> HashFile(inputs[i])],
     deps |-> [i \in DOMAIN deps |-> HashFile(deps[i])]]

Remember(s) == [x \in Input |-> IF x \in ToSet(s) THEN HashFile(x) ELSE memo[x]]

\* Mutation: a recorded list is used whatever the depfile is now.
DepsHitAlways(a) == depsPrev[a].print # 0

\* depfile_fingerprint: the recorded list is taken when the depfile has its size
\* and its time in seconds, without a look at the contents.
DepsHit(a) ==
    /\ depsPrev[a].print = depfile[a].print
    /\ Len(depsPrev[a].list) = Len(depfile[a].list)

\* push_depfile_inputs: nothing without a depfile.
DepInputs(a) ==
    IF a \notin Compile \/ depfile[a].print = 0 THEN <<>>
    ELSE IF DepsHit(a) THEN depsPrev[a].list ELSE depfile[a].list

RecordDeps(a) ==
    IF a \in Compile /\ depfile[a].print # 0
    THEN [print |-> depfile[a].print, list |-> DepInputs(a)] ELSE depsNext[a]

\* push_depfile_token fails the build over a listed file that is gone.
DepsPresent(a) == \A x \in ToSet(DepInputs(a)) : edition[x] # 0

\* The inputs of a prepared action: those of the graph, then the discovered.
PreparedInputs(a) == Static[a] \o Without(DepInputs(a), Static[a])
PreparedKey(a) == ActionKey(PreparedInputs(a), DepInputs(a))

-----------------------------------------------------------------------------
Init ==
    /\ edition = [f \in File |-> 1]
    /\ option \in Option
    /\ obj = [a \in Action |-> NoOutput]
    /\ depfile = [a \in Action |-> NoDeps]
    /\ second = 0 /\ edits = 1
    /\ stateDb = [a \in Action |-> NoKey]
    /\ depsDb = [a \in Action |-> NoDeps]
    /\ mem = NoMemory
    /\ phase = "idle"
    /\ goal = {} /\ frontend = None
    /\ st = [a \in Action |-> "todo"]
    /\ prev = [a \in Action |-> NoKey] /\ next = prev
    /\ depsPrev = [a \in Action |-> NoDeps] /\ depsNext = depsPrev
    /\ memo = [x \in Input |-> <<>>]
    /\ plan = [a \in Action |-> NoPlan]
    /\ builds = 0
    /\ sure = {} /\ steady = TRUE /\ owed = {}

-----------------------------------------------------------------------------
\* The tree changes.

Changed ==
    /\ sure' = {}
    /\ steady' = FALSE
    /\ UNCHANGED <<stored, phase, ctx, owed>>

Edit(f) ==
    /\ phase = "idle" \/ May("edit-while-building")
    /\ edits < MaxEdits
    /\ edits' = edits + 1
    /\ edition' = [edition EXCEPT ![f] = edits + 1]
    /\ Changed
    /\ UNCHANGED <<option, obj, depfile, second>>

\* A header can go at any time.
RemoveFile(f) ==
    /\ May("remove-file")
    /\ edition[f] # 0
    /\ \A a \in Compile : f # SourceOf[a]
    /\ edition' = [edition EXCEPT ![f] = 0]
    /\ Changed
    /\ UNCHANGED <<option, obj, depfile, second, edits>>

\* A build works on the graph it has loaded: options change between builds.
SetOption(o) ==
    /\ phase = "idle"
    /\ <<option, o>> \in OptionMoves
    /\ edits < MaxEdits
    /\ edits' = edits + 1
    /\ option' = o
    /\ Changed
    /\ UNCHANGED <<edition, obj, depfile, second>>

DeleteOutput(a) ==
    /\ May("delete-output")
    /\ phase = "idle"
    /\ obj[a].stamp # 0
    /\ obj' = [obj EXCEPT ![a] = NoOutput]
    /\ Changed
    /\ UNCHANGED <<edition, option, depfile, second, edits>>

DeleteDepfile(a) ==
    /\ May("delete-depfile")
    /\ phase = "idle"
    /\ depfile[a].print # 0
    /\ depfile' = [depfile EXCEPT ![a] = NoDeps]
    /\ Changed
    /\ UNCHANGED <<edition, option, obj, second, edits>>

-----------------------------------------------------------------------------
\* A build.

SomeDeps(d) == \E a \in Action : d[a].print # 0

\* state_load_with_memory: a daemon that has loaded the state once does not
\* look at the disk again.
LoadedState(who) == IF who = "daemon" /\ mem.loaded THEN mem.state ELSE stateDb

\* deps_load_with_memory; an empty database does not count as loaded.
LoadedDeps(who) == IF who = "daemon" /\ mem.depsLoaded THEN mem.deps ELSE depsDb

Begin(g, who) ==
    /\ phase = "idle"
    /\ builds < MaxBuilds
    /\ builds' = builds + 1
    /\ prev' = LoadedState(who)
    /\ depsPrev' = LoadedDeps(who)
    /\ mem' = IF who = "cli" THEN mem
              ELSE [loaded |-> TRUE, state |-> prev',
                    depsLoaded |-> SomeDeps(depsPrev'), deps |-> depsPrev']
    /\ goal' = g /\ frontend' = who
    /\ phase' = "build"
    /\ steady' = TRUE
    /\ UNCHANGED <<tree, stateDb, depsDb, st, next, depsNext, memo, plan, sure, owed>>

\* Whatever a build knows is gone when it ends.
Forget ==
    /\ phase' = "idle"
    /\ goal' = {} /\ frontend' = None
    /\ st' = [a \in Action |-> "todo"]
    /\ prev' = [a \in Action |-> NoKey] /\ next' = prev'
    /\ depsPrev' = [a \in Action |-> NoDeps] /\ depsNext' = depsPrev'
    /\ memo' = [x \in Input |-> <<>>]
    /\ plan' = [a \in Action |-> NoPlan]
    /\ UNCHANGED builds

Running == {a \in Action : st[a] = "running"}

Ready(a) ==
    /\ phase = "build"
    /\ a \in goal /\ st[a] = "todo"
    /\ \A b \in Needs(a) : st[b] \in {"skipped", "built"}

\* Mutation: only the outputs are looked at.
CacheHitUnkeyed(a) == obj[a].stamp # 0 /\ prev[a] # NoKey

\* prepared_action_cache_hit.
CacheHit(a) == prev[a] = PreparedKey(a) /\ obj[a].stamp # 0

Prepare(a) ==
    /\ Ready(a)
    /\ DepsPresent(a)
    /\ memo' = Remember(PreparedInputs(a))
    /\ depsNext' = [depsNext EXCEPT ![a] = RecordDeps(a)]

Skip(a) ==
    /\ Prepare(a)
    /\ CacheHit(a)
    /\ st' = [st EXCEPT ![a] = "skipped"]
    /\ next' = [next EXCEPT ![a] = PreparedKey(a)]
    /\ UNCHANGED <<tree, stored, phase, goal, frontend, prev, depsPrev, plan, builds, history>>

Start(a) ==
    /\ Prepare(a)
    /\ ~CacheHit(a)
    /\ st' = [st EXCEPT ![a] = "running"]
    /\ plan' = [plan EXCEPT ![a] = [key |-> PreparedKey(a), deps |-> DepInputs(a)]]
    /\ UNCHANGED <<tree, stored, phase, goal, frontend, prev, next, depsPrev, builds, history>>

\* The second an output and its depfile are stamped with.
Seconds == IF May("same-second") /\ second > 0 THEN {second, second + 1} ELSE {second + 1}

\* The process reads its inputs, writes output and depfile, and exits well;
\* finish_running_action records the key the action was prepared with.
Finish(a) ==
    /\ phase = "build"
    /\ st[a] = "running"
    /\ InputsExist(a)
    /\ second' \in Seconds
    /\ obj' = [obj EXCEPT ![a] = [stamp |-> second', of |-> Content(a)]]
    /\ depfile' = IF a \in Compile
                  THEN [depfile EXCEPT ![a] = [print |-> second', list |-> Discovered(a)]]
                  ELSE depfile
    /\ st' = [st EXCEPT ![a] = "built"]
    /\ next' = [next EXCEPT ![a] = plan[a].key]
    /\ owed' = owed \ {a}
    /\ UNCHANGED <<edition, option, edits, stored, phase, goal, frontend, prev,
                   depsPrev, depsNext, memo, plan, builds, sure, steady>>

-----------------------------------------------------------------------------
\* A build that does not get to its end.

\* What the terminated processes in S leave behind: each its output as it was,
\* none, a part of one, or a whole one nobody waited for.
Leftovers(S) ==
    /\ second' = second + 1
    /\ \E whole \in SUBSET {a \in S : InputsExist(a)} :
       \E part \in SUBSET (S \ whole) :
       \E gone \in SUBSET (S \ (whole \cup part)) :
         /\ obj' = [a \in Action |->
              IF a \in whole THEN [stamp |-> second + 1, of |-> Content(a)]
              ELSE IF a \in part THEN [stamp |-> second + 1, of |-> Nothing]
              ELSE IF a \in gone THEN NoOutput ELSE obj[a]]
         /\ depfile' = [a \in Action |->
              IF a \in whole \cap Compile
              THEN [print |-> second + 1, list |-> Discovered(a)] ELSE depfile[a]]
    /\ UNCHANGED <<edition, option, edits>>

\* cancel_running_actions and the return without a commit.
GiveUp ==
    /\ IF Running = {} THEN UNCHANGED tree ELSE Leftovers(Running)
    /\ owed' = owed \cup Running
    /\ sure' = {a \in sure : ({a} \cup Needs(a)) \cap Running = {}}
    /\ Forget
    /\ UNCHANGED steady

\* A process fails or overruns its limit.
ExitBad ==
    /\ May("bad-exit")
    /\ phase = "build" /\ Running # {}
    /\ GiveUp
    /\ UNCHANGED stored

\* An action cannot be prepared for a file its depfile lists, or its process
\* cannot read an input.
MissingInput ==
    /\ phase = "build"
    /\ \E a \in Action : \/ Ready(a) /\ ~DepsPresent(a)
                         \/ st[a] = "running" /\ ~InputsExist(a)
    /\ GiveUp
    /\ UNCHANGED stored

\* The builder is killed; a daemon takes its memory with it.
Kill ==
    /\ May("kill")
    /\ phase # "idle"
    /\ GiveUp
    /\ mem' = IF frontend = "daemon" THEN NoMemory ELSE mem
    /\ UNCHANGED <<stateDb, depsDb>>

DaemonRestart ==
    /\ May("daemon-restart")
    /\ phase = "idle"
    /\ mem # NoMemory
    /\ mem' = NoMemory
    /\ UNCHANGED <<tree, stateDb, depsDb, phase, ctx, history>>

-----------------------------------------------------------------------------
\* The end of a build.

Settled == phase = "build" /\ \A a \in goal : st[a] \in {"skipped", "built"}

\* The compiles whose keys wait to be refreshed.
Refreshed == {a \in Compile : st[a] = "built"}

\* refresh_action_state_after_depfile: the static inputs are those prepared
\* less the depfile list of then; the new list follows them.
RefreshedInputs(a) ==
    LET static == Without(Static[a], plan[a].deps)
    IN  static \o Without(DepInputs(a), static)

\* depfile_refresh_queue_flush.
FlushedKeys ==
    [a \in Action |-> IF a \in Refreshed
                      THEN ActionKey(RefreshedInputs(a), DepInputs(a)) ELSE next[a]]

Flush ==
    /\ Settled
    /\ \A a \in Refreshed : DepsPresent(a)
    /\ next' = FlushedKeys
    /\ depsNext' = [a \in Action |-> IF a \in Refreshed THEN RecordDeps(a) ELSE depsNext[a]]
    /\ phase' = "state"
    /\ UNCHANGED <<tree, stored, goal, frontend, st, prev, depsPrev, memo, plan, builds, history>>

FlushFails ==
    /\ Settled
    /\ \E a \in Refreshed : ~DepsPresent(a)
    /\ GiveUp
    /\ UNCHANGED stored

\* Mutation: what the build did not visit is dropped.
PreservedNone == next

\* state_preserve_previous_unvisited.
Preserved == [a \in Action |-> IF next[a] # NoKey THEN next[a] ELSE prev[a]]

\* state_memory_update.
StateInMemory ==
    IF frontend = "daemon" THEN [mem EXCEPT !.loaded = TRUE, !.state = Preserved] ELSE mem

\* state_write, committed by a rename, and the daemon's copy.
WriteState ==
    /\ phase = "state"
    /\ stateDb' = Preserved
    /\ mem' = StateInMemory
    /\ phase' = "deps"
    /\ UNCHANGED <<tree, depsDb, ctx, history>>

\* deps_memory_update.
DepsInMemory ==
    IF frontend = "daemon" /\ SomeDeps(depsNext)
    THEN [mem EXCEPT !.depsLoaded = TRUE, !.deps = depsNext] ELSE mem

\* deps_db_write: all stays as it was when the build saw no depfile, and only
\* the lists it saw are kept when it did.
WriteDeps ==
    /\ phase = "deps"
    /\ depsDb' = IF SomeDeps(depsNext) THEN depsNext ELSE depsDb
    /\ mem' = DepsInMemory
    /\ sure' = IF steady THEN sure \cup goal ELSE {}
    /\ Forget
    /\ UNCHANGED <<tree, stateDb, steady, owed>>

\* One of the two files cannot be written.
WriteFails ==
    /\ May("io-error")
    /\ phase \in {"state", "deps"}
    /\ GiveUp
    /\ UNCHANGED stored

-----------------------------------------------------------------------------
Change ==
    \/ \E f \in File : Edit(f) \/ RemoveFile(f)
    \/ \E o \in Option : SetOption(o)
    \/ \E a \in Action : DeleteOutput(a) \/ DeleteDepfile(a)

Build ==
    \/ \E g \in Goals, who \in Frontends : Begin(g, who)
    \/ \E a \in Action : Skip(a) \/ Start(a) \/ Finish(a)
    \/ ExitBad \/ MissingInput \/ Kill \/ DaemonRestart
    \/ Flush \/ FlushFails \/ WriteState \/ WriteDeps \/ WriteFails

Next == Change \/ Build

Spec == Init /\ [][Next]_vars

-----------------------------------------------------------------------------
Keys == [opt : Option \cup {None}, inputs : Seq(Input \X Nat), deps : Seq(File \X Nat)]
DepLists == [print : Nat, list : Seq(File)]
Stamped(o) == o.stamp \in 0..second /\ (o.stamp = 0 => o = NoOutput)

TypeOK ==
    /\ edition \in [File -> 0..edits] /\ option \in Option
    /\ \A a \in Action : Stamped(obj[a])
    /\ depfile \in [Action -> DepLists] /\ \A a \in Final : depfile[a] = NoDeps
    /\ second \in Nat /\ edits \in 1..MaxEdits
    /\ stateDb \in [Action -> Keys] /\ depsDb \in [Action -> DepLists]
    /\ mem.loaded \in BOOLEAN /\ mem.depsLoaded \in BOOLEAN
    /\ mem.state \in [Action -> Keys] /\ mem.deps \in [Action -> DepLists]
    /\ phase \in {"idle", "build", "state", "deps"}
    /\ goal \in Goals \cup {{}} /\ frontend \in Frontends \cup {None}
    /\ st \in [Action -> {"todo", "running", "skipped", "built"}]
    /\ prev \in [Action -> Keys] /\ next \in [Action -> Keys]
    /\ depsPrev \in [Action -> DepLists] /\ depsNext \in [Action -> DepLists]
    /\ DOMAIN memo = Input
    /\ \A a \in Action : plan[a].key \in Keys /\ plan[a].deps \in Seq(File)
    /\ builds \in 0..MaxBuilds
    /\ sure \subseteq Action /\ owed \subseteq Action /\ steady \in BOOLEAN

(***************************************************************************)
(* The reason to have a build tool: when a build reports success and       *)
(* nothing has changed since it began, every output it was asked for is    *)
(* what its action makes of the present tree and options, although most    *)
(* actions were skipped on the word of state.db, or of the daemon's copy   *)
(* of it, which a build beside the daemon leaves behind                    *)
(* (the instance of BuildState_beside.cfg).                                *)
(* "stale source/header 변경은 기존 dirty-check와 같은 방식으로            *)
(* rebuild된다" (docs/perf/stella-plan-cache-design.md:121).               *)
(***************************************************************************)
BuiltIsFresh == \A a \in sure : obj[a].stamp # 0 /\ obj[a].of = Content(a)

(***************************************************************************)
(* The dirty check is sound at every moment a build may begin: a recorded  *)
(* key that the next build would compute again vouches for the output,     *)
(* whatever failed or was killed since it was recorded.                    *)
(***************************************************************************)
KeyVouches ==
    phase = "idle" =>
      \A a \in Action : stateDb[a] = PreparedKey(a) /\ obj[a].stamp # 0
                          => obj[a].of = Content(a)

(***************************************************************************)
(* A repeated build runs nothing: what a build has brought up to date is   *)
(* not run again before something changes, by any build whose goals cover  *)
(* it.  The key stored after the run (from the depfile the run wrote) must *)
(* be the key the next build computes before it.                           *)
(* It is not for a target that lists a header its source does not include  *)
(* (the instance of BuildState_listed.cfg).                                *)
(* "`noop` | 같은 source와 같은 build directory에서 재실행"                *)
(* (docs/performance-gates.md:31), with "run=0" in                         *)
(* tests/cxx-build-strategies.sh:85.                                       *)
(***************************************************************************)
NoRework == sure \cap Running = {}

(***************************************************************************)
(* A list that deps.db or the daemon's memory offers for a depfile is the  *)
(* list in that depfile, also after a crash between the two databases and  *)
(* when processes die after writing a depfile.                             *)
(***************************************************************************)
DepsDbTransparent ==
    \A d \in {depsDb, mem.deps, depsPrev, depsNext} : \A a \in Action :
        d[a].print # 0 /\ d[a].print = depfile[a].print => d[a].list = depfile[a].list

(***************************************************************************)
(* Whatever has failed or been killed, what state.db and deps.db record can *)
(* be believed by the next build.                                          *)
(***************************************************************************)
RecordsVouch == TypeOK /\ KeyVouches /\ DepsDbTransparent

(***************************************************************************)
(* "build_action id=... status=cancelled reason=parallel-failure           *)
(* retry=next-build" (executor.c:6888, tests/smoke.sh:6703): no later      *)
(* build takes an action whose process failed or was cancelled for done    *)
(* while its output is not what the action would make.                     *)
(***************************************************************************)
CancelledIsRetried == \A a \in owed : st[a] = "skipped" => obj[a].of = Content(a)
=============================================================================
