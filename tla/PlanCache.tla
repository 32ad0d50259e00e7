------------------------------ MODULE PlanCache ------------------------------
(***************************************************************************)
(* The plan cache of Stella (src/src/stella_cache.c): a build first tries  *)
(* to load the graph and the lowered actions from the four files of an     *)
(* earlier build, evaluates the authoring files when it cannot, and then   *)
(* replaces the four files one after the other.                            *)
(*                                                                         *)
(* Several builds may use a directory at once: no lock is taken.  Builders *)
(* die, replacements fail, files are removed.                              *)
(***************************************************************************)
EXTENDS Naturals, Sequences

CONSTANTS
    Builder,
    Label,
    Choice,     \* what else a build is asked with: entry file, platform, options
    Authored,   \* the authoring files
    Visits,     \* Visits[c]: those that an evaluation with the choice c comes to
    Provider,   \* values of QSTAR_PROVIDER_DIR
    Troubles,   \* what may go wrong here
    MaxEdits,   \* bound on the edits
    MaxBuilds,  \* bound on the builds
    None

Request == [label : Label, choice : Choice, provider : Provider]

ASSUME PlanCacheAssumption ==
    /\ MaxEdits \in Nat /\ MaxBuilds \in Nat
    /\ Troubles \subseteq {"kill", "write-error", "remove", "edit-while-building"}
    /\ Visits \in [Choice -> SUBSET Authored \ {{}}]
    /\ None \notin Request /\ None \notin Nat
    /\ None \notin [Authored -> Nat]
    /\ Builder \cap {"whole", "torn", "no-manifest"} = {}

VARIABLES
    tree,    \* tree[f]: the edition of the authoring file f, and whether it uses globs
    listing, \* edition of the file names that a glob would find
    cache,   \* cache[f]: what is in file f of the cache directory
    job,     \* job[b]: where builder b is, and its locals
    edits,   \* edits made so far
    builds,  \* builds begun so far
    state,   \* history: what the last store has come to
    stored   \* history: the last whole store, while nothing has changed since

vars == <<tree, listing, cache, job, edits, builds, state, stored>>

File == {"graph", "actions", "inputs", "manifest"}

\* Mutation: the fingerprints are written before what they vouch for.
StoreInputsFirst == <<"inputs", "graph", "actions", "manifest">>

StoreOrder == <<"graph", "actions", "inputs", "manifest">>

Idle == [at |-> "idle", ask |-> None, plan |-> None, actions |-> None, hit |-> FALSE, next |-> 1]
Busy(b) == job[b].at # "idle"
May(what) == what \in Troubles

\* The file f as an evaluation with choice c reads it; 0 when it does not come to it.
Fingerprint(c, f) == IF f \in Visits[c] THEN tree[f].edition ELSE 0
Fingerprints(c) == [f \in Authored |-> Fingerprint(c, f)]

\* What an evaluation makes of the tree as it is.
PlanOf(r) ==
    LET globs == \E f \in Visits[r.choice] : tree[f].globs
    IN  [seen |-> Fingerprints(r.choice), globs |-> globs,
         listing |-> IF globs THEN listing ELSE 0,
         choice |-> r.choice, provider |-> r.provider]

Init ==
    /\ tree \in [Authored -> [edition : {1}, globs : BOOLEAN]]
    /\ listing = 1
    /\ cache = [f \in File |-> None]
    /\ job = [b \in Builder |-> Idle]
    /\ edits = 0 /\ builds = 0
    /\ state = "whole" /\ stored = None

-----------------------------------------------------------------------------
\* qstar_stella_plan_cache_try_load.

Goes(b, r) == job' = [job EXCEPT ![b] = r]
Misses(b) == Goes(b, [Idle EXCEPT !.at = "evaluate", !.ask = job[b].ask])

Begin(b) ==
    /\ ~Busy(b)
    /\ builds < MaxBuilds
    /\ builds' = builds + 1
    /\ \E r \in Request : Goes(b, [Idle EXCEPT !.at = "manifest", !.ask = r])
    /\ UNCHANGED <<tree, listing, cache, edits, state, stored>>

\* manifest_matches.
ManifestMatches(m, r) == m.label = r.label /\ m.choice = r.choice

LoadManifest(b) ==
    /\ job[b].at = "manifest"
    /\ IF cache["manifest"] # None /\ ManifestMatches(cache["manifest"], job[b].ask)
       THEN Goes(b, [job[b] EXCEPT !.at = "inputs"])
       ELSE Misses(b)
    /\ UNCHANGED <<tree, listing, cache, edits, builds, state, stored>>

\* inputs_match: the files that are listed, and no others, are as they were.
InputsMatch ==
    /\ cache["inputs"] # None
    /\ \A f \in Authored : cache["inputs"][f] \in {0, tree[f].edition}

\* Once the actions are known to be there.
LoadInputs(b) ==
    /\ job[b].at = "inputs"
    /\ IF cache["actions"] # None /\ InputsMatch
       THEN Goes(b, [job[b] EXCEPT !.at = "graph"])
       ELSE Misses(b)
    /\ UNCHANGED <<tree, listing, cache, edits, builds, state, stored>>

\* read_graph_cache_file.
LoadGraph(b) ==
    /\ job[b].at = "graph"
    /\ IF cache["graph"] # None
       THEN Goes(b, [job[b] EXCEPT !.at = "actions", !.plan = cache["graph"]])
       ELSE Misses(b)
    /\ UNCHANGED <<tree, listing, cache, edits, builds, state, stored>>

\* read_actions_file; then the loaded graph takes the place of the empty one.
LoadActions(b) ==
    /\ job[b].at = "actions"
    /\ IF cache["actions"] # None /\ cache["actions"].label = job[b].ask.label
       THEN Goes(b, [job[b] EXCEPT !.at = "build", !.hit = TRUE, !.actions = cache["actions"].plan])
       ELSE Misses(b)
    /\ UNCHANGED <<tree, listing, cache, edits, builds, state, stored>>

-----------------------------------------------------------------------------
Cacheable(plan) == ~plan.globs

\* The authoring files are evaluated and the graph is validated.
Evaluate(b) ==
    /\ job[b].at = "evaluate"
    /\ LET plan == PlanOf(job[b].ask)
       IN  Goes(b, [job[b] EXCEPT !.at = IF Cacheable(plan) THEN "store" ELSE "build",
                                  !.plan = plan])
    /\ UNCHANGED <<tree, listing, cache, edits, builds, state, stored>>

EvaluateFails(b) ==
    /\ job[b].at = "evaluate"
    /\ Goes(b, Idle)
    /\ UNCHANGED <<tree, listing, cache, edits, builds, state, stored>>

-----------------------------------------------------------------------------
\* qstar_stella_plan_cache_store.

\* Mutation: the actions are filed under the name of the graph's first target.
LabelOfFirst(r) == CHOOSE l \in Label : TRUE

LabelKey(r) == r.label

\* What the store of b writes into f.  The files that its evaluation came to are
\* read again to be written.
Written(b, f) ==
    CASE f = "graph" -> job[b].plan
      [] f = "actions" -> [label |-> LabelKey(job[b].ask), plan |-> job[b].plan]
      [] f = "inputs" -> Fingerprints(job[b].plan.choice)
      [] f = "manifest" -> [label |-> job[b].ask.label, choice |-> job[b].ask.choice]

Alone(b) == \A c \in Builder \ {b} : ~Busy(c)

\* Whether the store of b, having come to its step n, has had the directory to itself.
After(b, n) ==
    IF ~Alone(b) \/ (n > 1 /\ state # b) THEN "torn"
    ELSE IF n = Len(StoreOrder) THEN "whole" ELSE b

\* One file is written beside the old one and takes its name.
StoreFile(b) ==
    /\ job[b].at = "store"
    /\ LET n == job[b].next
           last == n = Len(StoreOrder)
       IN  /\ cache' = [cache EXCEPT ![StoreOrder[n]] = Written(b, StoreOrder[n])]
           /\ Goes(b, IF last THEN [job[b] EXCEPT !.at = "build"]
                              ELSE [job[b] EXCEPT !.next = n + 1])
           /\ state' = After(b, n)
           /\ stored' = IF /\ state' = "whole"
                           /\ \A f \in File : cache'[f] # None
                           /\ cache'["inputs"] = Fingerprints(job[b].ask.choice)
                        THEN job[b].ask ELSE None
    /\ UNCHANGED <<tree, listing, edits, builds>>

\* What the end of b's store leaves: all but the manifest of its own, or a mixture.
Cut(b) ==
    CASE job[b].at # "store" \/ job[b].next = 1 -> state
      [] job[b].next = Len(StoreOrder) /\ state = b -> "no-manifest"
      [] OTHER -> "torn"

\* The replaced files stay; the build fails.
StoreFails(b) ==
    /\ May("write-error")
    /\ job[b].at = "store"
    /\ Goes(b, Idle)
    /\ state' = Cut(b)
    /\ UNCHANGED <<tree, listing, cache, edits, builds, stored>>

Build(b) ==
    /\ job[b].at = "build"
    /\ Goes(b, Idle)
    /\ UNCHANGED <<tree, listing, cache, edits, builds, state, stored>>

Killed(b) ==
    /\ May("kill")
    /\ Busy(b)
    /\ Goes(b, Idle)
    /\ state' = Cut(b)
    /\ UNCHANGED <<tree, listing, cache, edits, builds, stored>>

-----------------------------------------------------------------------------
\* The users: an edit leaves new fingerprints whatever it restores.

Editing ==
    /\ edits < MaxEdits
    /\ edits' = edits + 1
    /\ May("edit-while-building") \/ \A b \in Builder : ~Busy(b)
    /\ stored' = None

EditFile(f) ==
    /\ Editing
    /\ \E globs \in BOOLEAN :
          tree' = [tree EXCEPT ![f] = [edition |-> tree[f].edition + 1, globs |-> globs]]
    /\ UNCHANGED <<listing, cache, job, builds, state>>

AddFiles ==
    /\ Editing
    /\ listing' = listing + 1
    /\ UNCHANGED <<tree, cache, job, builds, state>>

Remove(f) ==
    /\ May("remove")
    /\ cache[f] # None
    /\ cache' = [cache EXCEPT ![f] = None]
    /\ stored' = None
    /\ UNCHANGED <<tree, listing, job, edits, builds, state>>

BuilderStep(b) ==
    \/ Begin(b) \/ LoadManifest(b) \/ LoadInputs(b) \/ LoadGraph(b) \/ LoadActions(b)
    \/ Evaluate(b) \/ EvaluateFails(b) \/ StoreFile(b) \/ StoreFails(b)
    \/ Build(b) \/ Killed(b)

Next ==
    \/ \E b \in Builder : BuilderStep(b)
    \/ (\E f \in Authored : EditFile(f)) \/ AddFiles \/ (\E f \in File : Remove(f))

Spec == Init /\ [][Next]_vars

-----------------------------------------------------------------------------
Plan == [seen : [Authored -> 0..(MaxEdits + 1)], globs : BOOLEAN,
         listing : 0..(MaxEdits + 1), choice : Choice, provider : Provider]

TypeOK ==
    /\ tree \in [Authored -> [edition : 1..(MaxEdits + 1), globs : BOOLEAN]]
    /\ listing \in 1..(MaxEdits + 1)
    /\ cache["graph"] \in Plan \cup {None}
    /\ cache["actions"] \in [label : Label, plan : Plan] \cup {None}
    /\ cache["inputs"] \in [Authored -> 0..(MaxEdits + 1)] \cup {None}
    /\ cache["manifest"] \in [label : Label, choice : Choice] \cup {None}
    /\ \A b \in Builder :
          /\ job[b].at \in {"idle", "manifest", "inputs", "graph", "actions", "evaluate", "store", "build"}
          /\ job[b].next \in 1..Len(StoreOrder)
          /\ Busy(b) <=> job[b].ask \in Request
    /\ edits \in 0..MaxEdits /\ builds \in 0..MaxBuilds
    /\ state \in Builder \cup {"whole", "torn", "no-manifest"}
    /\ stored \in Request \cup {None}

Hit(b) == job[b].at = "build" /\ job[b].hit

\* What the plan was made of has not changed, as far as the files F go.
CurrentIn(plan, F) ==
    /\ \A f \in F : plan.seen[f] = Fingerprint(plan.choice, f)
    /\ plan.globs => plan.listing = listing

\* The files that every evaluation comes to, whatever it is asked with.
Common == {f \in Authored : \A c \in Choice : f \in Visits[c]}

\* The files that a load can vouch for: all that the plan was made of, unless the
\* last store was cut off before its inputs, or shared the directory with another.
Vouching == IF state \in {"whole", "no-manifest"} THEN Authored ELSE Common

(***************************************************************************)
(* A plan that is loaded is the one the authoring files make now, graph    *)
(* and actions alike, as far as the files go that try_load can vouch for:  *)
(* whoever stores at the same time, dies in the middle of a store or       *)
(* removes files.  A mixture of two stores vouches for no file that only   *)
(* one of the evaluations comes to.                                        *)
(***************************************************************************)
HitIsCurrent ==
    \A b \in Builder :
      Hit(b) => CurrentIn(job[b].plan, Vouching) /\ CurrentIn(job[b].actions, Vouching)

(***************************************************************************)
(* "Partial cache는 error가 아니라 miss다", and a mismatch of any          *)
(* authoring file is a miss (docs/perf/stella-plan-cache-design.md): no    *)
(* plan is loaded of which a file has changed, whatever became of the      *)
(* stores before.                                                          *)
(***************************************************************************)
PartialIsMiss ==
    \A b \in Builder :
      Hit(b) => CurrentIn(job[b].plan, Authored) /\ CurrentIn(job[b].actions, Authored)

(***************************************************************************)
(* A plan that is loaded was made for this request's platform and options, *)
(* and its actions are those of its graph, as long as the last store had   *)
(* the directory to itself and came to its end.                            *)
(***************************************************************************)
HitIsOfRequest ==
    state = "whole" => \A b \in Builder :
      Hit(b) => job[b].plan.choice = job[b].ask.choice /\ job[b].actions = job[b].plan

\* A hit is what an evaluation would have made, now and for this request.
HitIsRight == TypeOK /\ HitIsCurrent /\ HitIsOfRequest

(***************************************************************************)
(* What has been stored is found: a build does not evaluate anything when  *)
(* the last whole store was of the same request and neither the authoring  *)
(* files nor the cache directory have changed since.                       *)
(***************************************************************************)
StoredIsFound ==
    \A b \in Builder : job[b].at = "evaluate" => stored # job[b].ask

(***************************************************************************)
(* "manifest write가 실패하면 다음 invocation은 cache miss로 처리한다"     *)
(* (docs/perf/stella-plan-cache-design.md): after a store that has failed  *)
(* to replace the manifest, nothing is loaded.                             *)
(***************************************************************************)
MissAfterFailedManifest ==
    state = "no-manifest" => \A b \in Builder : ~Hit(b)
=============================================================================
