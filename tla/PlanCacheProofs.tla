--------------------------- MODULE PlanCacheProofs ---------------------------
(***************************************************************************)
(* Theorems about PlanCache, for every set of builders, labels, platforms  *)
(* and options, and every bound on the edits and builds.                   *)
(***************************************************************************)
EXTENDS PlanCache, TLAPS

Edition == 1..(MaxEdits + 1)
Prints == [Authored -> 0..(MaxEdits + 1)]

Job == [at : {"idle", "manifest", "inputs", "graph", "actions", "evaluate", "store", "build"},
        ask : Request \cup {None},
        plan : Plan \cup {None},
        actions : Plan \cup {None},
        hit : BOOLEAN,
        next : 1..4]

\* The types of the variables, as tight as the steps keep them.
TypeInv ==
    /\ tree \in [Authored -> [edition : Edition, globs : BOOLEAN]]
    /\ listing \in Edition
    /\ \A f \in Authored : tree[f].edition <= edits + 1
    /\ listing <= edits + 1
    /\ edits \in 0..MaxEdits /\ builds \in 0..MaxBuilds
    /\ cache = [f \in File |-> cache[f]]
    /\ cache["graph"] \in Plan \cup {None}
    /\ cache["actions"] \in [label : Label, plan : Plan] \cup {None}
    /\ cache["inputs"] \in Prints \cup {None}
    /\ cache["manifest"] \in [label : Label, choice : Choice] \cup {None}
    /\ job \in [Builder -> Job]
    /\ \A b \in Builder : /\ Busy(b) <=> job[b].ask \in Request
                          /\ job[b].at = "store" => job[b].plan \in Plan
                          /\ job[b].hit => job[b].at = "build"
                          /\ job[b].at = "evaluate" => job[b].next = 1
    /\ state \in Builder \cup {"whole", "torn", "no-manifest"}
    /\ stored \in Request \cup {None}

\* After a whole store the files agree with each other, and what builder b has
\* read of them so far agrees with its request.
FilesAgree ==
    /\ cache["graph"] # None /\ cache["actions"] # None
         => cache["actions"].plan = cache["graph"]
    /\ cache["graph"] # None /\ cache["manifest"] # None
         => cache["graph"].choice = cache["manifest"].choice

ReadingAgrees(b) ==
    /\ job[b].at \in {"inputs", "graph"} /\ cache["graph"] # None
         => cache["graph"].choice = job[b].ask.choice
    /\ job[b].at = "actions"
         => /\ job[b].plan.choice = job[b].ask.choice
            /\ cache["actions"] # None => cache["actions"].plan = job[b].plan
    /\ Hit(b) => job[b].plan.choice = job[b].ask.choice /\ job[b].actions = job[b].plan

WholeAgrees == state = "whole" => FilesAgree /\ \A b \in Builder : ReadingAgrees(b)

\* A store that has had the directory to itself so far has left its own plan.
OwnFiles(b) ==
    /\ job[b].at = "store" /\ job[b].next > 1
    /\ cache["graph"] # None => cache["graph"] = job[b].plan
    /\ job[b].next > 2 /\ cache["actions"] # None
         => cache["actions"].plan = job[b].plan /\ cache["actions"].label = job[b].ask.label

StoringAgrees ==
    /\ \A b \in Builder : state = b => OwnFiles(b)
    /\ \A b \in Builder : job[b].at = "store" => job[b].plan.choice = job[b].ask.choice

\* The four files hold what a request like the stored one looks for.
StoredAgrees ==
    stored # None =>
      /\ \A f \in File : cache[f] # None
      /\ InputsMatch
      /\ cache["actions"].label = stored.label
      /\ ManifestMatches(cache["manifest"], stored)
      /\ \A b \in Builder : job[b].ask = stored => job[b].at # "evaluate"

IInv == TypeInv /\ WholeAgrees /\ StoringAgrees /\ StoredAgrees

\* While nobody edits during a build: plans that the inputs vouch for, and those
\* that a builder has read or is storing, are of the tree as it is, as far as the
\* files of Scope go: all of them once a store has replaced all but the manifest.
Settled ==
    \/ state \in {"whole", "no-manifest"}
    \/ \E b \in Builder : state = b /\ job[b].next = 4

Scope == IF Settled THEN Authored ELSE Common

Vouched ==
    /\ cache["graph"] # None => CurrentIn(cache["graph"], Scope)
    /\ cache["actions"] # None => CurrentIn(cache["actions"].plan, Scope)

Listed(plan) == \A f \in Scope : f \in Visits[plan.choice] => cache["inputs"][f] # 0

FilesCurrent ==
    /\ cache["graph"] # None => ~cache["graph"].globs
    /\ cache["actions"] # None => ~cache["actions"].plan.globs
    /\ cache["inputs"] # None =>
         /\ \A f \in Authored : cache["inputs"][f] <= tree[f].edition
         /\ \A f \in Common : cache["inputs"][f] # 0
         /\ cache["graph"] # None => Listed(cache["graph"])
         /\ cache["actions"] # None => Listed(cache["actions"].plan)
    /\ InputsMatch => Vouched

BuilderCurrent(b) ==
    /\ job[b].at = "store"
         => /\ CurrentIn(job[b].plan, Authored) /\ ~job[b].plan.globs
            /\ job[b].next > 1 /\ cache["graph"] # None
                 => CurrentIn(cache["graph"], Authored)
            /\ job[b].next > 2 /\ cache["actions"] # None
                 => CurrentIn(cache["actions"].plan, Authored)
    /\ job[b].at \in {"graph", "actions"} => Vouched
    /\ job[b].at = "actions" => CurrentIn(job[b].plan, Scope)
    /\ Hit(b) => CurrentIn(job[b].plan, Scope) /\ CurrentIn(job[b].actions, Scope)

CurrentInv == FilesCurrent /\ \A b \in Builder : BuilderCurrent(b)

-----------------------------------------------------------------------------
\* Types.

LEMMA Order ==
  /\ Len(StoreOrder) = 4
  /\ StoreOrder[1] = "graph" /\ StoreOrder[2] = "actions"
  /\ StoreOrder[3] = "inputs" /\ StoreOrder[4] = "manifest"
BY DEF StoreOrder

JobsOK ==
    /\ job \in [Builder -> Job]
    /\ \A b \in Builder : /\ Busy(b) <=> job[b].ask \in Request
                          /\ job[b].at = "store" => job[b].plan \in Plan
                          /\ job[b].hit => job[b].at = "build"
                          /\ job[b].at = "evaluate" => job[b].next = 1

LEMMA GoesEffect ==
  ASSUME JobsOK, NEW b \in Builder, NEW r \in Job, Goes(b, r),
         r.at # "idle" <=> r.ask \in Request,
         r.at = "store" => r.plan \in Plan,
         r.hit => r.at = "build",
         r.at = "evaluate" => r.next = 1
  PROVE  /\ JobsOK'
         /\ job'[b] = r
         /\ \A c \in Builder \ {b} : job'[c] = job[c]
BY DEF JobsOK, Goes, Busy

LEMMA IdleJob ==
  /\ Idle \in Job
  /\ Idle.at = "idle" /\ Idle.ask = None /\ Idle.hit = FALSE /\ Idle.next = 1
  /\ None \notin Request
BY PlanCacheAssumption DEF Idle, Job

\* A job that waits for its evaluation.
LEMMA MissJob ==
  ASSUME NEW r, r \in Request \cup {None}
  PROVE  LET miss == [Idle EXCEPT !.at = "evaluate", !.ask = r]
         IN  /\ miss \in Job
             /\ miss.at = "evaluate" /\ miss.ask = r /\ miss.hit = FALSE /\ miss.next = 1
BY IdleJob DEF Job

\* A step of builder b: what the change of its job may be.
LEMMA MissesEffect ==
  ASSUME JobsOK, NEW b \in Builder, Busy(b), Misses(b)
  PROVE  /\ JobsOK'
         /\ job'[b].at = "evaluate" /\ job'[b].ask = job[b].ask /\ ~job'[b].hit
         /\ \A c \in Builder \ {b} : job'[c] = job[c]
<1> DEFINE miss == [Idle EXCEPT !.at = "evaluate", !.ask = job[b].ask]
<1>1. job[b].ask \in Request
  BY DEF JobsOK
<1>2. /\ miss \in Job /\ miss.at = "evaluate" /\ miss.ask = job[b].ask
      /\ miss.hit = FALSE /\ miss.next = 1
  BY <1>1, MissJob
<1>3. Goes(b, miss)
  BY DEF Misses
<1> HIDE DEF miss
<1> QED
  BY <1>1, <1>2, <1>3, GoesEffect

LEMMA GoesIdle ==
  ASSUME JobsOK, NEW b \in Builder, Goes(b, Idle)
  PROVE  /\ JobsOK'
         /\ job'[b] = Idle
         /\ \A c \in Builder \ {b} : job'[c] = job[c]
BY IdleJob, GoesEffect

\* Each phase of a load, and an evaluation, seen from outside: the builder goes
\* on or misses, and nobody else is touched.
LEMMA BeginEffect ==
  ASSUME TypeInv, NEW b \in Builder, Begin(b)
  PROVE  /\ JobsOK'
         /\ job[b].at = "idle" /\ job'[b].at = "manifest" /\ ~job'[b].hit
         /\ \A c \in Builder \ {b} : job'[c] = job[c]
<1>0. JobsOK
  BY DEF TypeInv, JobsOK
<1>1. PICK r \in Request : Goes(b, [Idle EXCEPT !.at = "manifest", !.ask = r])
  BY DEF Begin
<1> DEFINE begun == [Idle EXCEPT !.at = "manifest", !.ask = r]
<1>2. begun \in Job /\ begun.at = "manifest" /\ begun.ask = r /\ begun.hit = FALSE
  BY IdleJob DEF Job
<1>3. Goes(b, begun)
  BY <1>1
<1> HIDE DEF begun
<1>4. /\ JobsOK' /\ job'[b] = begun
      /\ \A c \in Builder \ {b} : job'[c] = job[c]
  BY <1>0, <1>2, <1>3, GoesEffect
<1> QED
  BY <1>2, <1>4 DEF Begin, Busy

LEMMA LoadManifestEffect ==
  ASSUME TypeInv, NEW b \in Builder, LoadManifest(b)
  PROVE  /\ JobsOK'
         /\ \A c \in Builder \ {b} : job'[c] = job[c]
         /\ job[b].at = "manifest" /\ job'[b].ask = job[b].ask
         /\ \/ /\ job'[b].at = "inputs"
               /\ cache["manifest"] # None /\ ManifestMatches(cache["manifest"], job[b].ask)
            \/ /\ job'[b].at = "evaluate"
               /\ ~(cache["manifest"] # None /\ ManifestMatches(cache["manifest"], job[b].ask))
<1>0. JobsOK /\ job[b] \in Job /\ job[b].at = "manifest" /\ Busy(b)
  BY DEF TypeInv, JobsOK, LoadManifest, Busy
<1>1. CASE cache["manifest"] # None /\ ManifestMatches(cache["manifest"], job[b].ask)
  <2> DEFINE r == [job[b] EXCEPT !.at = "inputs"]
  <2>1. Goes(b, r)
    BY <1>1 DEF LoadManifest
  <2>2. r \in Job /\ r.at = "inputs" /\ r.ask = job[b].ask /\ r.hit = job[b].hit
    BY <1>0 DEF Job
  <2>3. r.ask \in Request /\ ~r.hit
    BY <1>0, <2>2 DEF JobsOK
  <2> HIDE DEF r
  <2>4. JobsOK' /\ job'[b] = r /\ \A c \in Builder \ {b} : job'[c] = job[c]
    BY <1>0, <2>1, <2>2, <2>3, GoesEffect
  <2> QED
    BY <1>0, <1>1, <2>2, <2>4
<1>2. CASE ~(cache["manifest"] # None /\ ManifestMatches(cache["manifest"], job[b].ask))
  BY <1>0, <1>2, MissesEffect DEF LoadManifest
<1> QED
  BY <1>1, <1>2

LEMMA LoadInputsEffect ==
  ASSUME TypeInv, NEW b \in Builder, LoadInputs(b)
  PROVE  /\ JobsOK'
         /\ \A c \in Builder \ {b} : job'[c] = job[c]
         /\ job[b].at = "inputs" /\ job'[b].ask = job[b].ask
         /\ \/ /\ job'[b].at = "graph"
               /\ cache["actions"] # None /\ InputsMatch
            \/ /\ job'[b].at = "evaluate"
               /\ ~(cache["actions"] # None /\ InputsMatch)
<1>0. JobsOK /\ job[b] \in Job /\ job[b].at = "inputs" /\ Busy(b)
  BY DEF TypeInv, JobsOK, LoadInputs, Busy
<1>1. CASE cache["actions"] # None /\ InputsMatch
  <2> DEFINE r == [job[b] EXCEPT !.at = "graph"]
  <2>1. Goes(b, r)
    BY <1>1 DEF LoadInputs
  <2>2. r \in Job /\ r.at = "graph" /\ r.ask = job[b].ask /\ r.hit = job[b].hit
    BY <1>0 DEF Job
  <2>3. r.ask \in Request /\ ~r.hit
    BY <1>0, <2>2 DEF JobsOK
  <2> HIDE DEF r
  <2>4. JobsOK' /\ job'[b] = r /\ \A c \in Builder \ {b} : job'[c] = job[c]
    BY <1>0, <2>1, <2>2, <2>3, GoesEffect
  <2> QED
    BY <1>0, <1>1, <2>2, <2>4
<1>2. CASE ~(cache["actions"] # None /\ InputsMatch)
  BY <1>0, <1>2, MissesEffect DEF LoadInputs
<1> QED
  BY <1>1, <1>2

LEMMA LoadGraphEffect ==
  ASSUME TypeInv, NEW b \in Builder, LoadGraph(b)
  PROVE  /\ JobsOK'
         /\ \A c \in Builder \ {b} : job'[c] = job[c]
         /\ job[b].at = "graph" /\ job'[b].ask = job[b].ask
         /\ \/ job'[b].at = "actions" /\ job'[b].plan = cache["graph"] /\ cache["graph"] # None
            \/ job'[b].at = "evaluate" /\ cache["graph"] = None
<1>0. JobsOK /\ job[b] \in Job /\ job[b].at = "graph" /\ Busy(b)
  BY DEF TypeInv, JobsOK, LoadGraph, Busy
<1>1. CASE cache["graph"] # None
  <2> DEFINE r == [job[b] EXCEPT !.at = "actions", !.plan = cache["graph"]]
  <2>1. Goes(b, r)
    BY <1>1 DEF LoadGraph
  <2>2. cache["graph"] \in Plan
    BY <1>1 DEF TypeInv
  <2>3. /\ r \in Job /\ r.at = "actions" /\ r.ask = job[b].ask
        /\ r.plan = cache["graph"] /\ r.hit = job[b].hit
    BY <1>0, <2>2 DEF Job
  <2>4. r.ask \in Request /\ ~r.hit
    BY <1>0, <2>3 DEF JobsOK
  <2> HIDE DEF r
  <2>5. JobsOK' /\ job'[b] = r /\ \A c \in Builder \ {b} : job'[c] = job[c]
    BY <1>0, <2>1, <2>3, <2>4, GoesEffect
  <2> QED
    BY <1>0, <1>1, <2>3, <2>5
<1>2. CASE ~(cache["graph"] # None)
  BY <1>0, <1>2, MissesEffect DEF LoadGraph
<1> QED
  BY <1>1, <1>2

LEMMA LoadActionsEffect ==
  ASSUME TypeInv, NEW b \in Builder, LoadActions(b)
  PROVE  /\ JobsOK'
         /\ \A c \in Builder \ {b} : job'[c] = job[c]
         /\ job[b].at = "actions" /\ job'[b].ask = job[b].ask
         /\ \/ /\ job'[b].at = "build" /\ job'[b].plan = job[b].plan
               /\ cache["actions"] # None /\ job'[b].actions = cache["actions"].plan
            \/ /\ job'[b].at = "evaluate"
               /\ ~(cache["actions"] # None /\ cache["actions"].label = job[b].ask.label)
<1>0. JobsOK /\ job[b] \in Job /\ job[b].at = "actions" /\ Busy(b)
  BY DEF TypeInv, JobsOK, LoadActions, Busy
<1>1. CASE cache["actions"] # None /\ cache["actions"].label = job[b].ask.label
  <2> DEFINE r == [job[b] EXCEPT !.at = "build", !.hit = TRUE,
                                 !.actions = cache["actions"].plan]
  <2>1. Goes(b, r)
    BY <1>1 DEF LoadActions
  <2>2. cache["actions"].plan \in Plan
    BY <1>1 DEF TypeInv
  <2>3. /\ r \in Job /\ r.at = "build" /\ r.ask = job[b].ask
        /\ r.plan = job[b].plan /\ r.actions = cache["actions"].plan
    BY <1>0, <2>2 DEF Job
  <2>4. r.ask \in Request
    BY <1>0, <2>3 DEF JobsOK
  <2> HIDE DEF r
  <2>5. JobsOK' /\ job'[b] = r /\ \A c \in Builder \ {b} : job'[c] = job[c]
    BY <1>0, <2>1, <2>3, <2>4, GoesEffect
  <2> QED
    BY <1>0, <1>1, <2>3, <2>5
<1>2. CASE ~(cache["actions"] # None /\ cache["actions"].label = job[b].ask.label)
  BY <1>0, <1>2, MissesEffect DEF LoadActions
<1> QED
  BY <1>1, <1>2

LEMMA PrintsType ==
  ASSUME TypeInv, NEW c
  PROVE  Fingerprints(c) \in Prints /\ Fingerprints(c) # None
<1>1. MaxEdits \in Nat /\ None \notin [Authored -> Nat]
  BY PlanCacheAssumption
<1>2. \A f \in Authored : Fingerprint(c, f) \in 0..(MaxEdits + 1)
  BY <1>1 DEF TypeInv, Fingerprint, Edition
<1>3. Fingerprints(c) \in Prints
  BY <1>2 DEF Fingerprints, Prints
<1>4. Fingerprints(c) \in [Authored -> Nat]
  BY <1>1, <1>2 DEF Fingerprints
<1> QED
  BY <1>1, <1>3, <1>4

LEMMA PlanType ==
  ASSUME TypeInv, NEW r \in Request
  PROVE  /\ PlanOf(r) \in Plan
         /\ PlanOf(r).choice = r.choice
         /\ CurrentIn(PlanOf(r), Authored)
<1> DEFINE globs == \E f \in Visits[r.choice] : tree[f].globs
<1>1. listing \in Edition /\ MaxEdits \in Nat
  BY PlanCacheAssumption DEF TypeInv
<1>2. (IF globs THEN listing ELSE 0) \in 0..(MaxEdits + 1) /\ globs \in BOOLEAN
  BY <1>1 DEF Edition
<1>3. r.choice \in Choice /\ r.provider \in Provider
  BY DEF Request
<1>4. Fingerprints(r.choice) \in Prints
  BY PrintsType
<1> QED
  BY <1>1, <1>2, <1>3, <1>4 DEF PlanOf, Plan, Prints, CurrentIn, Fingerprints

LEMMA EvaluateEffect ==
  ASSUME TypeInv, NEW b \in Builder, Evaluate(b)
  PROVE  /\ JobsOK'
         /\ \A c \in Builder \ {b} : job'[c] = job[c]
         /\ job[b].at = "evaluate" /\ job'[b].ask = job[b].ask
         /\ job'[b].plan = PlanOf(job[b].ask) /\ job[b].ask \in Request
         /\ job'[b].next = job[b].next /\ ~job'[b].hit
         /\ \/ job'[b].at = "store" /\ ~job'[b].plan.globs
            \/ job'[b].at = "build"
<1> DEFINE plan == PlanOf(job[b].ask)
           r == [job[b] EXCEPT !.at = IF Cacheable(plan) THEN "store" ELSE "build",
                               !.plan = plan]
<1>0. JobsOK /\ job[b] \in Job /\ job[b].at = "evaluate" /\ Busy(b)
  BY DEF TypeInv, JobsOK, Evaluate, Busy
<1>1. job[b].ask \in Request /\ ~job[b].hit
  BY <1>0 DEF JobsOK
<1>2. plan \in Plan
  BY <1>1, PlanType
<1>3. Goes(b, r)
  BY DEF Evaluate
<1> HIDE DEF plan
<1>4. /\ r \in Job /\ r.ask = job[b].ask /\ r.plan = plan
      /\ r.next = job[b].next /\ r.hit = job[b].hit
      /\ \/ r.at = "store" /\ Cacheable(plan)
         \/ r.at = "build"
  BY <1>0, <1>2 DEF Job
<1> HIDE DEF r
<1>5. JobsOK' /\ job'[b] = r /\ \A c \in Builder \ {b} : job'[c] = job[c]
  BY <1>0, <1>1, <1>2, <1>3, <1>4, GoesEffect
<1> QED
  BY <1>0, <1>1, <1>4, <1>5 DEF plan, Cacheable

\* One file of a store, and where that leaves the cache directory.
LEMMA StoreFileEffect ==
  ASSUME TypeInv, NEW b \in Builder, StoreFile(b)
  PROVE  /\ JobsOK'
         /\ \A c \in Builder \ {b} : job'[c] = job[c]
         /\ job[b].at = "store" /\ job'[b].ask = job[b].ask /\ job'[b].plan = job[b].plan
         /\ ~job'[b].hit
         /\ job[b].plan \in Plan /\ job[b].ask \in Request
         /\ \/ /\ job[b].next < 4 /\ job'[b].at = "store"
               /\ job'[b].next = job[b].next + 1
            \/ job[b].next = 4 /\ job'[b].at = "build"
<1>0. JobsOK /\ job[b] \in Job /\ job[b].at = "store" /\ Busy(b)
  BY DEF TypeInv, JobsOK, StoreFile, Busy
<1>1. job[b].ask \in Request /\ job[b].plan \in Plan /\ ~job[b].hit
  BY <1>0 DEF JobsOK
<1>2. PICK n \in 1..4 : job[b].next = n
  BY <1>0 DEF Job
<1>3. CASE n = 4
  <2> DEFINE r == [job[b] EXCEPT !.at = "build"]
  <2>1. Goes(b, r)
    BY <1>2, <1>3, Order DEF StoreFile
  <2>2. /\ r \in Job /\ r.at = "build" /\ r.ask = job[b].ask
        /\ r.plan = job[b].plan /\ r.hit = job[b].hit
    BY <1>0 DEF Job
  <2> HIDE DEF r
  <2>3. JobsOK' /\ job'[b] = r /\ \A c \in Builder \ {b} : job'[c] = job[c]
    BY <1>0, <1>1, <2>1, <2>2, GoesEffect
  <2> QED
    BY <1>0, <1>1, <1>2, <1>3, <2>2, <2>3
<1>4. CASE n # 4
  <2> DEFINE m == n + 1
             r == [job[b] EXCEPT !.next = m]
  <2>1. Goes(b, r)
    BY <1>2, <1>4, Order DEF StoreFile
  <2>2. m \in 1..4 /\ n < 4
    BY <1>4
  <2> HIDE DEF m
  <2>3. /\ r \in Job /\ r.at = "store" /\ r.ask = job[b].ask
        /\ r.plan = job[b].plan /\ r.hit = job[b].hit /\ r.next = m
    BY <1>0, <2>2 DEF Job
  <2> HIDE DEF r
  <2>4. JobsOK' /\ job'[b] = r /\ \A c \in Builder \ {b} : job'[c] = job[c]
    BY <1>0, <1>1, <2>1, <2>3, GoesEffect
  <2> QED
    BY <1>0, <1>1, <1>2, <2>2, <2>3, <2>4 DEF m
<1> QED
  BY <1>3, <1>4

LEMMA StoreFileWrites ==
  ASSUME TypeInv, NEW b \in Builder, StoreFile(b)
  PROVE  LET n == job[b].next
         IN  /\ n \in 1..4
             /\ cache' = [f \in File |-> cache'[f]]
             /\ n = 1 => cache'["graph"] = job[b].plan
             /\ n # 1 => cache'["graph"] = cache["graph"]
             /\ n = 2 => cache'["actions"] = [label |-> job[b].ask.label, plan |-> job[b].plan]
             /\ n # 2 => cache'["actions"] = cache["actions"]
             /\ n = 3 => cache'["inputs"] = Fingerprints(job[b].plan.choice)
             /\ n # 3 => cache'["inputs"] = cache["inputs"]
             /\ n = 4 => cache'["manifest"] =
                           [label |-> job[b].ask.label, choice |-> job[b].ask.choice]
             /\ n # 4 => cache'["manifest"] = cache["manifest"]
             /\ state' = IF ~Alone(b) \/ (n > 1 /\ state # b) THEN "torn"
                         ELSE IF n = 4 THEN "whole" ELSE b
<1>1. PICK n \in 1..4 : job[b].next = n
  BY DEF TypeInv, Job
<1>2. /\ cache' = [cache EXCEPT ![StoreOrder[n]] = Written(b, StoreOrder[n])]
      /\ state' = After(b, n)
  BY <1>1 DEF StoreFile
<1>3. cache = [f \in File |-> cache[f]]
  BY DEF TypeInv
<1>4. state' = IF ~Alone(b) \/ (n > 1 /\ state # b) THEN "torn"
               ELSE IF n = 4 THEN "whole" ELSE b
  BY <1>2, Order DEF After
<1>5. CASE n = 1
  BY <1>1, <1>2, <1>3, <1>4, <1>5, Order DEF Written, File
<1>6. CASE n = 2
  BY <1>1, <1>2, <1>3, <1>4, <1>6, Order DEF Written, File, LabelKey
<1>7. CASE n = 3
  BY <1>1, <1>2, <1>3, <1>4, <1>7, Order DEF Written, File
<1>8. CASE n = 4
  BY <1>1, <1>2, <1>3, <1>4, <1>8, Order DEF Written, File
<1> QED
  BY <1>5, <1>6, <1>7, <1>8

LEMMA GoneEffect ==
  ASSUME TypeInv, NEW b \in Builder,
         EvaluateFails(b) \/ StoreFails(b) \/ Build(b) \/ Killed(b)
  PROVE  /\ JobsOK' /\ job'[b] = Idle /\ job'[b].at = "idle" /\ job'[b].ask = None
         /\ \A c \in Builder \ {b} : job'[c] = job[c]
         /\ cache' = cache /\ tree' = tree /\ listing' = listing
         /\ edits' = edits /\ builds' = builds /\ stored' = stored
         /\ \/ state' = state /\ (job[b].at # "store" \/ job[b].next = 1)
            \/ state' = "torn"
            \/ state' = "no-manifest" /\ state = b /\ job[b].next = 4
<1>1. Goes(b, Idle)
  BY DEF EvaluateFails, StoreFails, Build, Killed
<1>2. JobsOK
  BY DEF TypeInv, JobsOK
<1>3. JobsOK' /\ job'[b] = Idle /\ \A c \in Builder \ {b} : job'[c] = job[c]
  BY <1>1, <1>2, GoesIdle
<1>4. \/ state' = state /\ (job[b].at # "store" \/ job[b].next = 1)
      \/ state' = "torn"
      \/ state' = "no-manifest" /\ state = b /\ job[b].next = 4
  BY Order DEF EvaluateFails, StoreFails, Build, Killed, Cut
<1> QED
  BY <1>3, <1>4, IdleJob DEF EvaluateFails, StoreFails, Build, Killed

-----------------------------------------------------------------------------
\* The invariant.

\* The steps that read the cache directory and change nobody else's view.
Loads(b) == LoadManifest(b) \/ LoadInputs(b) \/ LoadGraph(b) \/ LoadActions(b)
Gone(b) == EvaluateFails(b) \/ StoreFails(b) \/ Build(b) \/ Killed(b)
Edits == (\E f \in Authored : EditFile(f)) \/ AddFiles

LEMMA NextCases ==
  ASSUME [Next]_vars
  PROVE  \/ \E b \in Builder : \/ Begin(b) \/ Loads(b) \/ Evaluate(b)
                               \/ StoreFile(b) \/ Gone(b)
         \/ Edits
         \/ \E f \in File : Remove(f)
         \/ UNCHANGED vars
BY DEF Next, BuilderStep, Loads, Gone, Edits

LEMMA QuietSteps ==
  ASSUME TypeInv, NEW b \in Builder, Begin(b) \/ Loads(b) \/ Evaluate(b)
  PROVE  /\ UNCHANGED <<tree, listing, cache, edits, state, stored>>
         /\ builds' \in 0..MaxBuilds
         /\ JobsOK' /\ \A c \in Builder \ {b} : job'[c] = job[c]
<1>1. /\ JobsOK' /\ \A c \in Builder \ {b} : job'[c] = job[c]
  BY BeginEffect, LoadManifestEffect, LoadInputsEffect, LoadGraphEffect, LoadActionsEffect,
     EvaluateEffect DEF Loads
<1>2. UNCHANGED <<tree, listing, cache, edits, state, stored>>
  BY DEF Begin, Loads, LoadManifest, LoadInputs, LoadGraph, LoadActions, Evaluate
<1>3. builds' \in 0..MaxBuilds
  <2>1. CASE Begin(b)
    <3>1. builds < MaxBuilds /\ builds' = builds + 1
      BY <2>1 DEF Begin
    <3>2. builds \in 0..MaxBuilds /\ MaxBuilds \in Nat
      BY PlanCacheAssumption DEF TypeInv
    <3> QED
      BY <3>1, <3>2
  <2>2. CASE Loads(b) \/ Evaluate(b)
    BY <2>2 DEF Loads, LoadManifest, LoadInputs, LoadGraph, LoadActions, Evaluate, TypeInv
  <2> QED
    BY <2>1, <2>2
<1> QED
  BY <1>1, <1>2, <1>3

LEMMA InitInv == Init => IInv
<1> SUFFICES ASSUME Init PROVE IInv
  OBVIOUS
<1> USE DEF Init
<1>1. TypeInv
  <2>1. JobsOK
    BY IdleJob DEF JobsOK, Busy
  <2>2. 1 \in Edition /\ MaxEdits \in Nat /\ MaxBuilds \in Nat
    BY PlanCacheAssumption DEF Edition
  <2> QED
    BY <2>1, <2>2 DEF TypeInv, JobsOK, File
<1>2. WholeAgrees
  BY IdleJob DEF WholeAgrees, FilesAgree, ReadingAgrees, Hit, File
<1>3. StoringAgrees
  BY PlanCacheAssumption, IdleJob DEF StoringAgrees
<1>4. StoredAgrees
  BY DEF StoredAgrees
<1> QED
  BY <1>1, <1>2, <1>3, <1>4 DEF IInv

LEMMA TypeStep ==
  ASSUME IInv, [Next]_vars
  PROVE  TypeInv'
<1>0. TypeInv /\ JobsOK /\ MaxEdits \in Nat
  BY PlanCacheAssumption DEF IInv, TypeInv, JobsOK
<1>1. ASSUME NEW b \in Builder, Begin(b) \/ Loads(b) \/ Evaluate(b)
      PROVE  TypeInv'
  BY <1>0, <1>1, QuietSteps DEF TypeInv, JobsOK
<1>2. ASSUME NEW b \in Builder, StoreFile(b)
      PROVE  TypeInv'
  <2>1. /\ JobsOK' /\ job[b].plan \in Plan /\ job[b].ask \in Request
    BY <1>0, <1>2, StoreFileEffect
  <2>2. UNCHANGED <<tree, listing, edits, builds>>
    BY <1>2 DEF StoreFile
  <2> DEFINE n == job[b].next
  <2>3. /\ n \in 1..4
        /\ cache' = [f \in File |-> cache'[f]]
        /\ n = 1 => cache'["graph"] = job[b].plan
        /\ n # 1 => cache'["graph"] = cache["graph"]
        /\ n = 2 => cache'["actions"] = [label |-> job[b].ask.label, plan |-> job[b].plan]
        /\ n # 2 => cache'["actions"] = cache["actions"]
        /\ n = 3 => cache'["inputs"] = Fingerprints(job[b].plan.choice)
        /\ n # 3 => cache'["inputs"] = cache["inputs"]
        /\ n = 4 => cache'["manifest"] =
                      [label |-> job[b].ask.label, choice |-> job[b].ask.choice]
        /\ n # 4 => cache'["manifest"] = cache["manifest"]
        /\ state' = IF ~Alone(b) \/ (n > 1 /\ state # b) THEN "torn"
                    ELSE IF n = 4 THEN "whole" ELSE b
    BY <1>0, <1>2, StoreFileWrites
  <2> HIDE DEF n
  <2>4. job[b].ask.label \in Label /\ job[b].ask.choice \in Choice
    BY <2>1 DEF Request
  <2>5. stored' \in Request \cup {None}
    <3>1. stored' = job[b].ask \/ stored' = None
      BY <1>2 DEF StoreFile
    <3> QED
      BY <2>1, <3>1
  <2>6. Fingerprints(job[b].plan.choice) \in Prints
    BY <1>0, PrintsType
  <2>7. /\ cache'["graph"] \in Plan \cup {None}
        /\ cache'["actions"] \in [label : Label, plan : Plan] \cup {None}
        /\ cache'["inputs"] \in Prints \cup {None}
        /\ cache'["manifest"] \in [label : Label, choice : Choice] \cup {None}
    BY <1>0, <2>1, <2>3, <2>4, <2>6 DEF TypeInv
  <2>8. state' \in Builder \cup {"whole", "torn", "no-manifest"}
    BY <2>3
  <2> QED
    BY <1>0, <2>1, <2>2, <2>3, <2>5, <2>7, <2>8 DEF TypeInv, JobsOK
<1>3. ASSUME NEW b \in Builder, Gone(b)
      PROVE  TypeInv'
  BY <1>0, <1>3, GoneEffect DEF Gone, TypeInv, JobsOK
<1>4. CASE Edits
  <2>1. /\ edits < MaxEdits /\ edits' = edits + 1 /\ stored' = None
        /\ UNCHANGED <<cache, job, builds, state>>
        /\ \/ /\ \E f \in Authored, globs \in BOOLEAN :
                   tree' = [tree EXCEPT ![f] = [edition |-> tree[f].edition + 1, globs |-> globs]]
              /\ listing' = listing
           \/ listing' = listing + 1 /\ tree' = tree
    BY <1>4 DEF Edits, EditFile, AddFiles, Editing
  <2>2. /\ listing \in Edition /\ edits \in 0..MaxEdits /\ listing <= edits + 1
        /\ \A f \in Authored : tree[f].edition \in Edition /\ tree[f].edition <= edits + 1
    BY <1>0 DEF TypeInv
  <2>3. /\ edits' \in 0..MaxEdits /\ listing + 1 \in Edition
        /\ \A f \in Authored : tree[f].edition + 1 \in Edition
    BY <1>0, <2>1, <2>2 DEF Edition
  <2>4. listing' \in Edition /\ listing' <= edits' + 1
    BY <2>1, <2>2, <2>3 DEF Edition
  <2>5. /\ tree' \in [Authored -> [edition : Edition, globs : BOOLEAN]]
        /\ \A f \in Authored : tree'[f].edition <= edits' + 1
    <3>1. CASE tree' = tree
      BY <1>0, <2>1, <2>2, <3>1 DEF TypeInv, Edition
    <3>2. ASSUME NEW f \in Authored, NEW globs \in BOOLEAN,
                 tree' = [tree EXCEPT ![f] = [edition |-> tree[f].edition + 1, globs |-> globs]]
          PROVE  /\ tree' \in [Authored -> [edition : Edition, globs : BOOLEAN]]
                 /\ \A g \in Authored : tree'[g].edition <= edits' + 1
      <4>1. \A g \in Authored : tree[g].edition + 1 <= edits' + 1 /\ tree[g].edition <= edits' + 1
        BY <2>1, <2>2 DEF Edition
      <4>2. tree \in [Authored -> [edition : Edition, globs : BOOLEAN]]
        BY <1>0 DEF TypeInv
      <4>3. [edition |-> tree[f].edition + 1, globs |-> globs] \in [edition : Edition, globs : BOOLEAN]
        BY <2>3
      <4> QED
        BY <3>2, <4>1, <4>2, <4>3
    <3> QED
      BY <2>1, <3>1, <3>2
  <2>6. \A b \in Builder : job'[b] = job[b]
    BY <2>1
  <2> QED
    BY <1>0, <2>1, <2>3, <2>4, <2>5, <2>6 DEF TypeInv, Busy
<1>5. ASSUME NEW f \in File, Remove(f)
      PROVE  TypeInv'
  BY <1>0, <1>5 DEF Remove, TypeInv, Busy, File
<1>6. CASE UNCHANGED vars
  BY <1>0, <1>6 DEF vars, TypeInv, Busy
<1> QED
  BY <1>1, <1>2, <1>3, <1>4, <1>5, <1>6, NextCases

\* A state that names a builder is not one of the others.
LEMMA BuilderNames ==
  ASSUME NEW b \in Builder
  PROVE  b # "whole" /\ b # "torn" /\ b # "no-manifest"
BY PlanCacheAssumption

LEMMA WholeStep ==
  ASSUME IInv, [Next]_vars
  PROVE  WholeAgrees'
<1>0. TypeInv /\ WholeAgrees /\ StoringAgrees
  BY DEF IInv
<1>1. ASSUME NEW b \in Builder, Begin(b) \/ Loads(b) \/ Evaluate(b)
      PROVE  WholeAgrees'
  <2> SUFFICES ASSUME state' = "whole"
               PROVE  FilesAgree' /\ \A c \in Builder : ReadingAgrees(c)'
    BY DEF WholeAgrees
  <2>1. /\ UNCHANGED <<tree, listing, cache, edits, state, stored>>
        /\ \A c \in Builder \ {b} : job'[c] = job[c]
    BY <1>0, <1>1, QuietSteps
  <2>2. FilesAgree /\ \A c \in Builder : ReadingAgrees(c)
    BY <1>0, <2>1 DEF WholeAgrees
  <2>3. FilesAgree'
    BY <2>1, <2>2 DEF FilesAgree
  <2>4. \A c \in Builder \ {b} : ReadingAgrees(c)'
    BY <2>1, <2>2 DEF ReadingAgrees, Hit
  <2>5. ReadingAgrees(b)'
    <3>1. CASE Begin(b)
      BY <1>0, <3>1, BeginEffect DEF ReadingAgrees, Hit
    <3>2. CASE LoadManifest(b)
      BY <1>0, <2>1, <2>2, <3>2, LoadManifestEffect
      DEF ReadingAgrees, Hit, FilesAgree, ManifestMatches
    <3>3. CASE LoadInputs(b)
      BY <1>0, <2>1, <2>2, <3>3, LoadInputsEffect DEF ReadingAgrees, Hit
    <3>4. CASE LoadGraph(b)
      BY <1>0, <2>1, <2>2, <3>4, LoadGraphEffect DEF ReadingAgrees, Hit, FilesAgree
    <3>5. CASE LoadActions(b)
      BY <1>0, <2>1, <2>2, <3>5, LoadActionsEffect DEF ReadingAgrees, Hit
    <3>6. CASE Evaluate(b)
      BY <1>0, <3>6, EvaluateEffect DEF ReadingAgrees, Hit
    <3> QED
      BY <1>1, <3>1, <3>2, <3>3, <3>4, <3>5, <3>6 DEF Loads
  <2> QED
    BY <2>3, <2>4, <2>5
<1>2. ASSUME NEW b \in Builder, StoreFile(b)
      PROVE  WholeAgrees'
  <2> SUFFICES ASSUME state' = "whole"
               PROVE  FilesAgree' /\ \A c \in Builder : ReadingAgrees(c)'
    BY DEF WholeAgrees
  <2> DEFINE n == job[b].next
  <2>1. /\ n \in 1..4
        /\ n # 1 => cache'["graph"] = cache["graph"]
        /\ n # 2 => cache'["actions"] = cache["actions"]
        /\ n = 4 => cache'["manifest"] =
                      [label |-> job[b].ask.label, choice |-> job[b].ask.choice]
        /\ state' = IF ~Alone(b) \/ (n > 1 /\ state # b) THEN "torn"
                    ELSE IF n = 4 THEN "whole" ELSE b
    BY <1>0, <1>2, StoreFileWrites
  <2>2. n = 4 /\ Alone(b) /\ state = b
    BY <2>1, BuilderNames
  <2>3. /\ OwnFiles(b)
        /\ job[b].plan.choice = job[b].ask.choice
    BY <1>0, <1>2, <2>2 DEF StoringAgrees, StoreFile
  <2>4. /\ job'[b].at = "build" /\ ~job'[b].hit
        /\ \A c \in Builder \ {b} : job'[c] = job[c]
    BY <1>0, <1>2, <2>2, StoreFileEffect
  <2>5. FilesAgree'
    BY <2>1, <2>2, <2>3 DEF FilesAgree, OwnFiles
  <2>6. ReadingAgrees(b)'
    BY <2>4 DEF ReadingAgrees, Hit
  <2>7. ASSUME NEW c \in Builder \ {b} PROVE ReadingAgrees(c)'
    <3>1. job'[c].at = "idle"
      BY <2>2, <2>4 DEF Alone, Busy
    <3> QED
      BY <3>1 DEF ReadingAgrees, Hit
  <2> QED
    BY <2>5, <2>6, <2>7
<1>3. ASSUME NEW b \in Builder, Gone(b)
      PROVE  WholeAgrees'
  <2> SUFFICES ASSUME state' = "whole"
               PROVE  FilesAgree' /\ \A c \in Builder : ReadingAgrees(c)'
    BY DEF WholeAgrees
  <2>1. /\ job'[b].at = "idle" /\ cache' = cache /\ state' = state
        /\ \A c \in Builder \ {b} : job'[c] = job[c]
    BY <1>0, <1>3, GoneEffect DEF Gone
  <2>2. FilesAgree /\ \A c \in Builder : ReadingAgrees(c)
    BY <1>0, <2>1 DEF WholeAgrees
  <2>3. FilesAgree' /\ ReadingAgrees(b)'
    BY <2>1, <2>2 DEF FilesAgree, ReadingAgrees, Hit
  <2>4. \A c \in Builder \ {b} : ReadingAgrees(c)'
    BY <2>1, <2>2 DEF ReadingAgrees, Hit
  <2> QED
    BY <2>3, <2>4
<1>4. CASE Edits \/ UNCHANGED vars
  <2>1. UNCHANGED <<cache, job, state>>
    BY <1>4 DEF Edits, EditFile, AddFiles, vars
  <2> QED
    BY <1>0, <2>1 DEF WholeAgrees, FilesAgree, ReadingAgrees, Hit
<1>5. ASSUME NEW f \in File, Remove(f)
      PROVE  WholeAgrees'
  <2>1. UNCHANGED <<job, state>> /\ cache' = [cache EXCEPT ![f] = None]
    BY <1>5 DEF Remove
  <2>2. \A g \in File : cache'[g] = cache[g] \/ cache'[g] = None
    BY <1>0, <2>1 DEF TypeInv
  <2> QED
    BY <1>0, <2>1, <2>2 DEF WholeAgrees, FilesAgree, ReadingAgrees, Hit, File
<1> QED
  BY <1>1, <1>2, <1>3, <1>4, <1>5, NextCases

LEMMA StoringStep ==
  ASSUME IInv, [Next]_vars
  PROVE  StoringAgrees'
<1>0. TypeInv /\ StoringAgrees
  BY DEF IInv
<1>1. ASSUME NEW b \in Builder, Begin(b) \/ Loads(b) \/ Evaluate(b)
      PROVE  StoringAgrees'
  <2>1. /\ UNCHANGED <<cache, state>>
        /\ \A c \in Builder \ {b} : job'[c] = job[c]
    BY <1>0, <1>1, QuietSteps
  <2>2. job[b].at # "store"
    BY <1>1 DEF Begin, Busy, Loads, LoadManifest, LoadInputs, LoadGraph, LoadActions, Evaluate
  <2>3. state # b
    BY <1>0, <2>2 DEF StoringAgrees, OwnFiles
  <2>4. job'[b].at = "store" => job'[b].plan.choice = job'[b].ask.choice
    BY <1>0, <1>1, BeginEffect, LoadManifestEffect, LoadInputsEffect, LoadGraphEffect,
       LoadActionsEffect, EvaluateEffect, PlanType DEF Loads
  <2>5. \A c \in Builder : state' = c => OwnFiles(c)'
    BY <1>0, <2>1, <2>3 DEF StoringAgrees, OwnFiles
  <2>6. \A c \in Builder : job'[c].at = "store" => job'[c].plan.choice = job'[c].ask.choice
    BY <1>0, <2>1, <2>4 DEF StoringAgrees
  <2> QED
    BY <2>5, <2>6 DEF StoringAgrees
<1>2. ASSUME NEW b \in Builder, StoreFile(b)
      PROVE  StoringAgrees'
  <2> DEFINE n == job[b].next
  <2>1. /\ n \in 1..4
        /\ n = 1 => cache'["graph"] = job[b].plan
        /\ n # 1 => cache'["graph"] = cache["graph"]
        /\ n = 2 => cache'["actions"] = [label |-> job[b].ask.label, plan |-> job[b].plan]
        /\ n # 2 => cache'["actions"] = cache["actions"]
        /\ state' = IF ~Alone(b) \/ (n > 1 /\ state # b) THEN "torn"
                    ELSE IF n = 4 THEN "whole" ELSE b
    BY <1>0, <1>2, StoreFileWrites
  <2>2. /\ \A c \in Builder \ {b} : job'[c] = job[c]
        /\ job[b].at = "store" /\ job'[b].ask = job[b].ask /\ job'[b].plan = job[b].plan
        /\ \/ n < 4 /\ job'[b].at = "store" /\ job'[b].next = n + 1
           \/ n = 4 /\ job'[b].at = "build"
    BY <1>0, <1>2, StoreFileEffect
  <2>3. \A c \in Builder : job'[c].at = "store" => job'[c].plan.choice = job'[c].ask.choice
    BY <1>0, <2>2 DEF StoringAgrees
  <2>4. ASSUME NEW c \in Builder, state' = c PROVE OwnFiles(c)'
    <3>1. c = b /\ n < 4 /\ (n > 1 => state = b)
      BY <2>1, <2>4, BuilderNames
    <3>2. n > 1 => OwnFiles(b)
      BY <1>0, <3>1 DEF StoringAgrees
    <3> HIDE DEF n
    <3>3. n > 1 => /\ cache["graph"] # None => cache["graph"] = job[b].plan
                   /\ n > 2 /\ cache["actions"] # None
                        => /\ cache["actions"].plan = job[b].plan
                           /\ cache["actions"].label = job[b].ask.label
      BY <3>2 DEF OwnFiles, n
    <3>4. job'[b].at = "store" /\ job'[b].next = n + 1 /\ job'[b].plan = job[b].plan
      BY <2>2, <3>1
    <3>5. n + 1 > 1
      BY <2>1
    <3>6. cache'["graph"] # None => cache'["graph"] = job[b].plan
      BY <2>1, <3>3
    <3>7. n + 1 > 2 /\ cache'["actions"] # None
            => cache'["actions"].plan = job[b].plan /\ cache'["actions"].label = job[b].ask.label
      BY <2>1, <3>3
    <3> QED
      BY <2>2, <3>1, <3>4, <3>5, <3>6, <3>7 DEF OwnFiles
  <2> QED
    BY <2>3, <2>4 DEF StoringAgrees
<1>3. ASSUME NEW b \in Builder, Gone(b)
      PROVE  StoringAgrees'
  <2>1. /\ job'[b].at = "idle" /\ cache' = cache
        /\ \A c \in Builder \ {b} : job'[c] = job[c]
        /\ \/ state' = state /\ (job[b].at # "store" \/ job[b].next = 1)
           \/ state' \in {"torn", "no-manifest"}
    BY <1>0, <1>3, GoneEffect DEF Gone
  <2>2. ASSUME NEW c \in Builder, state' = c PROVE OwnFiles(c)'
    <3>1. state = c /\ (job[b].at # "store" \/ job[b].next = 1)
      BY <2>1, <2>2, BuilderNames
    <3>2. OwnFiles(c)
      BY <1>0, <3>1 DEF StoringAgrees
    <3>3. c # b
      BY <3>1, <3>2 DEF OwnFiles
    <3> QED
      BY <2>1, <3>1, <3>2, <3>3 DEF OwnFiles
  <2> QED
    BY <1>0, <2>1, <2>2 DEF StoringAgrees
<1>4. CASE Edits \/ UNCHANGED vars
  <2>1. UNCHANGED <<cache, job, state>>
    BY <1>4 DEF Edits, EditFile, AddFiles, vars
  <2> QED
    BY <1>0, <2>1 DEF StoringAgrees, OwnFiles
<1>5. ASSUME NEW f \in File, Remove(f)
      PROVE  StoringAgrees'
  <2>1. UNCHANGED <<job, state>> /\ cache' = [cache EXCEPT ![f] = None]
    BY <1>5 DEF Remove
  <2>2. \A g \in File : cache'[g] = cache[g] \/ cache'[g] = None
    BY <1>0, <2>1 DEF TypeInv
  <2> QED
    BY <1>0, <2>1, <2>2 DEF StoringAgrees, OwnFiles, File
<1> QED
  BY <1>1, <1>2, <1>3, <1>4, <1>5, NextCases

LEMMA StoredStep ==
  ASSUME IInv, [Next]_vars
  PROVE  StoredAgrees'
<1>0. TypeInv /\ StoringAgrees /\ StoredAgrees
  BY DEF IInv
<1>1. ASSUME NEW b \in Builder, Begin(b) \/ Loads(b) \/ Evaluate(b)
      PROVE  StoredAgrees'
  <2> SUFFICES ASSUME stored' # None
               PROVE  StoredAgrees'
    BY DEF StoredAgrees
  <2>1. /\ UNCHANGED <<cache, tree, stored>>
        /\ \A c \in Builder \ {b} : job'[c] = job[c]
    BY <1>0, <1>1, QuietSteps
  <2>2. /\ \A f \in File : cache[f] # None
        /\ InputsMatch
        /\ cache["actions"].label = stored.label
        /\ ManifestMatches(cache["manifest"], stored)
        /\ \A c \in Builder : job[c].ask = stored => job[c].at # "evaluate"
    BY <1>0, <2>1 DEF StoredAgrees
  <2>3. job'[b].ask = stored => job'[b].at # "evaluate"
    <3>1. CASE Begin(b)
      BY <1>0, <3>1, BeginEffect
    <3>2. CASE LoadManifest(b)
      BY <1>0, <2>2, <3>2, LoadManifestEffect DEF File
    <3>3. CASE LoadInputs(b)
      BY <1>0, <2>2, <3>3, LoadInputsEffect DEF File
    <3>4. CASE LoadGraph(b)
      BY <1>0, <2>2, <3>4, LoadGraphEffect DEF File
    <3>5. CASE LoadActions(b)
      BY <1>0, <2>2, <3>5, LoadActionsEffect DEF File
    <3>6. CASE Evaluate(b)
      BY <1>0, <3>6, EvaluateEffect
    <3> QED
      BY <1>1, <3>1, <3>2, <3>3, <3>4, <3>5, <3>6 DEF Loads
  <2> QED
    BY <2>1, <2>2, <2>3 DEF StoredAgrees, InputsMatch
<1>2. ASSUME NEW b \in Builder, StoreFile(b)
      PROVE  StoredAgrees'
  <2> SUFFICES ASSUME stored' # None
               PROVE  StoredAgrees'
    BY DEF StoredAgrees
  <2>1. /\ stored' = job[b].ask /\ state' = "whole" /\ tree' = tree
        /\ cache'["inputs"] = Fingerprints(job[b].ask.choice)
        /\ \A f \in File : cache'[f] # None
    BY <1>2 DEF StoreFile
  <2>0. InputsMatch'
    <3>1. \A f \in Authored : cache'["inputs"][f] \in {0, tree[f].edition}
      BY <2>1 DEF Fingerprints, Fingerprint
    <3> QED
      BY <2>1, <3>1 DEF InputsMatch, File
  <2> DEFINE n == job[b].next
  <2>2. /\ n \in 1..4
        /\ n # 2 => cache'["actions"] = cache["actions"]
        /\ n = 4 => cache'["manifest"] =
                      [label |-> job[b].ask.label, choice |-> job[b].ask.choice]
        /\ state' = IF ~Alone(b) \/ (n > 1 /\ state # b) THEN "torn"
                    ELSE IF n = 4 THEN "whole" ELSE b
    BY <1>0, <1>2, StoreFileWrites
  <2>3. n = 4 /\ Alone(b) /\ state = b
    BY <2>1, <2>2, BuilderNames
  <2>4. OwnFiles(b)
    BY <1>0, <2>3 DEF StoringAgrees
  <2>5. cache'["actions"].label = job[b].ask.label
    BY <2>1, <2>2, <2>3, <2>4 DEF OwnFiles, File
  <2>6. ManifestMatches(cache'["manifest"], job[b].ask)
    BY <2>2, <2>3 DEF ManifestMatches
  <2>7. ASSUME NEW c \in Builder PROVE job'[c].at # "evaluate"
    BY <1>0, <1>2, <2>3, StoreFileEffect DEF Alone, Busy
  <2> QED
    BY <2>0, <2>1, <2>5, <2>6, <2>7 DEF StoredAgrees, ManifestMatches
<1>3. ASSUME NEW b \in Builder, Gone(b)
      PROVE  StoredAgrees'
  <2>1. /\ job'[b].at = "idle" /\ cache' = cache /\ tree' = tree /\ stored' = stored
        /\ \A c \in Builder \ {b} : job'[c] = job[c]
    BY <1>0, <1>3, GoneEffect DEF Gone
  <2> QED
    BY <1>0, <2>1 DEF StoredAgrees, InputsMatch
<1>4. CASE Edits
  <2>1. stored' = None
    BY <1>4 DEF Edits, EditFile, AddFiles, Editing
  <2> QED
    BY <2>1 DEF StoredAgrees
<1>5. ASSUME NEW f \in File, Remove(f)
      PROVE  StoredAgrees'
  <2>1. stored' = None
    BY <1>5 DEF Remove
  <2> QED
    BY <2>1 DEF StoredAgrees
<1>6. CASE UNCHANGED vars
  BY <1>0, <1>6 DEF vars, StoredAgrees, InputsMatch
<1> QED
  BY <1>1, <1>2, <1>3, <1>4, <1>5, <1>6, NextCases

(***************************************************************************)
(* What the files say of each other, of the tree and of the stored request *)
(* stays so through every step of try_load and store, in whatever order    *)
(* the builds take them.                                                   *)
(***************************************************************************)
THEOREM Invariance == Spec => []IInv
<1>1. IInv /\ [Next]_vars => IInv'
  BY TypeStep, WholeStep, StoringStep, StoredStep DEF IInv
<1> QED
  BY <1>1, InitInv, PTL DEF Spec

-----------------------------------------------------------------------------
\* While nobody edits the authoring files during a build.

\* Only a store that has had the directory to itself widens what is vouched for.
LEMMA ScopeStep ==
  ASSUME IInv, [Next]_vars
  PROVE  /\ Scope \subseteq Authored /\ Common \subseteq Scope
         /\ \/ Scope' \in SUBSET Scope
            \/ \E b \in Builder : /\ StoreFile(b) /\ job[b].next = 3 /\ Alone(b) /\ state = b
<1>0. TypeInv /\ StoringAgrees
  BY DEF IInv
<1>1. Common \subseteq Authored /\ Common' = Common /\ Scope \subseteq Authored /\ Common \subseteq Scope
  BY DEF Common, Scope
<1>2. SUFFICES ASSUME Settled', ~Settled
               PROVE  \E b \in Builder : /\ StoreFile(b) /\ job[b].next = 3 /\ Alone(b) /\ state = b
  BY <1>1 DEF Scope
<1>3. ASSUME NEW b \in Builder, state' = state, \A c \in Builder \ {b} : job'[c] = job[c],
             state # b \/ job'[b] = job[b]
      PROVE  FALSE
  BY <1>2, <1>3 DEF Settled
<1>4. ASSUME NEW b \in Builder, Begin(b) \/ Loads(b) \/ Evaluate(b)
      PROVE  FALSE
  <2>1. state' = state /\ \A c \in Builder \ {b} : job'[c] = job[c]
    BY <1>0, <1>4, QuietSteps
  <2>2. job[b].at # "store"
    BY <1>4 DEF Begin, Busy, Loads, LoadManifest, LoadInputs, LoadGraph, LoadActions, Evaluate
  <2>3. state # b
    BY <1>0, <2>2 DEF StoringAgrees, OwnFiles
  <2> QED
    BY <1>3, <2>1, <2>3
<1>5. ASSUME NEW b \in Builder, StoreFile(b)
      PROVE  StoreFile(b) /\ job[b].next = 3 /\ Alone(b) /\ state = b
  <2> DEFINE n == job[b].next
  <2>1. /\ n \in 1..4
        /\ state' = IF ~Alone(b) \/ (n > 1 /\ state # b) THEN "torn"
                    ELSE IF n = 4 THEN "whole" ELSE b
    BY <1>0, <1>5, StoreFileWrites
  <2>2. n < 4 => job'[b].next = n + 1
    BY <1>0, <1>5, StoreFileEffect
  <2>3. state' # "torn" /\ state' # "no-manifest" /\ (state' = b => n < 4)
    BY <1>2, <2>1, BuilderNames, PlanCacheAssumption DEF Settled
  <2>4. Alone(b) /\ (n > 1 => state = b)
    BY <2>1, <2>3
  <2>5. n # 4
    BY <1>2, <2>4 DEF Settled
  <2>6. state' = b /\ job'[b].next = n + 1
    BY <2>1, <2>2, <2>4, <2>5
  <2>7. n + 1 = 4
    BY <1>2, <2>6, BuilderNames DEF Settled
  <2> QED
    BY <1>5, <2>1, <2>4, <2>7
<1>6. ASSUME NEW b \in Builder, Gone(b)
      PROVE  FALSE
  <2>1. /\ job'[b] = Idle /\ \A c \in Builder \ {b} : job'[c] = job[c]
        /\ \/ state' = state /\ (job[b].at # "store" \/ job[b].next = 1)
           \/ state' = "torn"
           \/ state' = "no-manifest" /\ state = b /\ job[b].next = 4
    BY <1>0, <1>6, GoneEffect DEF Gone
  <2>2. state' # "torn"
    BY <1>2, BuilderNames DEF Settled
  <2>3. ~(state = b /\ job[b].next = 4)
    BY <1>2 DEF Settled
  <2>4. state' = state /\ state # b
    BY <1>0, <2>1, <2>2, <2>3 DEF StoringAgrees, OwnFiles
  <2> QED
    BY <1>3, <2>1, <2>4
<1>7. ASSUME UNCHANGED <<job, state>>
      PROVE  FALSE
  BY <1>2, <1>7 DEF Settled
<1>8. ASSUME Edits \/ UNCHANGED vars
      PROVE  FALSE
  BY <1>7, <1>8 DEF Edits, EditFile, AddFiles, vars
<1>9. ASSUME NEW f \in File, Remove(f)
      PROVE  FALSE
  BY <1>7, <1>9 DEF Remove
<1> QED
  BY <1>4, <1>5, <1>6, <1>8, <1>9, NextCases

LEMMA CurrentQuiet ==
  ASSUME IInv, CurrentInv, NEW b \in Builder, Begin(b) \/ Loads(b) \/ Evaluate(b),
         Scope' \in SUBSET Scope, Scope \subseteq Authored
  PROVE  CurrentInv'
<1>0. TypeInv
  BY DEF IInv
<1>1. /\ UNCHANGED <<cache, tree, listing>>
      /\ \A c \in Builder \ {b} : job'[c] = job[c]
  BY <1>0, QuietSteps
<1>2. /\ Vouched => Vouched'
      /\ (InputsMatch <=> InputsMatch') /\ Common' = Common
  BY <1>1 DEF Vouched, CurrentIn, Fingerprint, InputsMatch, Common
<1>3. FilesCurrent'
  BY <1>1, <1>2 DEF CurrentInv, FilesCurrent, Listed
<1>4. ASSUME NEW c \in Builder \ {b} PROVE BuilderCurrent(c)'
  BY <1>1, <1>2, <1>4 DEF CurrentInv, BuilderCurrent, CurrentIn, Fingerprint, Hit
<1>5. BuilderCurrent(b)'
  <2>1. CASE Begin(b)
    BY <1>0, <2>1, BeginEffect DEF BuilderCurrent, Hit
  <2>2. CASE LoadManifest(b)
    BY <1>0, <2>2, LoadManifestEffect DEF BuilderCurrent, Hit, TypeInv
  <2>3. CASE LoadInputs(b)
    BY <1>0, <1>2, <2>3, LoadInputsEffect
       DEF CurrentInv, FilesCurrent, BuilderCurrent, Hit, TypeInv
  <2>4. CASE LoadGraph(b)
    <3>1. \/ /\ job'[b].at = "actions" /\ job'[b].plan = cache["graph"] /\ cache["graph"] # None
             /\ job[b].at = "graph"
          \/ job'[b].at = "evaluate"
      BY <1>0, <2>4, LoadGraphEffect
    <3>2. CASE job'[b].at = "evaluate"
      BY <1>0, <2>4, <3>2, LoadGraphEffect DEF BuilderCurrent, Hit
    <3>3. CASE job'[b].at = "actions"
      <4>1. Vouched /\ cache["graph"] # None /\ job'[b].plan = cache["graph"]
        BY <3>1, <3>3 DEF CurrentInv, BuilderCurrent
      <4>2. CurrentIn(job[b].plan, Scope)'
        BY <1>1, <4>1 DEF Vouched, CurrentIn, Fingerprint
      <4> QED
        BY <1>2, <3>3, <4>1, <4>2 DEF BuilderCurrent, Hit
    <3> QED
      BY <3>1, <3>2, <3>3
  <2>5. CASE LoadActions(b)
    <3>1. \/ /\ job'[b].at = "build" /\ job'[b].plan = job[b].plan /\ job[b].at = "actions"
             /\ cache["actions"] # None /\ job'[b].actions = cache["actions"].plan
          \/ job'[b].at = "evaluate"
      BY <1>0, <2>5, LoadActionsEffect
    <3>2. CASE job'[b].at = "evaluate"
      BY <1>0, <2>5, <3>2, LoadActionsEffect DEF BuilderCurrent, Hit
    <3>3. CASE job'[b].at = "build"
      <4>1. Vouched /\ cache["actions"] # None /\ CurrentIn(job[b].plan, Scope)
        BY <3>1, <3>3 DEF CurrentInv, BuilderCurrent
      <4>2. CurrentIn(job[b].plan, Scope)' /\ CurrentIn(job[b].actions, Scope)'
        BY <1>1, <3>1, <3>3, <4>1 DEF Vouched, CurrentIn, Fingerprint
      <4> QED
        BY <3>3, <4>2 DEF BuilderCurrent, Hit
    <3> QED
      BY <3>1, <3>2, <3>3
  <2>6. CASE Evaluate(b)
    <3>1. /\ job'[b].at \in {"store", "build"} /\ ~job'[b].hit
          /\ job'[b].at = "store" => ~job'[b].plan.globs
          /\ job'[b].plan = PlanOf(job[b].ask) /\ job[b].ask \in Request
          /\ job'[b].next = 1
      BY <1>0, <2>6, EvaluateEffect DEF TypeInv
    <3>2. CurrentIn(PlanOf(job[b].ask), Authored)
      BY <1>0, <3>1, PlanType
    <3> HIDE DEF PlanOf
    <3>3. CurrentIn(job[b].plan, Authored)'
      BY <1>1, <3>1, <3>2 DEF CurrentIn, Fingerprint
    <3> QED
      BY <3>1, <3>3 DEF BuilderCurrent, Hit
  <2> QED
    BY <2>1, <2>2, <2>3, <2>4, <2>5, <2>6 DEF Loads
<1> QED
  BY <1>3, <1>4, <1>5 DEF CurrentInv

LEMMA CurrentStore ==
  ASSUME IInv, CurrentInv, NEW b \in Builder, StoreFile(b), Scope \subseteq Authored,
         \/ Scope' \in SUBSET Scope
         \/ job[b].next = 3 /\ Alone(b) /\ state = b
  PROVE  CurrentInv'
<1>0. TypeInv /\ StoringAgrees
  BY DEF IInv
<1> DEFINE n == job[b].next
           wide == n = 3 /\ Alone(b) /\ state = b
<1>1. /\ n \in 1..4
      /\ n = 1 => cache'["graph"] = job[b].plan
      /\ n # 1 => cache'["graph"] = cache["graph"]
      /\ n = 2 => cache'["actions"] = [label |-> job[b].ask.label, plan |-> job[b].plan]
      /\ n # 2 => cache'["actions"] = cache["actions"]
      /\ n = 3 => cache'["inputs"] = Fingerprints(job[b].plan.choice)
      /\ n # 3 => cache'["inputs"] = cache["inputs"]
  BY <1>0, StoreFileWrites
<1>2. /\ \A c \in Builder \ {b} : job'[c] = job[c]
      /\ job[b].at = "store" /\ job'[b].plan = job[b].plan /\ ~job'[b].hit
      /\ job[b].plan \in Plan
      /\ \/ n < 4 /\ job'[b].at = "store" /\ job'[b].next = n + 1
         \/ n = 4 /\ job'[b].at = "build"
  BY <1>0, StoreFileEffect
<1>3. /\ tree' = tree /\ listing' = listing /\ Common' = Common
      /\ Scope' \subseteq Authored /\ Common \subseteq Authored
  BY DEF StoreFile, Scope, Common
<1>4. /\ CurrentIn(job[b].plan, Authored) /\ ~job[b].plan.globs
      /\ n > 1 /\ cache["graph"] # None => CurrentIn(cache["graph"], Authored)
      /\ n > 2 /\ cache["actions"] # None => CurrentIn(cache["actions"].plan, Authored)
  BY <1>2 DEF CurrentInv, BuilderCurrent
<1>5. wide \/ Scope' \in SUBSET Scope
  OBVIOUS
<1>6. wide => OwnFiles(b)
  BY <1>0 DEF StoringAgrees
<1>7. wide => /\ cache["graph"] # None => cache["graph"] = job[b].plan
              /\ cache["actions"] # None => cache["actions"].plan = job[b].plan
  BY <1>6 DEF OwnFiles
<1>8. wide => \A c \in Builder \ {b} : job[c].at = "idle"
  BY DEF Alone, Busy
<1>9. wide => n = 3
  OBVIOUS
<1> HIDE DEF n, wide
\* Only current plans are written: what has been current stays so.
<1>10. /\ n = 1 => CurrentIn(cache["graph"], Authored)' /\ ~cache'["graph"].globs
       /\ n > 1 /\ cache'["graph"] # None => CurrentIn(cache["graph"], Authored)'
       /\ cache["graph"] # None /\ CurrentIn(cache["graph"], Authored)
            => CurrentIn(cache["graph"], Authored)'
  BY <1>1, <1>3, <1>4 DEF CurrentIn, Fingerprint
<1>11. /\ n = 2 => CurrentIn(cache["actions"].plan, Authored)' /\ ~cache'["actions"].plan.globs
       /\ n > 2 /\ cache'["actions"] # None => CurrentIn(cache["actions"].plan, Authored)'
       /\ cache["actions"] # None /\ CurrentIn(cache["actions"].plan, Authored)
            => CurrentIn(cache["actions"].plan, Authored)'
  BY <1>1, <1>3, <1>4 DEF CurrentIn, Fingerprint
<1>12. /\ n # 1 => (cache'["graph"] # None => cache["graph"] # None)
       /\ n # 2 => (cache'["actions"] # None => cache["actions"] # None)
  BY <1>1
<1>13. /\ CurrentIn(cache["graph"], Authored)' => CurrentIn(cache["graph"], Scope)'
       /\ CurrentIn(cache["actions"].plan, Authored)' => CurrentIn(cache["actions"].plan, Scope)'
  BY <1>3 DEF CurrentIn
<1>14. n > 2 => Vouched'
  BY <1>1, <1>10, <1>11, <1>13 DEF Vouched
<1>15. ASSUME Vouched, n <= 2 PROVE Vouched'
  <2>1. Scope' \in SUBSET Scope
    BY <1>5, <1>9, <1>15
  <2>2. cache'["graph"] # None => CurrentIn(cache["graph"], Scope)'
    <3>1. CASE n = 1
      BY <1>10, <1>13, <3>1
    <3>2. CASE n # 1
      BY <1>1, <1>3, <1>15, <2>1, <3>2 DEF Vouched, CurrentIn, Fingerprint
    <3> QED
      BY <3>1, <3>2
  <2>3. cache'["actions"] # None => CurrentIn(cache["actions"].plan, Scope)'
    <3>1. CASE n = 2
      BY <1>11, <1>13, <3>1
    <3>2. CASE n # 2
      BY <1>1, <1>3, <1>15, <2>1, <3>2 DEF Vouched, CurrentIn, Fingerprint
    <3> QED
      BY <3>1, <3>2
  <2> QED
    BY <2>2, <2>3 DEF Vouched
<1>16. Vouched => Vouched'
  BY <1>1, <1>14, <1>15
<1>17. FilesCurrent'
  <2>1. /\ cache'["graph"] # None => ~cache'["graph"].globs
        /\ cache'["actions"] # None => ~cache'["actions"].plan.globs
    BY <1>1, <1>10, <1>11 DEF CurrentInv, FilesCurrent
  <2>2. InputsMatch' => Vouched'
    <3>1. CASE n > 2
      BY <1>14, <3>1
    <3>2. CASE n <= 2
      BY <1>1, <1>3, <1>16, <3>2 DEF CurrentInv, FilesCurrent, InputsMatch
    <3> QED
      BY <1>1, <3>1, <3>2
  <2>3. ASSUME cache'["inputs"] # None
        PROVE  /\ \A f \in Authored : cache'["inputs"][f] <= tree'[f].edition
               /\ \A f \in Common' : cache'["inputs"][f] # 0
               /\ cache'["graph"] # None => Listed(cache["graph"])'
               /\ cache'["actions"] # None => Listed(cache["actions"].plan)'
    <3>1. \A f \in Authored : tree[f].edition \in Nat /\ tree[f].edition # 0
      BY <1>0, PlanCacheAssumption DEF TypeInv, Edition
    <3>2. job[b].plan.choice \in Choice
      BY <1>2 DEF Plan
    <3>3. \A f \in Common : \A c \in Choice : f \in Visits[c]
      BY DEF Common
    <3>4. CASE n = 3
      <4>1. \A f \in Authored : cache'["inputs"][f] = Fingerprint(job[b].plan.choice, f)
        BY <1>1, <3>4 DEF Fingerprints
      <4>2. \A f \in Authored : cache'["inputs"][f] <= tree'[f].edition
        BY <1>3, <3>1, <4>1 DEF Fingerprint
      <4>3. \A f \in Authored : f \in Visits[job[b].plan.choice] => cache'["inputs"][f] # 0
        BY <3>1, <4>1 DEF Fingerprint
      <4>4. \A f \in Common : cache'["inputs"][f] # 0
        BY <1>3, <3>2, <3>3, <4>3
      <4>5. CASE wide
        BY <1>1, <1>3, <1>7, <3>4, <4>2, <4>3, <4>4, <4>5 DEF Listed
      <4>6. CASE ~wide
        <5>1. Scope' = Common \/ (n = 3 /\ Scope' = Authored /\ state = b /\ Alone(b))
          <6>1. state' = IF ~Alone(b) \/ (n > 1 /\ state # b) THEN "torn"
                         ELSE IF n = 4 THEN "whole" ELSE b
            BY <1>0, StoreFileWrites DEF n
          <6>2. CASE ~Alone(b) \/ state # b
            <7>1. state' = "torn"
              BY <3>4, <6>1, <6>2
            <7>2. ~Settled'
              BY <7>1, BuilderNames DEF Settled
            <7> QED
              BY <1>3, <7>2 DEF Scope
          <6>3. CASE Alone(b) /\ state = b
            BY <3>4, <4>6, <6>3 DEF wide, n
          <6> QED
            BY <6>2, <6>3
        <5>2. Scope' = Common
          BY <4>6, <5>1 DEF wide, n
        <5> QED
          BY <1>3, <4>2, <4>4, <5>2 DEF Listed
      <4> QED
        BY <4>5, <4>6
    <3>5. CASE n # 3
      <4>1. /\ cache'["inputs"] = cache["inputs"] /\ Scope' \in SUBSET Scope
            /\ \A f \in Authored : cache["inputs"][f] <= tree[f].edition
            /\ \A f \in Common : cache["inputs"][f] # 0
            /\ cache["graph"] # None => Listed(cache["graph"])
            /\ cache["actions"] # None => Listed(cache["actions"].plan)
        BY <1>1, <1>5, <1>9, <2>3, <3>5 DEF CurrentInv, FilesCurrent
      <4>2. CASE n = 4
        BY <1>1, <1>3, <4>1, <4>2 DEF Listed
      <4>3. CASE n < 3
        <5>1. Scope' = Common
          <6>1. state' = IF ~Alone(b) \/ (n > 1 /\ state # b) THEN "torn"
                         ELSE IF n = 4 THEN "whole" ELSE b
            BY <1>0, StoreFileWrites DEF n
          <6>2. state' = "torn" \/ state' = b
            BY <4>3, <6>1
          <6>3. job'[b].next = n + 1 /\ n + 1 # 4
            BY <1>1, <1>2, <4>3
          <6>4. ~Settled'
            BY <6>2, <6>3, BuilderNames DEF Settled
          <6> QED
            BY <1>3, <6>4 DEF Scope
        <5> QED
          BY <1>3, <4>1, <5>1 DEF Listed
      <4> QED
        BY <1>1, <3>5, <4>2, <4>3
    <3> QED
      BY <3>4, <3>5
  <2> QED
    BY <2>1, <2>2, <2>3 DEF FilesCurrent
<1>18. ASSUME NEW c \in Builder \ {b} PROVE BuilderCurrent(c)'
  <2>1. BuilderCurrent(c) /\ job'[c] = job[c]
    BY <1>2, <1>18 DEF CurrentInv
  <2>2. job'[c].at = "store" => CurrentIn(job[c].plan, Authored)' /\ ~job'[c].plan.globs
    BY <1>3, <2>1 DEF BuilderCurrent, CurrentIn, Fingerprint
  <2>3. /\ job'[c].at = "actions" => CurrentIn(job[c].plan, Scope)'
        /\ Hit(c)' => CurrentIn(job[c].plan, Scope)' /\ CurrentIn(job[c].actions, Scope)'
    <3>1. CASE wide
      BY <1>8, <1>18, <2>1, <3>1 DEF Hit
    <3>2. CASE Scope' \in SUBSET Scope
      BY <1>3, <2>1, <3>2 DEF BuilderCurrent, CurrentIn, Fingerprint, Hit
    <3> QED
      BY <1>5, <3>1, <3>2
  <2>4. job'[c].at = "store" /\ job'[c].next > 1 /\ cache'["graph"] # None
          => CurrentIn(cache["graph"], Authored)'
    BY <1>1, <1>10, <1>12, <2>1 DEF BuilderCurrent
  <2>5. job'[c].at = "store" /\ job'[c].next > 2 /\ cache'["actions"] # None
          => CurrentIn(cache["actions"].plan, Authored)'
    BY <1>1, <1>11, <1>12, <2>1 DEF BuilderCurrent
  <2>6. job'[c].at \in {"graph", "actions"} => Vouched'
    BY <1>16, <2>1 DEF BuilderCurrent
  <2> QED
    BY <2>2, <2>3, <2>4, <2>5, <2>6 DEF BuilderCurrent
<1>19. BuilderCurrent(b)'
  <2>1. job'[b].next > 2 /\ job'[b].at = "store" => n >= 2
    BY <1>1, <1>2
  <2>2. cache'["graph"] # None => CurrentIn(cache["graph"], Authored)'
    BY <1>1, <1>10
  <2>3. n >= 2 /\ cache'["actions"] # None => CurrentIn(cache["actions"].plan, Authored)'
    BY <1>1, <1>11
  <2>4. CurrentIn(job[b].plan, Authored)' /\ ~job'[b].plan.globs
    BY <1>2, <1>3, <1>4 DEF CurrentIn, Fingerprint
  <2> QED
    BY <1>2, <2>1, <2>2, <2>3, <2>4 DEF BuilderCurrent, Hit
<1> QED
  BY <1>17, <1>18, <1>19 DEF CurrentInv

LEMMA CurrentStep ==
  ASSUME ~May("edit-while-building"), IInv, CurrentInv, [Next]_vars
  PROVE  CurrentInv'
<1>0. TypeInv
  BY DEF IInv
<1>1. Scope \subseteq Authored /\ Common \subseteq Scope
  BY ScopeStep
<1>2. ASSUME \A b \in Builder : ~StoreFile(b)
      PROVE  Scope' \in SUBSET Scope
  BY <1>2, ScopeStep
<1>3. ASSUME NEW b \in Builder, StoreFile(b)
      PROVE  CurrentInv'
  <2>1. \/ Scope' \in SUBSET Scope
        \/ job[b].next = 3 /\ Alone(b) /\ state = b
    <3>1. CASE Scope' \in SUBSET Scope
      BY <3>1
    <3>2. ASSUME NEW c \in Builder, StoreFile(c), job[c].next = 3, Alone(c), state = c
          PROVE  job[b].next = 3 /\ Alone(b) /\ state = b
      BY <1>3, <3>2 DEF StoreFile, Alone, Busy
    <3> QED
      BY <3>1, <3>2, ScopeStep
  <2> QED
    BY <1>1, <1>3, <2>1, CurrentStore
<1>4. CASE \E b \in Builder : StoreFile(b)
  BY <1>3, <1>4
<1>5. CASE \A b \in Builder : ~StoreFile(b)
  <2>0. Scope' \in SUBSET Scope
    BY <1>2, <1>5
  <2>1. ASSUME NEW b \in Builder, Begin(b) \/ Loads(b) \/ Evaluate(b)
        PROVE  CurrentInv'
    BY <1>1, <2>0, <2>1, CurrentQuiet
  <2>2. ASSUME NEW b \in Builder, Gone(b)
        PROVE  CurrentInv'
    <3>1. /\ job'[b].at = "idle" /\ cache' = cache /\ tree' = tree /\ listing' = listing
          /\ \A c \in Builder \ {b} : job'[c] = job[c]
      BY <1>0, <2>2, GoneEffect DEF Gone
    <3>2. /\ Vouched => Vouched'
          /\ (InputsMatch <=> InputsMatch') /\ Common' = Common
      BY <2>0, <3>1 DEF Vouched, CurrentIn, Fingerprint, InputsMatch, Common
    <3>3. FilesCurrent'
      BY <2>0, <3>1, <3>2 DEF CurrentInv, FilesCurrent, Listed
    <3>4. ASSUME NEW c \in Builder PROVE BuilderCurrent(c)'
      BY <2>0, <3>1, <3>2, <3>4 DEF CurrentInv, BuilderCurrent, CurrentIn, Fingerprint, Hit
    <3> QED
      BY <3>3, <3>4 DEF CurrentInv
  <2>3. CASE Edits
    <3>1. /\ \A b \in Builder : job[b].at = "idle"
          /\ UNCHANGED <<cache, job, state>>
      BY <2>3 DEF Edits, EditFile, AddFiles, Editing, Busy
    <3>2. \A b \in Builder : BuilderCurrent(b)'
      BY <3>1 DEF Hit, BuilderCurrent
    <3>3. Scope' = Scope /\ Common' = Common
      BY <3>1 DEF Scope, Settled, Common
    <3>4. CASE AddFiles
      <4>1. tree' = tree
        BY <3>4 DEF AddFiles
      <4>2. FilesCurrent'
        BY <3>1, <3>3, <4>1
           DEF CurrentInv, FilesCurrent, Vouched, CurrentIn, Fingerprint, InputsMatch, Listed
      <4> QED
        BY <3>2, <4>2 DEF CurrentInv
    <3>5. ASSUME NEW f \in Authored, EditFile(f)
          PROVE  CurrentInv'
      <4>1. /\ tree'[f].edition = tree[f].edition + 1 /\ listing' = listing
            /\ \A g \in Authored \ {f} : tree'[g] = tree[g]
            /\ \A g \in Authored : tree[g].edition \in Nat /\ tree[g].edition # 0
        BY <1>0, <3>5, PlanCacheAssumption DEF EditFile, TypeInv, Edition
      <4>2. ASSUME cache["inputs"] # None
            PROVE  /\ \A g \in Authored : cache["inputs"][g] \in Nat
                   /\ \A g \in Authored : cache["inputs"][g] <= tree[g].edition
                   /\ cache["graph"] # None => Listed(cache["graph"])
                   /\ cache["actions"] # None => Listed(cache["actions"].plan)
        BY <1>0, <4>2, PlanCacheAssumption DEF TypeInv, Prints, CurrentInv, FilesCurrent
      <4>3. ASSUME InputsMatch'
            PROVE  cache["inputs"] # None /\ cache["inputs"][f] = 0 /\ InputsMatch
        <5>1. /\ cache["inputs"] # None
              /\ \A g \in Authored : cache["inputs"][g] \in {0, tree'[g].edition}
          BY <3>1, <4>3 DEF InputsMatch
        <5>2. cache["inputs"][f] = 0
          BY <4>1, <4>2, <5>1
        <5> QED
          BY <4>1, <5>1, <5>2 DEF InputsMatch
      <4>4. InputsMatch' => Vouched'
        <5> SUFFICES ASSUME InputsMatch' PROVE Vouched'
          OBVIOUS
        <5>1. Vouched
          BY <4>3 DEF CurrentInv, FilesCurrent
        <5>2. /\ cache["graph"] # None /\ f \in Scope => f \notin Visits[cache["graph"].choice]
              /\ cache["actions"] # None /\ f \in Scope
                   => f \notin Visits[cache["actions"].plan.choice]
          BY <4>2, <4>3 DEF Listed
        <5>3. cache'["graph"] # None => CurrentIn(cache["graph"], Scope)'
          BY <1>1, <3>1, <3>3, <4>1, <5>1, <5>2 DEF Vouched, CurrentIn, Fingerprint
        <5>4. cache'["actions"] # None => CurrentIn(cache["actions"].plan, Scope)'
          BY <1>1, <3>1, <3>3, <4>1, <5>1, <5>2 DEF Vouched, CurrentIn, Fingerprint
        <5> QED
          BY <5>3, <5>4 DEF Vouched
      <4>5. cache'["inputs"] # None
              => \A g \in Authored : cache'["inputs"][g] <= tree'[g].edition
        BY <3>1, <4>1, <4>2
      <4>6. FilesCurrent'
        BY <3>1, <3>3, <4>4, <4>5 DEF CurrentInv, FilesCurrent, Listed
      <4> QED
        BY <3>2, <4>6 DEF CurrentInv
    <3> QED
      BY <2>3, <3>4, <3>5 DEF Edits
  <2>4. ASSUME NEW f \in File, Remove(f)
        PROVE  CurrentInv'
    <3>1. UNCHANGED <<tree, listing, job, state>> /\ cache' = [cache EXCEPT ![f] = None]
      BY <2>4 DEF Remove
    <3>2. /\ cache'["graph"] = cache["graph"] \/ cache'["graph"] = None
          /\ cache'["actions"] = cache["actions"] \/ cache'["actions"] = None
          /\ cache'["inputs"] = cache["inputs"] \/ cache'["inputs"] = None
      BY <1>0, <3>1 DEF TypeInv, File
    <3>3. Scope' = Scope /\ Common' = Common
      BY <3>1 DEF Scope, Settled, Common
    <3>4. (InputsMatch' => InputsMatch) /\ (Vouched => Vouched')
      BY <3>1, <3>2, <3>3 DEF InputsMatch, Vouched, CurrentIn, Fingerprint
    <3>5. FilesCurrent'
      BY <3>1, <3>2, <3>3, <3>4 DEF CurrentInv, FilesCurrent, Listed
    <3>6. ASSUME NEW c \in Builder PROVE BuilderCurrent(c)'
      BY <3>1, <3>2, <3>3, <3>4 DEF CurrentInv, BuilderCurrent, CurrentIn, Fingerprint, Hit
    <3> QED
      BY <3>5, <3>6 DEF CurrentInv
  <2>5. CASE UNCHANGED vars
    BY <2>5 DEF vars, CurrentInv, FilesCurrent, BuilderCurrent, Vouched, CurrentIn, Fingerprint,
       InputsMatch, Listed, Scope, Settled, Common, Hit
  <2> QED
    BY <1>5, <2>1, <2>2, <2>3, <2>4, <2>5, NextCases
<1> QED
  BY <1>4, <1>5

LEMMA InitCurrent == Init => CurrentInv
<1> SUFFICES ASSUME Init PROVE CurrentInv
  OBVIOUS
<1>1. /\ \A f \in File : cache[f] = None
      /\ \A b \in Builder : job[b].at = "idle"
  BY IdleJob DEF Init
<1> QED
  BY <1>1 DEF CurrentInv, FilesCurrent, BuilderCurrent, Vouched, InputsMatch, Hit, File

(***************************************************************************)
(* A plan that try_load accepts was made for this request's platform and   *)
(* options, and its graph and its actions are of one store, whenever the   *)
(* last store had the directory to itself and came to its end: whatever    *)
(* number of builds run, are killed or fail in the middle of a store, and  *)
(* whatever is edited or removed meanwhile.                                *)
(***************************************************************************)
THEOREM HitsAreOfTheRequest == Spec => [](TypeOK /\ HitIsOfRequest)
<1>1. IInv => TypeOK
  BY Order DEF IInv, TypeInv, TypeOK, Edition, Prints, Job
<1>2. IInv => HitIsOfRequest
  BY DEF IInv, WholeAgrees, ReadingAgrees, HitIsOfRequest
<1> QED
  BY <1>1, <1>2, Invariance, PTL

(***************************************************************************)
(* qstar_stella_plan_cache_try_load finds what qstar_stella_plan_cache_    *)
(* store wrote last: a build only comes to evaluate the authoring files    *)
(* for another request than the stored one, or after a change.             *)
(***************************************************************************)
THEOREM StoredPlansAreFound == Spec => []StoredIsFound
<1>1. IInv => StoredIsFound
  BY PlanCacheAssumption DEF IInv, TypeInv, Busy, StoredAgrees, StoredIsFound
<1> QED
  BY <1>1, Invariance, PTL

(***************************************************************************)
(* A plan that try_load accepts is what an evaluation would make of the    *)
(* authoring files now, graph and actions alike, as far as its inputs can  *)
(* vouch for: in every file it was made of, once a store has replaced all  *)
(* but the manifest, and after a mixture of two stores in the files that   *)
(* both evaluations come to.  store() reads the inputs again when it       *)
(* writes their fingerprints, so this needs that nobody edits them while   *)
(* a build is running; nothing else is assumed: builds still share the     *)
(* directory, fail, are killed, and lose files.                            *)
(***************************************************************************)
THEOREM HitsAreRight ==
  ASSUME ~May("edit-while-building")
  PROVE  Spec => []HitIsRight
<1>1. IInv /\ CurrentInv /\ [Next]_vars => CurrentInv'
  BY CurrentStep
<1>2. IInv /\ CurrentInv => HitIsCurrent
  <2>1. Vouching \subseteq Scope
    BY DEF Vouching, Scope, Settled, Common
  <2> QED
    BY <2>1 DEF CurrentInv, BuilderCurrent, HitIsCurrent, CurrentIn
<1>3. Spec => []CurrentInv
  BY <1>1, InitCurrent, Invariance, PTL DEF Spec
<1> QED
  BY <1>2, <1>3, Invariance, HitsAreOfTheRequest, PTL DEF HitIsRight
=============================================================================
