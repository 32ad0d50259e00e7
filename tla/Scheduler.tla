------------------------------ MODULE Scheduler ------------------------------
(***************************************************************************)
(* The ready-queue executor of one build: scheduler_execute and the        *)
(* functions it calls in src/src/executor.c.                               *)
(*                                                                         *)
(* One thread runs the loop; the child processes it starts run beside it.  *)
(* A turn of the loop drains the ready queue (starting processes while a   *)
(* slot is free), polls the slots in order up to the first finished child, *)
(* and, when nothing moved, checks for a stall and waits.  What an action  *)
(* does, and why it can be skipped, is data here: a process node may be    *)
(* found up to date, may fail to start, and its child may exit well, exit  *)
(* badly or overrun its time limit.                                        *)
(***************************************************************************)
EXTENDS Naturals, FiniteSets, Sequences, SequencesExt

CONSTANTS
    Node,     \* the scheduler's nodes
    Process,  \* those handed to a child process; the others run inline
    Jobs,     \* number of process slots
    Graphs,   \* the dependency functions scheduler_build_nodes may produce
    None      \* no node

\* scheduler_add_edge refuses self dependencies; longer cycles get through.
ASSUME NodeAssumption == IsFiniteSet(Node) /\ Process \subseteq Node /\ None \notin Node
ASSUME JobsAssumption == Jobs \in Nat \ {0}
ASSUME GraphsAssumption ==
    \A g \in Graphs : g \in [Node -> SUBSET Node] /\ \A n \in Node : n \notin g[n]

VARIABLES
    deps,        \* deps[n]: the nodes n waits for (fixed once the graph is built)
    state,       \* state[n]: PENDING, READY, RUNNING or DONE
    remaining,   \* remaining[n]: dependencies of n not completed yet
    ready,       \* the ready queue
    cur,         \* the node popped from the queue and being handled
    slot,        \* slot[i]: node whose child occupies slot i (running[i].pid > 0)
    active,      \* the loop's count of started children
    completed,   \* the loop's count of completed nodes
    progressed,  \* something moved in this turn
    scan,        \* index of the polling loop
    phase,       \* where the loop is, or how it ended
    proc         \* proc[n]: the child process of n, as the system sees it

graphVars == <<deps, state, remaining, ready>>
loopVars == <<active, completed, progressed, scan>>
vars == <<deps, state, remaining, ready, cur, slot, active, completed,
          progressed, scan, phase, proc>>

Slot == 1..Jobs
States == {"PENDING", "READY", "RUNNING", "DONE"}
Ended == {"ok", "failed", "stalled"}
Phases == {"drain", "node", "poll", "flush"} \cup Ended

\* A child is absent, alive, alive past its limit, exited, or terminated.
Alive == {"alive", "overdue"}
ProcStates == Alive \cup {"absent", "exit-ok", "exit-bad", "terminated"}

DoneNodes == {n \in Node : state[n] = "DONE"}
BusySlots == {i \in Slot : slot[i] # None}

\* The condition of the outer loop.
Turning == completed < Cardinality(Node)

-----------------------------------------------------------------------------
Init ==
    /\ deps \in Graphs
    /\ remaining = [n \in Node |-> Cardinality(deps[n])]
    /\ state = [n \in Node |-> IF deps[n] = {} THEN "READY" ELSE "PENDING"]
    /\ ready \in SetToSeqs({n \in Node : deps[n] = {}})
    /\ cur = None
    /\ slot = [i \in Slot |-> None]
    /\ active = 0
    /\ completed = 0
    /\ progressed = FALSE
    /\ scan = 1
    /\ phase = IF Node = {} THEN "flush" ELSE "drain"
    /\ proc = [n \in Node |-> "absent"]

-----------------------------------------------------------------------------
\* Completing a node.

\* The nodes whose count completing n lowers.
Dependents(n) == {m \in Node : n \in deps[m] /\ state[m] = "PENDING"}

\* Mutation: released one dependency too early.
ReleasedEarly(n) == {m \in Dependents(n) : remaining[m] <= 2}

\* Those that thereby have nothing left to wait for.
Released(n) == {m \in Dependents(n) : remaining[m] <= 1}

CompleteNode(n) ==
    /\ remaining' = [m \in Node |-> IF m \in Dependents(n) /\ remaining[m] > 0
                                    THEN remaining[m] - 1 ELSE remaining[m]]
    /\ state' = [m \in Node |-> IF m = n THEN "DONE"
                                ELSE IF m \in Released(n) THEN "READY" ELSE state[m]]
    /\ \E s \in SetToSeqs(Released(n)) : ready' = ready \o s
    /\ completed' = completed + 1
    /\ progressed' = TRUE
    /\ UNCHANGED deps

-----------------------------------------------------------------------------
\* Leaving the loop.

\* Mutation: cancellation misses the first slot.
VictimsButFirst(slots, count) ==
    IF count > 0 THEN {slots[i] : i \in Slot \ {1}} \ {None} ELSE {}

\* cancel_running_actions: every child still in a slot, looked for only when
\* the loop's count says there is one.
Victims(slots, count) ==
    IF count > 0 THEN {slots[i] : i \in Slot} \ {None} ELSE {}

\* The fail label: the victims are terminated and reaped.
Abort(victims, how) ==
    /\ proc' = [n \in Node |-> IF n \in victims THEN "terminated" ELSE proc[n]]
    /\ slot' = [i \in Slot |-> None]
    /\ cur' = None
    /\ phase' = how
    /\ UNCHANGED <<graphVars, loopVars>>

-----------------------------------------------------------------------------
\* Draining the ready queue.

\* An entry whose node is no longer READY is dropped.
Take ==
    /\ phase = "drain"
    /\ ready # <<>>
    /\ ready' = Tail(ready)
    /\ IF state[Head(ready)] = "READY"
       THEN cur' = Head(ready) /\ phase' = "node"
       ELSE UNCHANGED <<cur, phase>>
    /\ UNCHANGED <<deps, state, remaining, slot, loopVars, proc>>

Drained ==
    /\ phase = "drain"
    /\ ready = <<>>
    /\ phase' = "poll"
    /\ scan' = 1
    /\ UNCHANGED <<graphVars, cur, slot, active, completed, progressed, proc>>

\* A group, metadata, object-library, stage or config-header node is done on
\* the spot.  A process node is settled without a child when its recorded key
\* matches and its outputs exist, or when the local action cache restores them.
Settle ==
    /\ phase = "node"
    /\ CompleteNode(cur)
    /\ cur' = None
    /\ phase' = "drain"
    /\ UNCHANGED <<slot, active, scan, proc>>

\* Mutation: the slots are taken to be full one process too early.
RequeueEarly ==
    /\ phase = "node"
    /\ cur \in Process
    /\ active + 1 >= Jobs
    /\ ready' = Append(ready, cur)
    /\ state' = [state EXCEPT ![cur] = "READY"]
    /\ cur' = None
    /\ phase' = "poll"
    /\ scan' = 1
    /\ UNCHANGED <<deps, remaining, slot, active, completed, progressed, proc>>

\* All slots taken: the node goes to the back of the queue and draining stops.
Requeue ==
    /\ phase = "node"
    /\ cur \in Process
    /\ active >= Jobs
    /\ ready' = Append(ready, cur)
    /\ state' = [state EXCEPT ![cur] = "READY"]
    /\ cur' = None
    /\ phase' = "poll"
    /\ scan' = 1
    /\ UNCHANGED <<deps, remaining, slot, active, completed, progressed, proc>>

FreeSlots == {i \in Slot : slot[i] = None}

StartProcess ==
    /\ phase = "node"
    /\ cur \in Process
    /\ active < Jobs
    /\ \E i \in FreeSlots :
          /\ \A j \in FreeSlots : i <= j
          /\ slot' = [slot EXCEPT ![i] = cur]
    /\ proc' = [proc EXCEPT ![cur] = "alive"]
    /\ state' = [state EXCEPT ![cur] = "RUNNING"]
    /\ active' = active + 1
    /\ progressed' = TRUE
    /\ cur' = None
    /\ phase' = "drain"
    /\ UNCHANGED <<deps, remaining, ready, completed, scan>>

\* The inline action, the preparation, the cache or the spawn failed, or no
\* slot was found for a process node the count had room for.
NodeError ==
    /\ phase = "node"
    /\ Abort(Victims(slot, active), "failed")

-----------------------------------------------------------------------------
\* Polling the slots.

\* Mutation: the time limit is not looked at.
PollOnPatiently ==
    /\ phase = "poll"
    /\ scan \in Slot
    /\ slot[scan] # None => proc[slot[scan]] \in Alive
    /\ scan' = scan + 1
    /\ UNCHANGED <<graphVars, cur, slot, active, completed, progressed, phase, proc>>

\* A free slot, or a child that has not finished and has time left.
PollOn ==
    /\ phase = "poll"
    /\ scan \in Slot
    /\ slot[scan] # None => proc[slot[scan]] = "alive"
    /\ scan' = scan + 1
    /\ UNCHANGED <<graphVars, cur, slot, active, completed, progressed, phase, proc>>

\* Mutation: the count of started children is not lowered.
CollectKeepingCount(n) ==
    /\ slot' = [slot EXCEPT ![scan] = None]
    /\ UNCHANGED active

\* The child of n was waited for: its slot is free again.
Collect(n) ==
    /\ slot' = [slot EXCEPT ![scan] = None]
    /\ active' = active - 1

\* A child that ended well completes its node; the scan stops there.
PollSuccess ==
    /\ phase = "poll"
    /\ scan \in Slot
    /\ slot[scan] # None
    /\ proc[slot[scan]] = "exit-ok"
    /\ Collect(slot[scan])
    /\ CompleteNode(slot[scan])
    /\ scan' = Jobs + 1
    /\ UNCHANGED <<cur, phase, proc>>

\* It exited badly, or what follows a good exit failed: the expected output of
\* a run target, the depfile, the cache store.
PollFailure ==
    /\ phase = "poll"
    /\ scan \in Slot
    /\ slot[scan] # None
    /\ proc[slot[scan]] \in {"exit-ok", "exit-bad"}
    /\ Abort(Victims([slot EXCEPT ![scan] = None], active - 1), "failed")

\* The child overran its limit: it is terminated and the build fails.  The
\* count is not lowered on this path.
PollTimeout ==
    /\ phase = "poll"
    /\ scan \in Slot
    /\ slot[scan] # None
    /\ proc[slot[scan]] = "overdue"
    /\ Abort({slot[scan]} \cup Victims([slot EXCEPT ![scan] = None], active), "failed")

\* Reading the child's output or waiting for it failed.
PollError ==
    /\ phase = "poll"
    /\ scan \in Slot
    /\ slot[scan] # None
    /\ Abort(Victims(slot, active), "failed")

-----------------------------------------------------------------------------
\* The end of a turn.

TurnOver == phase = "poll" /\ scan = Jobs + 1

\* Mutation: the stall check overlooks children that are still running.
IsStalledHasty == ready = <<>> /\ Turning

\* Nothing queued, nothing running, nodes left.
IsStalled == active = 0 /\ ready = <<>> /\ Turning

\* Something moved, or the wait for a child's output returned.
NextTurn ==
    /\ TurnOver
    /\ progressed \/ ~IsStalled
    /\ phase' = IF Turning THEN "drain" ELSE "flush"
    /\ progressed' = FALSE
    /\ scan' = 1
    /\ UNCHANGED <<graphVars, cur, slot, active, completed, proc>>

Stall ==
    /\ TurnOver
    /\ ~progressed
    /\ IsStalled
    /\ Abort(Victims(slot, active), "stalled")

WaitError ==
    /\ TurnOver
    /\ ~progressed
    /\ ~IsStalled
    /\ Abort(Victims(slot, active), "failed")

\* depfile_refresh_queue_flush, which can fail.
Flush ==
    /\ phase = "flush"
    /\ phase' \in {"ok", "failed"}
    /\ UNCHANGED <<graphVars, cur, slot, loopVars, proc>>

-----------------------------------------------------------------------------
\* The children.

ChildExits(n) ==
    /\ proc[n] \in Alive
    /\ \E how \in {"exit-ok", "exit-bad"} : proc' = [proc EXCEPT ![n] = how]
    /\ UNCHANGED <<graphVars, cur, slot, loopVars, phase>>

ChildOverruns(n) ==
    /\ proc[n] = "alive"
    /\ proc' = [proc EXCEPT ![n] = "overdue"]
    /\ UNCHANGED <<graphVars, cur, slot, loopVars, phase>>

Loop ==
    \/ Take \/ Drained \/ Settle \/ Requeue \/ StartProcess \/ NodeError
    \/ PollOn \/ PollSuccess \/ PollFailure \/ PollTimeout \/ PollError
    \/ NextTurn \/ Stall \/ WaitError \/ Flush

\* scheduler_execute has returned.
Returned == phase \in Ended /\ UNCHANGED vars

Next == Loop \/ (\E n \in Node : ChildExits(n) \/ ChildOverruns(n)) \/ Returned

\* The loop keeps turning, and time passes: a child that does not exit
\* eventually reaches its limit.  No child is assumed to exit.
Fairness == WF_vars(Loop) /\ \A n \in Node : WF_vars(ChildOverruns(n))

Spec == Init /\ [][Next]_vars
FairSpec == Spec /\ Fairness

-----------------------------------------------------------------------------
TypeOK ==
    /\ deps \in [Node -> SUBSET Node]
    /\ state \in [Node -> States]
    /\ remaining \in [Node -> Nat]
    /\ ready \in Seq(Node)
    /\ cur \in Node \cup {None}
    /\ slot \in [Slot -> Node \cup {None}]
    /\ active \in 0..Jobs
    /\ completed \in Nat
    /\ progressed \in BOOLEAN
    /\ scan \in 1..(Jobs + 1)
    /\ phase \in Phases
    /\ proc \in [Node -> ProcStates]

(***************************************************************************)
(* An action is handled only when everything it depends on has completed:  *)
(* the decrements of scheduler_complete_node and the queue never let a     *)
(* compile run before the header it needs was generated.                   *)
(***************************************************************************)
DepsBeforeUse ==
    \A n \in Node : (n = cur \/ state[n] \in {"RUNNING", "DONE"})
                      => \A d \in deps[n] : state[d] = "DONE"

(***************************************************************************)
(* The three records of what is running agree while the loop runs: the     *)
(* node states, the slots and the count that the slot limit, the stall     *)
(* check and the cancellation test.                                        *)
(***************************************************************************)
SlotsAgree ==
    phase \notin Ended =>
      /\ active = Cardinality(BusySlots)
      /\ \A i, j \in BusySlots : slot[i] = slot[j] => i = j
      /\ \A n \in Node : state[n] = "RUNNING" <=> \E i \in Slot : slot[i] = n

(***************************************************************************)
(* However the executor returns -- success, first failure, timeout, wait   *)
(* error, stall -- no child it started is left running.                    *)
(***************************************************************************)
NoOrphans == phase \in Ended => \A n \in Node : proc[n] \notin Alive

(***************************************************************************)
(* "scheduler stalled with pending actions" is reported only for a graph   *)
(* that has a cycle: some set of nodes each of which waits for another of  *)
(* the set.                                                                *)
(***************************************************************************)
Knot(S) == S # {} /\ \A n \in S : deps[n] \cap S # {}
StallMeansCycle == phase = "stalled" => \E S \in SUBSET Node : Knot(S)

(***************************************************************************)
(* Success means the whole graph was built: the completed count reaches    *)
(* the number of nodes only when every node is DONE, so a graph with a     *)
(* cycle is never reported as built.                                       *)
(***************************************************************************)
OkMeansAllDone == phase = "ok" => DoneNodes = Node /\ active = 0

(***************************************************************************)
(* When the loop goes to sleep in its wait, it is for want of work or of   *)
(* slots: no queued action is left while a slot is free.                   *)
(***************************************************************************)
WorkConserving == TurnOver /\ ~progressed => ready = <<>> \/ active = Jobs

(***************************************************************************)
(* No action's command is ever started twice in a build, although a node   *)
(* can leave and re-enter the queue.                                       *)
(***************************************************************************)
StartedOnce ==
    [][\A n \in Node : proc[n] # "absent" => (proc'[n] = "alive" => proc[n] = "alive")]_vars

(***************************************************************************)
(* The executor returns, whatever the children do: one that never exits is *)
(* overtaken by its time limit.                                            *)
(***************************************************************************)
Terminates == <>(phase \in Ended)

(***************************************************************************)
(* Refinement: hiding the queue, the counters and the slots leaves the     *)
(* behaviour that BuildOrder promises.                                     *)
(***************************************************************************)
AbsRunning == IF phase \in Ended THEN {} ELSE {n \in Node : state[n] = "RUNNING"}
AbsOutcome == CASE phase = "ok" -> "ok"
                [] phase \in {"failed", "stalled"} -> "failed"
                [] OTHER -> "building"

Promise == INSTANCE BuildOrder WITH
    running <- AbsRunning, done <- DoneNodes, outcome <- AbsOutcome

ImplementsBuildOrder == Promise!Spec
=============================================================================
