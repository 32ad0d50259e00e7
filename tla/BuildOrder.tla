----------------------------- MODULE BuildOrder -----------------------------
(***************************************************************************)
(* What the action executor promises, without any of its bookkeeping: no   *)
(* ready queue, no counters, no slots.  A build starts an action only when *)
(* everything the action depends on is done, keeps at most Jobs processes, *)
(* handles every action at most once, succeeds only when everything is     *)
(* done, and leaves nothing running when it returns.                       *)
(***************************************************************************)
EXTENDS Naturals, FiniteSets

CONSTANTS
    Node,    \* the actions of one build
    Jobs,    \* how many processes may run at once
    Graphs   \* the dependency functions a build may be asked to execute

VARIABLES
    deps,     \* deps[n]: the actions n must wait for
    running,  \* actions whose process has been started and not yet collected
    done,     \* actions that are finished
    outcome   \* "building", "ok" or "failed"

vars == <<deps, running, done, outcome>>

Init ==
    /\ deps \in Graphs
    /\ running = {}
    /\ done = {}
    /\ outcome = "building"

\* n is next: untouched, and all it depends on is done.
Eligible(n) ==
    /\ outcome = "building"
    /\ n \notin running \cup done
    /\ deps[n] \subseteq done

\* A process is started for n.
Start(n) ==
    /\ Eligible(n)
    /\ Cardinality(running) < Jobs
    /\ running' = running \cup {n}
    /\ UNCHANGED <<deps, done, outcome>>

\* n needs no process: it is done inline, or it is up to date.
Settle(n) ==
    /\ Eligible(n)
    /\ done' = done \cup {n}
    /\ UNCHANGED <<deps, running, outcome>>

\* The process of n ended well.
Finish(n) ==
    /\ outcome = "building"
    /\ n \in running
    /\ running' = running \ {n}
    /\ done' = done \cup {n}
    /\ UNCHANGED <<deps, outcome>>

Succeed ==
    /\ outcome = "building"
    /\ done = Node
    /\ running = {}
    /\ outcome' = "ok"
    /\ UNCHANGED <<deps, running, done>>

\* The first failure ends the build and takes every running process with it.
Fail ==
    /\ outcome = "building"
    /\ outcome' = "failed"
    /\ running' = {}
    /\ UNCHANGED <<deps, done>>

Next ==
    \/ \E n \in Node : Start(n) \/ Settle(n) \/ Finish(n)
    \/ Succeed
    \/ Fail

Spec == Init /\ [][Next]_vars
=============================================================================
