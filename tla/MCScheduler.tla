----------------------------- MODULE MCScheduler -----------------------------
(***************************************************************************)
(* Instances of Scheduler for TLC.                                         *)
(***************************************************************************)
EXTENDS Scheduler, TLC

\* Every graph without self dependencies over the nodes of the instance,
\* cyclic ones included.
AllGraphs == {g \in [Node -> SUBSET Node] : \A n \in Node : n \notin g[n]}
=============================================================================
