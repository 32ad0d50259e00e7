-------------------------- MODULE MCDaemonLifecycle --------------------------
(***************************************************************************)
(* Instances of DaemonLifecycle.                                           *)
(***************************************************************************)
EXTENDS DaemonLifecycle, TLC

CONSTANTS c1, c2, p1, p2

Symmetry == Permutations(Command) \cup Permutations(Pid)
=============================================================================
