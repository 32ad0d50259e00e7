--------------------------- MODULE MCDaemonService ---------------------------
(***************************************************************************)
(* Instances of DaemonService.                                             *)
(***************************************************************************)
EXTENDS DaemonService, TLC

CONSTANTS c1, c2, w1, w2, l1

Query(w) == [build |-> FALSE, auto |-> FALSE, ws |-> w, label |-> None]
BuildOf(l, w, auto) == [build |-> TRUE, auto |-> auto, ws |-> w, label |-> l]

\* One client builds here; the other queries, or builds in another workspace.
Asking == c1 :> {BuildOf(l1, w1, TRUE)} @@
          c2 :> {Query(w1), BuildOf(l1, w2, FALSE)}
=============================================================================
