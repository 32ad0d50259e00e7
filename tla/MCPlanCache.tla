---------------------------- MODULE MCPlanCache ----------------------------
(***************************************************************************)
(* Instances of PlanCache: every evaluation comes to one file, and each    *)
(* choice to one of its own (a platform's or an entry's fragment).         *)
(***************************************************************************)
EXTENDS PlanCache, TLC

CONSTANTS b1, b2, l1, l2, c1, c2, main, own1, own2

MCVisits == (c1 :> {main, own1}) @@ (c2 :> {main, own2})

\* The choices may be exchanged together with the files of their own.
Exchange == (c1 :> c2) @@ (c2 :> c1) @@ (own1 :> own2) @@ (own2 :> own1)

Symmetry == Permutations(Builder) \cup Permutations(Label) \cup {Exchange}
=============================================================================
