----------------------------- MODULE MCTestBatch -----------------------------
(***************************************************************************)
(* Instances of TestBatch for TLC.                                         *)
(***************************************************************************)
EXTENDS TestBatch, TLC

CONSTANTS board, gpu

Capacities == board :> 1 @@ gpu :> 2

\* Tests 1 and 3 exclude each other on the board, 2 and 3 on the gpu; 1 and 2
\* come back for a second attempt, each after statuses of its own.
Requests ==
    1 :> (board :> 1 @@ gpu :> 0) @@
    2 :> (board :> 0 @@ gpu :> 1) @@
    3 :> (board :> 1 @@ gpu :> 2) @@
    4 :> (board :> 0 @@ gpu :> 0)
Retries == 1 :> 1 @@ 2 :> 0 @@ 3 :> 0 @@ 4 :> 0
Retried == 1 :> {"error"} @@ 2 :> {} @@ 3 :> {} @@ 4 :> {}
=============================================================================
