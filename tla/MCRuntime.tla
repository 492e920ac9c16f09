----------------------------- MODULE MCRuntime -----------------------------
(* TLC instance of RuntimeApi. *)
EXTENDS RuntimeApi
MCSteps == {1, 2, 5}
MCHolds == {0, 3, 40}
=============================================================================
