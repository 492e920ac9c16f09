----------------------------- MODULE MCDemoCart -----------------------------
(* A TLC instance of DemoCart. *)
EXTENDS DemoCart
MCWorks == {0, 1, 3}
MCOversleeps == {0, 1}
=============================================================================
