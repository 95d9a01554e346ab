---------------------------- MODULE MCTestRun ----------------------------
(* TestRun for TLC: the configurations give the constants their values. *)
EXTENDS TestRun
=============================================================================
