---------------------------- MODULE MCResultStore ----------------------------
(* ResultStore for TLC: the configurations give the constants their values. *)
EXTENDS ResultStore
=============================================================================
