------------------------------ MODULE MCUpdater ------------------------------
(* Updater for TLC: the configurations only choose the constants. *)
EXTENDS Updater
=============================================================================
