---------------------------- MODULE MCHistoryPanel ----------------------------
(* HistoryPanel for TLC: the configurations give the constants their values. *)
EXTENDS HistoryPanel
=============================================================================
