---------------------------- MODULE MCSpeedTest ----------------------------
(* SpeedTest for TLC: the configurations give the constants their values. *)
EXTENDS SpeedTest
=============================================================================
