---------------------------- MODULE MCClockSteps ----------------------------
(***************************************************************************)
(* ClockSteps with the instances of MCDaemon.                              *)
(***************************************************************************)
EXTENDS MCDaemon, ClockSteps
=============================================================================
