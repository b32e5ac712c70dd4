------------------------------- MODULE MCUgv01 -------------------------------
(* The rig for TLC. *)
EXTENDS Ugv01Rig

EveryMishap == {"slow", "frame lost", "line lost", "port", "jam", "signal", "hang"}
SlowAndLossy == {"slow", "frame lost"}
SlowAndJammed == {"slow", "jam"}
==============================================================================
