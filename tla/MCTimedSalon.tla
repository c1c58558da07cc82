---------------------------- MODULE MCTimedSalon ----------------------------
(* The timed salon on small instances for TLC: see the .cfg files. *)
EXTENDS TimedSalon
=============================================================================
