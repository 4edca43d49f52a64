---------------------------- MODULE MCMapRecords ----------------------------
(* What MapRecords.cfg runs. *)
EXTENDS MapRecords
=============================================================================
