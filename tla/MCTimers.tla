------------------------------ MODULE MCTimers ------------------------------
(* Model-checking instances of Timers.                                     *)
EXTENDS Timers
=============================================================================
