---------------------------- MODULE MCAsyncBridge ----------------------------
(* Model-checking instances of AsyncBridge.                                *)
EXTENDS AsyncBridge
=============================================================================
