------------------------------ MODULE MCWatcher ------------------------------
(* Model-checking instances of Watcher.                                    *)
EXTENDS Watcher
==============================================================================
