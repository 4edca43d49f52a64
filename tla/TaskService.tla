---------------------------- MODULE TaskService ----------------------------
(***************************************************************************)
(* What script_context promises whoever posts a task, without threads,     *)
(* counters, locks or wake-ups: a task is called at most once, the tasks   *)
(* of one thread are called in the order it posted them, and a task is     *)
(* discarded only while a shutdown deadline has passed.                    *)
(***************************************************************************)
EXTENDS Naturals, Sequences

CONSTANTS Threads, MaxTasks

VARIABLES
  accepted,   \* number of tasks accepted, the id of the latest
  waiting,    \* set of tasks accepted and not yet taken
  called,     \* tasks called, in order
  discarded,  \* tasks given up, in order
  closed      \* the shutdown deadline has passed

serviceVars == <<accepted, waiting, called, discarded, closed>>

ServiceInit ==
  /\ accepted = 0
  /\ waiting = {}
  /\ called = <<>>
  /\ discarded = <<>>
  /\ closed = FALSE

\* No task of the same thread has been waiting longer.
Oldest(x) == \A y \in waiting : y.by = x.by => x.id <= y.id

Accept ==
  /\ accepted < MaxTasks
  /\ \E t \in Threads : waiting' = waiting \cup {[id |-> accepted + 1, by |-> t]}
  /\ accepted' = accepted + 1
  /\ UNCHANGED <<called, discarded, closed>>

Call ==
  /\ \E x \in waiting :
       /\ Oldest(x)
       /\ waiting' = waiting \ {x}
       /\ called' = Append(called, x)
  /\ UNCHANGED <<accepted, discarded, closed>>

Discard ==
  /\ closed
  /\ \E x \in waiting :
       /\ Oldest(x)
       /\ waiting' = waiting \ {x}
       /\ discarded' = Append(discarded, x)
  /\ UNCHANGED <<accepted, called, closed>>

OpenOrClose ==
  /\ closed' = ~closed
  /\ UNCHANGED <<accepted, waiting, called, discarded>>

ServiceNext == Accept \/ Call \/ Discard \/ OpenOrClose

ServiceSpec == ServiceInit /\ [][ServiceNext]_serviceVars
=============================================================================
