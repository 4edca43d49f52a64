------------------------------- MODULE Timers -------------------------------
(***************************************************************************)
(* setTimeout, setInterval and clearTimeout of infra.cc, called by scripts *)
(* on the JS thread, and the one detached timer thread that polls the      *)
(* global list every sleep_time and calls back into the JS thread.  The    *)
(* list has no lock: the JS thread may change it between two elements of   *)
(* the timer thread's scan and of its std::remove_if, and before the       *)
(* erase that follows.  reset_runtime sets a deadline at any time, past    *)
(* which the event loop drops a callback that was posted to it.            *)
(***************************************************************************)
EXTENDS Integers, Sequences, FiniteSets, SequencesExt

CONSTANTS
  Delays,      \* delays that scripts ask for
  sleep_time,  \* period of the timer thread
  MaxTimers,   \* bound: timers set in a behaviour
  MaxReloads,  \* bound: reloads, each of which replaces the JS context
  INT_MAX      \* largest int; delay and elapsed are ints

\* elapsed stays below the delay between two scans, so a delay of at most
\* INT_MAX - sleep_time + 1 keeps the addition in the scan from overflowing.
ASSUME TimerConstants ==
  /\ INT_MAX \in Nat /\ sleep_time \in 1..INT_MAX
  /\ Delays \subseteq 0..(INT_MAX - sleep_time + 1)
  /\ MaxTimers \in Nat /\ MaxReloads \in Nat

VARIABLES
  timers,    \* the list; a node whose unique_ptr was reset has null = TRUE
  timerPc,   \* "none", "sleep", "scan", "remove", "erase", "call", "wait"
  cursor,    \* number of nodes that the scan, or remove_if, has passed
  kept,      \* number of nodes before the one remove_if writes to next
  dangling,  \* the node under that iterator was erased by the JS thread
  callbacks, \* callbacks collected by the scan and not called yet
  inbox,     \* callback posted to the JS thread, on which the timer thread waits
  slept,     \* how long the timer thread has slept
  crashed,   \* the scan used a freed node and the process died
  loop,      \* of ctx: "runs", "closing": the deadline is set, "ended": joined,
             \* "stuck": it dropped a task, which stays counted
  ctx,       \* number of the live context
  made,      \* number of timers set so far; timer n is the n-th one
  handle,    \* of each timer: the id the script got, its kind and its context
  erased,    \* history: timers that a clearTimeout removed
  swept,     \* history: armed timers that the timer thread's erase removed
  calls      \* history: how often each callback ran

listVars  == <<timers, cursor, kept, dangling, swept>>
timerVars == <<timerPc, callbacks, slept, crashed>>
loopVars  == <<loop, ctx>>
histVars  == <<made, handle, erased, calls>>
vars == <<listVars, timerVars, inbox, loopVars, histVars>>

Insts  == 1..MaxTimers
None   == 0
\* age is history: time since the timer was set or last collected, counted
\* up to the delay.
Timer  == [inst : Insts, id : 1..(MaxTimers + 1), delay : Delays,
           elapsed : 0..INT_MAX, repeat : BOOLEAN, ctx : 1..(MaxReloads + 1),
           null : BOOLEAN, age : 0..INT_MAX]
Callback == [inst : Insts, ctx : 1..(MaxReloads + 1)]

Init ==
  /\ timers = <<>> /\ cursor = 0 /\ kept = 0 /\ dangling = FALSE
  /\ timerPc = "none" /\ callbacks = <<>> /\ inbox = None
  /\ slept = 0 /\ crashed = FALSE
  /\ loop = "runs" /\ ctx = 1
  /\ made = 0
  /\ handle = [n \in Insts |-> [id |-> 0, repeat |-> FALSE, ctx |-> 1]]
  /\ erased = {} /\ swept = {}
  /\ calls = [n \in Insts |-> 0]

\* int addition: past INT_MAX it wraps on the builds in use.
IntAdd(a, b) == IF a + b > INT_MAX THEN a + b - 2 * INT_MAX - 2 ELSE a + b

\* History: calls of an interval are counted up to 1, of a timeout up to 2.
Counted(n) == IF calls[n] = 2 \/ (calls[n] = 1 /\ handle[n].repeat) THEN calls[n]
              ELSE calls[n] + 1

(***************************************************************************)
(* Mutations: plausible bugs, each one replacing a definition below to     *)
(* show that a property depends on it.  The specification uses none.       *)
(***************************************************************************)
\* for RunCallback: the promise that the timer thread waits on is never set.
CallbackNeverAnswers ==
  /\ ~crashed
  /\ loop = "runs" /\ inbox # None
  /\ crashed' \in IF handle[inbox].ctx = ctx THEN {FALSE} ELSE BOOLEAN
  /\ calls' = [calls EXCEPT ![inbox] = Counted(inbox)]
  /\ inbox' = None
  /\ UNCHANGED <<listVars, timerPc, callbacks, slept, loopVars, made, handle, erased>>

\* for Due: a timer due by the next scan is called in this one.
DueAhead(t) == t.elapsed + 2 * sleep_time >= t.delay

\* for Visited: a timeout is not reset, or the context is not looked at.
VisitedKeepsTimeout(t) ==
  IF t.null \/ t.ctx # ctx
  THEN [t EXCEPT !.null = TRUE]
  ELSE [t EXCEPT !.elapsed = IF @ + sleep_time >= t.delay THEN 0 ELSE @ + sleep_time]

VisitedIgnoresContext(t) ==
  IF t.elapsed + sleep_time >= t.delay
  THEN [t EXCEPT !.elapsed = 0, !.null = ~t.repeat, !.age = 0]
  ELSE [t EXCEPT !.elapsed = @ + sleep_time]

(***************************************************************************)
(* Scripts, on the JS thread.                                              *)
(***************************************************************************)
\* A task of the JS thread may be under way.
ScriptRuns == ~crashed /\ loop \in {"runs", "closing"}

\* ensure_timer_thread, then push_back with id = timers.size() + 1.
SetTimer(delay, repeat) ==
  /\ ScriptRuns
  /\ made < MaxTimers
  /\ timers' = Append(timers,
       [inst |-> made + 1, id |-> Len(timers) + 1, delay |-> delay, elapsed |-> 0,
        repeat |-> repeat, ctx |-> ctx, null |-> FALSE, age |-> 0])
  /\ made' = made + 1
  /\ handle' = [handle EXCEPT ![made + 1] =
                  [id |-> Len(timers) + 1, repeat |-> repeat, ctx |-> ctx]]
  /\ timerPc' = IF timerPc = "none" THEN "sleep" ELSE timerPc
  /\ UNCHANGED <<cursor, kept, dangling, swept, callbacks, inbox, slept, crashed,
                 loopVars, erased, calls>>

setTimeout(delay) == SetTimer(delay, FALSE)
setInterval(delay) == SetTimer(delay, TRUE)

\* Positions of the nodes that find_if accepts.
Matches(id) == {i \in DOMAIN timers : ~timers[i].null /\ timers[i].id = id}

EraseAt(i) ==
  /\ timers' = RemoveAt(timers, i)
  /\ erased' = erased \cup {timers[i].inst}
  /\ cursor' = IF i <= cursor THEN cursor - 1 ELSE cursor
  /\ kept' = IF i <= kept THEN kept - 1 ELSE kept
  /\ dangling' = (dangling \/ (timerPc \in {"scan", "remove"} /\ i = cursor))
  /\ UNCHANGED swept

\* clearInterval(id) is clearTimeout(id).
clearTimeout(n) ==
  /\ ScriptRuns
  /\ n <= made
  /\ \/ /\ Matches(handle[n].id) = {}
        /\ UNCHANGED <<listVars, erased>>
     \/ \E i \in Matches(handle[n].id) :
          /\ \A j \in Matches(handle[n].id) : i <= j
          /\ EraseAt(i)
  /\ UNCHANGED <<timerVars, inbox, loopVars, made, handle, calls>>

(***************************************************************************)
(* The event loop, as far as timers depend on it.                          *)
(***************************************************************************)
\* The JS thread runs the posted callback and releases the timer thread. One
\* that was posted to the context before uses a freed context: what it finds
\* is intact, or the process dies.
RunCallback ==
  /\ ~crashed
  /\ loop = "runs" /\ inbox # None
  /\ crashed' \in IF handle[inbox].ctx = ctx THEN {FALSE} ELSE BOOLEAN
  /\ calls' = [calls EXCEPT ![inbox] = Counted(inbox)]
  /\ inbox' = None
  /\ timerPc' = "call"
  /\ UNCHANGED <<listVars, callbacks, slept, loopVars, made, handle, erased>>

\* reset_runtime sets the deadline, whatever the loop and the timer thread do.
Reset ==
  /\ ~crashed
  /\ loop = "runs" /\ ctx <= MaxReloads
  /\ loop' = "closing"
  /\ UNCHANGED <<listVars, timerVars, inbox, ctx, histVars>>

\* Past the deadline the loop takes the callback off its queue and drops it.
\* Nobody sets the promise on which the timer thread waits, and the task stays
\* counted: the loop never ends and reset_runtime never returns from join.
DropCallback ==
  /\ ~crashed
  /\ loop = "closing" /\ inbox # None
  /\ inbox' = None
  /\ loop' = "stuck"
  /\ UNCHANGED <<listVars, timerVars, ctx, histVars>>

LoopEnds ==
  /\ ~crashed
  /\ loop = "closing" /\ inbox = None
  /\ loop' = "ended"
  /\ UNCHANGED <<listVars, timerVars, inbox, ctx, histVars>>

\* The rest of reset_runtime: the old context expires. What was posted after
\* the old loop had ended is in the queue of the new one.
NewRuntime ==
  /\ ~crashed
  /\ loop = "ended"
  /\ loop' = "runs" /\ ctx' = ctx + 1
  /\ UNCHANGED <<listVars, timerVars, inbox, histVars>>

LoopStep == RunCallback \/ DropCallback \/ LoopEnds \/ NewRuntime

(***************************************************************************)
(* timer_thread_func.                                                      *)
(***************************************************************************)
WakeUp ==
  /\ ~crashed
  /\ timerPc = "sleep"
  /\ slept >= sleep_time
  /\ timerPc' = "scan"
  /\ cursor' = 0
  /\ UNCHANGED <<timers, kept, dangling, swept, callbacks, slept, crashed, inbox,
                 loopVars, histVars>>

Due(t) == IntAdd(t.elapsed, sleep_time) >= t.delay

\* What the scan makes of one node.
Visited(t) ==
  IF t.null \/ t.ctx # ctx
  THEN [t EXCEPT !.null = TRUE]
  ELSE IF Due(t)
       THEN [t EXCEPT !.elapsed = 0, !.null = ~t.repeat, !.age = 0]
       ELSE [t EXCEPT !.elapsed = IntAdd(t.elapsed, sleep_time)]

Collects(t) == ~t.null /\ t.ctx = ctx /\ Due(t)

ScanNext ==
  /\ ~crashed
  /\ timerPc = "scan" /\ ~dangling
  /\ cursor < Len(timers)
  /\ LET t == timers[cursor + 1] IN
       /\ timers' = [timers EXCEPT ![cursor + 1] = Visited(t)]
       /\ callbacks' = IF Collects(t)
                       THEN Append(callbacks, [inst |-> t.inst, ctx |-> t.ctx])
                       ELSE callbacks
  /\ cursor' = cursor + 1
  /\ UNCHANGED <<kept, dangling, swept, timerPc, slept, crashed, inbox, loopVars, histVars>>

\* The iterator of the scan, or of remove_if, stands on a freed node: its memory
\* is intact and leads to the next node, or it is not and the process dies.
FreedNode ==
  /\ ~crashed
  /\ timerPc \in {"scan", "remove"} /\ dangling
  /\ dangling' = FALSE
  /\ crashed' \in BOOLEAN
  /\ UNCHANGED <<timers, cursor, kept, swept, timerPc, callbacks, slept, inbox,
                 loopVars, histVars>>

ScanDone ==
  /\ ~crashed
  /\ timerPc = "scan" /\ ~dangling
  /\ cursor = Len(timers)
  /\ timerPc' = "remove"
  /\ cursor' = 0 /\ kept' = 0
  /\ UNCHANGED <<timers, dangling, swept, callbacks, slept, crashed, inbox, loopVars, histVars>>

\* std::remove_if moves a pointer that is not null to the place it writes to
\* next and leaves a null behind.
RemoveNext ==
  /\ ~crashed
  /\ timerPc = "remove" /\ ~dangling
  /\ cursor < Len(timers)
  /\ IF timers[cursor + 1].null
     THEN UNCHANGED <<timers, kept>>
     ELSE /\ timers' = [timers EXCEPT ![kept + 1] = timers[cursor + 1],
                                    ![cursor + 1] = timers[kept + 1]]
          /\ kept' = kept + 1
  /\ cursor' = cursor + 1
  /\ UNCHANGED <<dangling, swept, timerPc, callbacks, slept, crashed, inbox, loopVars, histVars>>

\* What it returns is the end of the list when there was no null.
RemoveDone ==
  /\ ~crashed
  /\ timerPc = "remove" /\ ~dangling
  /\ cursor = Len(timers)
  /\ timerPc' = IF kept = Len(timers) THEN "call" ELSE "erase"
  /\ UNCHANGED <<listVars, callbacks, slept, crashed, inbox, loopVars, histVars>>

\* erase(it, timers.end()), where the end is wherever the list ends by now.
EraseNulls ==
  /\ ~crashed
  /\ timerPc = "erase"
  /\ timers' = SubSeq(timers, 1, kept)
  /\ swept' = swept \cup {timers[i].inst : i \in {j \in (kept + 1)..Len(timers) : ~timers[j].null}}
  /\ cursor' = kept
  /\ timerPc' = "call"
  /\ UNCHANGED <<kept, dangling, callbacks, slept, crashed, inbox, loopVars, histVars>>

\* The callback throws when its context is gone, and is otherwise posted to
\* the JS thread; the timer thread waits for it.
CallNext ==
  /\ ~crashed
  /\ timerPc = "call" /\ callbacks # <<>>
  /\ callbacks' = Tail(callbacks)
  /\ \/ /\ Head(callbacks).ctx # ctx
        /\ UNCHANGED <<inbox, timerPc>>
     \/ /\ Head(callbacks).ctx = ctx
        /\ inbox' = Head(callbacks).inst
        /\ timerPc' = "wait"
  /\ UNCHANGED <<listVars, slept, crashed, loopVars, histVars>>

CallsDone ==
  /\ ~crashed
  /\ timerPc = "call" /\ callbacks = <<>>
  /\ timerPc' = "sleep"
  /\ slept' = 0
  /\ UNCHANGED <<listVars, callbacks, crashed, inbox, loopVars, histVars>>

TimerStep ==
  \/ WakeUp
  \/ ScanNext \/ ScanDone \/ FreedNode
  \/ RemoveNext \/ RemoveDone \/ EraseNulls
  \/ CallNext \/ CallsDone

\* Time passes for every timer and for the sleeping thread.
Older(t) == IF t.age < t.delay THEN [t EXCEPT !.age = @ + 1] ELSE t

PassTime ==
  /\ ~crashed
  /\ timers' = [i \in DOMAIN timers |-> Older(timers[i])]
  /\ slept' = IF timerPc = "sleep" /\ slept < sleep_time THEN slept + 1 ELSE slept
  /\ UNCHANGED <<cursor, kept, dangling, swept, timerPc, callbacks, crashed, inbox,
                 loopVars, histVars>>

Next ==
  \/ \E d \in Delays : setTimeout(d) \/ setInterval(d)
  \/ \E n \in Insts : clearTimeout(n)
  \/ Reset \/ LoopStep \/ TimerStep \/ PassTime

Spec == Init /\ [][Next]_vars

\* The threads are scheduled and time passes; scripts need not set or clear
\* anything, and nobody has to reload.
FairSpec ==
  Spec /\ WF_vars(TimerStep) /\ WF_vars(LoopStep) /\ WF_vars(PassTime)

(***************************************************************************)
(* Properties.                                                             *)
(***************************************************************************)
TypeOK ==
  /\ timers \in Seq(Timer)
  /\ timerPc \in {"none", "sleep", "scan", "remove", "erase", "call", "wait"}
  /\ cursor \in 0..Len(timers) /\ kept \in 0..Len(timers)
  /\ dangling \in BOOLEAN /\ crashed \in BOOLEAN
  /\ callbacks \in Seq(Callback)
  /\ inbox \in Insts \cup {None}
  /\ slept \in 0..sleep_time
  /\ loop \in {"runs", "closing", "ended", "stuck"}
  /\ ctx \in 1..(MaxReloads + 1)
  /\ made \in 0..MaxTimers
  /\ handle \in [Insts -> [id : 0..(MaxTimers + 1), repeat : BOOLEAN,
                          ctx : 1..(MaxReloads + 1)]]
  /\ erased \subseteq Insts /\ swept \subseteq Insts
  /\ calls \in [Insts -> 0..2]

Live(n)      == {i \in DOMAIN timers : timers[i].inst = n /\ ~timers[i].null}
Collected(n) == {i \in DOMAIN callbacks : callbacks[i].inst = n}

\* A timer exists once: it is in the list at one node at most, and when it is a
\* timeout it is either still armed, or collected, or posted, or was called,
\* never two of these, although nodes are reset, compacted and erased by two
\* threads while callbacks are under way.
FiresOnce ==
  \A n \in Insts :
    /\ Cardinality(Live(n)) <= 1
    /\ ~handle[n].repeat =>
         Cardinality(Live(n)) + Cardinality(Collected(n))
           + (IF inbox = n THEN 1 ELSE 0) + calls[n] <= 1

\* A timer is never collected more than one period of the timer thread before
\* its delay has elapsed, although it may be set in the middle of a sleep or of
\* a scan.
NotTooEarly ==
  [][\A i \in DOMAIN timers :
       i = cursor + 1 /\ Len(callbacks') > Len(callbacks)
         => timers[i].age >= timers[i].delay - sleep_time]_vars

\* A timer that no clearTimeout removed is called, unless its context goes or
\* memory that was freed brings the process down. It may be set in the middle of
\* any round of the timer thread but one moment: between remove_if and the erase,
\* of which NoneSwept speaks.
EveryTimerFires ==
  \A n \in Insts :
    made >= n ~> \/ calls[n] > 0 \/ n \in erased \cup swept
                 \/ crashed \/ handle[n].ctx < ctx \/ loop # "runs"

\* After a reload every timer of the old context leaves the list, wherever the
\* timer thread was when the context went, and what it posted to the old one is
\* answered by the new one. A later reset may drop that callback: then the
\* timer thread waits for ever, of which ResetReturns speaks.
StaleTimersLeave ==
  \A n \in Insts :
    (\E i \in DOMAIN timers : timers[i].inst = n /\ timers[i].ctx < ctx)
      ~> crashed \/ loop = "stuck" \/ \A i \in DOMAIN timers : timers[i].inst # n

\* The two cases excepted above, in which the code has no answer.
NoneSwept    == swept = {}
ResetReturns == loop = "closing" ~> loop = "ended" \/ crashed

\* tests/js/tests/infra.ts, "should not execute callback if cleared": clearing
\* the handle that a script got for a timer disarms that timer.
ClearedIsDisarmed == [][\A n \in Insts : clearTimeout(n) => Live(n)' = {}]_vars
=============================================================================
