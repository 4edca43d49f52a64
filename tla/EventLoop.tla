----------------------------- MODULE EventLoop -----------------------------
(***************************************************************************)
(* The task queue of a script_context: post() and post_sync() on any       *)
(* thread, run_event_loop() on the JS thread, and the owner's              *)
(* reset_runtime() and stop_event_loop_in_time() (script.cc, script.h,     *)
(* job_queue.cc, platform_thread.cc).  Every statement that another thread *)
(* can observe is a step of its own: the lock-free enqueue, the atomic     *)
(* counter, cv_mutex, the condition variable and shutdown_deadline.        *)
(***************************************************************************)
EXTENDS Integers, Sequences, FiniteSets, SequencesExt

CONSTANTS
  Posters,      \* threads that post and do nothing else (timer, executor threads)
  Owner,        \* the thread that calls reset_runtime and stop_event_loop_in_time
  JsThread,     \* the thread that runs run_event_loop
  NoThread,     \* nobody holds cv_mutex
  SyncPosters,  \* threads whose posts may be post_sync (they block for the result)
  MaxTasks,     \* bound: tasks posted in a behaviour
  MaxResets,    \* bound: calls of reset_runtime
  MaxStops,     \* bound: calls of stop_event_loop_in_time
  SIZE_MAX      \* largest value of task_queue_size, an unsigned size_t

Threads == Posters \cup {Owner, JsThread}

ASSUME ThreadsAssumption ==
  /\ IsFiniteSet(Posters)
  /\ Owner # JsThread
  /\ Owner \notin Posters /\ JsThread \notin Posters
  /\ NoThread \notin Threads
  /\ SyncPosters \subseteq Threads \ {JsThread}

\* Fewer than 2^64 tasks are ever posted, so equal counters mean equal counts.
ASSUME BoundsAssumption ==
  /\ MaxTasks \in Nat /\ MaxResets \in Nat /\ MaxStops \in Nat
  /\ SIZE_MAX \in Nat
  /\ MaxTasks <= SIZE_MAX

VARIABLES
  task_queue,        \* queued tasks, in the order they were enqueued
  task_queue_size,   \* std::atomic<size_t>, counted apart from the queue
  cv_mutex,          \* holder of cv_mutex, or NoThread
  shutdown_deadline, \* "none" | "armed" (set, not reached) | "passed"
  loopPc,            \* where the JS thread is in run_event_loop
  task,              \* the task the loop has dequeued, or NoTask
  postPc,            \* where each thread is in post / post_sync
  promise,           \* the promise of a thread's post_sync: "none", "unset", "set"
  ownerPc,           \* where the owner is in reset_runtime / stop_event_loop_in_time
  joinable,          \* js_thread->joinable()
  terminated,        \* std::terminate was called by a platform_thread
  posted,            \* number of tasks posted so far, the id of the latest
  ran,               \* history: tasks the loop called, in order
  dropped,           \* history: tasks dequeued and never called
  runtime,           \* number of the current runtime and context, 0 before the first
  resets, stops      \* calls made so far

queueVars == <<task_queue, task_queue_size, cv_mutex>>
loopVars  == <<loopPc, task, ran, dropped>>
postVars  == <<postPc, promise, posted>>
ownerVars == <<shutdown_deadline, ownerPc, joinable, terminated, runtime,
               resets, stops>>
vars      == <<queueVars, loopVars, postVars, ownerVars>>

\* rt is the runtime whose context the task captured when it was posted.
Task   == [id : 1..MaxTasks, by : Threads, sync : BOOLEAN, rt : 0..MaxResets]
NoTask == [id |-> 0, by |-> NoThread, sync |-> FALSE, rt |-> 0]

\* The histories of calls do not remember the runtime.
Past(x) == [x EXCEPT !.rt = 0]

LoopPcs  == {"none", "bind", "drain", "gate", "uncount", "run", "check",
             "lock", "pred", "sleep", "asleep", "woken", "exited"}
PostPcs  == {"idle", "count", "lock", "unlock", "notify", "wait"}
OwnerPcs == {"idle", "reset_notify", "reset_join", "spawn", "await_ready",
             "stop_notify", "stop_join"}

Init ==
  /\ task_queue = <<>>
  /\ task_queue_size = 0
  /\ cv_mutex = NoThread
  /\ shutdown_deadline = "none"
  /\ loopPc = "none"
  /\ task = NoTask
  /\ postPc = [t \in Threads |-> "idle"]
  /\ promise = [t \in Threads |-> "none"]
  /\ ownerPc = "idle"
  /\ joinable = FALSE
  /\ terminated = FALSE
  /\ posted = 0
  /\ ran = <<>>
  /\ dropped = <<>>
  /\ runtime = 0
  /\ resets = 0
  /\ stops = 0

(***************************************************************************)
(* Mutations: plausible bugs, each one replacing a definition below to     *)
(* show that a property depends on it.  The specification uses none.       *)
(***************************************************************************)
\* for FetchSub: a counter that goes below zero, or sticks at zero.
FetchSubSigned(n) == n - 1
FetchSubSaturating(n) == IF n = 0 THEN 0 ELSE n - 1

\* for LockToNotify: post() notifies without taking cv_mutex first.
NotifyUnlocked(t) ==
  /\ postPc[t] = "lock"
  /\ postPc' = [postPc EXCEPT ![t] = "notify"]
  /\ UNCHANGED <<queueVars, promise, posted, loopVars, ownerVars>>

\* for Drop: any deadline counts as passed, or a dropped task answers its caller.
DropBeforeDeadline ==
  /\ loopPc = "gate"
  /\ shutdown_deadline # "none"
  /\ dropped' = Append(dropped, Past(task))
  /\ task' = NoTask
  /\ loopPc' = "check"
  /\ UNCHANGED <<queueVars, postVars, ownerVars, ran>>

DropAnswers ==
  /\ loopPc = "gate"
  /\ shutdown_deadline = "passed"
  /\ dropped' = Append(dropped, Past(task))
  /\ promise' = IF task.sync THEN [promise EXCEPT ![task.by] = "set"] ELSE promise
  /\ task' = NoTask
  /\ loopPc' = "check"
  /\ UNCHANGED <<queueVars, postPc, posted, ownerVars, ran>>

\* for TaskReturns: a task that throws leaves its promise unset.
TaskThrows ==
  /\ loopPc = "run"
  /\ postPc[JsThread] = "idle"
  /\ task' = NoTask
  /\ loopPc' = "drain"
  /\ UNCHANGED <<queueVars, postVars, ownerVars, ran, dropped>>

\* for CheckDone: the deadline is not looked at.
CheckNothing ==
  /\ loopPc = "check"
  /\ loopPc' = "lock"
  /\ UNCHANGED <<queueVars, postVars, ownerVars, task, ran, dropped>>

\* for WakePredicate: off by one.
WakeOnSecondTask == task_queue_size > 1 \/ shutdown_deadline # "none"

\* for Join: the thread is detached instead of joined.
Detach ==
  /\ ownerPc \in {"reset_join", "stop_join"}
  /\ joinable' = FALSE
  /\ ownerPc' = IF ownerPc = "reset_join" THEN "spawn" ELSE "idle"
  /\ UNCHANGED <<queueVars, loopVars, postVars,
                 shutdown_deadline, terminated, runtime, resets, stops>>

(***************************************************************************)
(* Helpers: unsigned atomic arithmetic, the queue's streams, notification. *)
(***************************************************************************)
FetchAdd(n) == IF n = SIZE_MAX THEN 0 ELSE n + 1
FetchSub(n) == IF n = 0 THEN SIZE_MAX ELSE n - 1

\* moodycamel::ConcurrentQueue keeps one FIFO stream per producing thread and
\* dequeues from any of them: position i is the head of its producer's stream.
IsStreamHead(q, i) == \A j \in 1..(i - 1) : q[j].by # q[i].by

\* The JS thread is the only one that ever waits on task_queue_cv.
Notified(pc) == IF pc = "asleep" THEN "woken" ELSE pc

(***************************************************************************)
(* post(task), and post_sync(f), which posts and waits for the promise.    *)
(* The JS thread posts from inside a task or from bind() (JS_EnqueueJob);  *)
(* its post_sync calls f directly and posts nothing.                       *)
(***************************************************************************)
MayPost(t) ==
  /\ postPc[t] = "idle"
  /\ posted < MaxTasks
  /\ t = JsThread => loopPc \in {"bind", "run"}
  /\ t = Owner => ownerPc = "idle"

Enqueue(t) ==
  /\ MayPost(t)
  /\ \E sync \in (IF t \in SyncPosters THEN BOOLEAN ELSE {FALSE}) :
       /\ task_queue' = Append(task_queue,
            [id |-> posted + 1, by |-> t, sync |-> sync, rt |-> runtime])
       /\ promise' = [promise EXCEPT ![t] = IF sync THEN "unset" ELSE "none"]
  /\ posted' = posted + 1
  /\ postPc' = [postPc EXCEPT ![t] = "count"]
  /\ UNCHANGED <<task_queue_size, cv_mutex, loopVars, ownerVars>>

CountTask(t) ==
  /\ postPc[t] = "count"
  /\ task_queue_size' = FetchAdd(task_queue_size)
  /\ postPc' = [postPc EXCEPT ![t] = "lock"]
  /\ UNCHANGED <<task_queue, cv_mutex, promise, posted, loopVars, ownerVars>>

LockToNotify(t) ==
  /\ postPc[t] = "lock"
  /\ cv_mutex = NoThread
  /\ cv_mutex' = t
  /\ postPc' = [postPc EXCEPT ![t] = "unlock"]
  /\ UNCHANGED <<task_queue, task_queue_size, promise, posted, loopVars, ownerVars>>

UnlockToNotify(t) ==
  /\ postPc[t] = "unlock"
  /\ cv_mutex' = NoThread
  /\ postPc' = [postPc EXCEPT ![t] = "notify"]
  /\ UNCHANGED <<task_queue, task_queue_size, promise, posted, loopVars, ownerVars>>

NotifyOne(t) ==
  /\ postPc[t] = "notify"
  /\ loopPc' = Notified(loopPc)
  /\ postPc' = [postPc EXCEPT ![t] = IF promise[t] = "none" THEN "idle" ELSE "wait"]
  /\ UNCHANGED <<queueVars, promise, posted, task, ran, dropped, ownerVars>>

FutureGet(t) ==
  /\ postPc[t] = "wait"
  /\ promise[t] = "set"
  /\ promise' = [promise EXCEPT ![t] = "none"]
  /\ postPc' = [postPc EXCEPT ![t] = "idle"]
  /\ UNCHANGED <<queueVars, posted, loopVars, ownerVars>>

PostStep(t) ==
  \/ CountTask(t)
  \/ LockToNotify(t)
  \/ UnlockToNotify(t)
  \/ NotifyOne(t)
  \/ FutureGet(t)

(***************************************************************************)
(* run_event_loop() on the JS thread.                                      *)
(***************************************************************************)
\* The new thread binds the modules, then releases the owner (p_finished).
Bind ==
  /\ loopPc = "bind"
  /\ postPc[JsThread] = "idle"
  /\ loopPc' = "drain"
  /\ UNCHANGED <<queueVars, postVars, ownerVars, task, ran, dropped>>

Dequeue ==
  /\ loopPc = "drain"
  /\ \E i \in 1..Len(task_queue) :
       /\ IsStreamHead(task_queue, i)
       /\ task' = task_queue[i]
       /\ task_queue' = RemoveAt(task_queue, i)
  /\ loopPc' = "gate"
  /\ UNCHANGED <<task_queue_size, cv_mutex, postVars, ownerVars, ran, dropped>>

DequeueNone ==
  /\ loopPc = "drain"
  /\ task_queue = <<>>
  /\ loopPc' = "check"
  /\ UNCHANGED <<queueVars, postVars, ownerVars, task, ran, dropped>>

\* The second operand of the while condition, read after the dequeue.
Admit ==
  /\ loopPc = "gate"
  /\ shutdown_deadline # "passed"
  /\ loopPc' = "uncount"
  /\ UNCHANGED <<queueVars, postVars, ownerVars, task, ran, dropped>>

\* Past the deadline the dequeued task is destroyed; the counter keeps it.
Drop ==
  /\ loopPc = "gate"
  /\ shutdown_deadline = "passed"
  /\ dropped' = Append(dropped, Past(task))
  /\ task' = NoTask
  /\ loopPc' = "check"
  /\ UNCHANGED <<queueVars, postVars, ownerVars, ran>>

UncountAndCall ==
  /\ loopPc = "uncount"
  /\ task_queue_size' = FetchSub(task_queue_size)
  /\ ran' = Append(ran, Past(task))
  /\ loopPc' = "run"
  /\ UNCHANGED <<task_queue, cv_mutex, postVars, ownerVars, task, dropped>>

\* The task returns; a post_sync task sets its promise (value or exception).
TaskReturns ==
  /\ loopPc = "run"
  /\ postPc[JsThread] = "idle"
  /\ promise' = IF task.sync THEN [promise EXCEPT ![task.by] = "set"] ELSE promise
  /\ task' = NoTask
  /\ loopPc' = "drain"
  /\ UNCHANGED <<queueVars, postPc, posted, ownerVars, ran, dropped>>

CheckDone ==
  /\ loopPc = "check"
  /\ loopPc' = IF shutdown_deadline # "none" /\ task_queue_size = 0
               THEN "exited" ELSE "lock"
  /\ UNCHANGED <<queueVars, postVars, ownerVars, task, ran, dropped>>

LockToWait ==
  /\ loopPc \in {"lock", "woken"}
  /\ cv_mutex = NoThread
  /\ cv_mutex' = JsThread
  /\ loopPc' = "pred"
  /\ UNCHANGED <<task_queue, task_queue_size, postVars, ownerVars, task, ran, dropped>>

WakePredicate == task_queue_size > 0 \/ shutdown_deadline # "none"

PredicateTrue ==
  /\ loopPc = "pred"
  /\ WakePredicate
  /\ cv_mutex' = NoThread
  /\ loopPc' = "drain"
  /\ UNCHANGED <<task_queue, task_queue_size, postVars, ownerVars, task, ran, dropped>>

PredicateFalse ==
  /\ loopPc = "pred"
  /\ ~WakePredicate
  /\ loopPc' = "sleep"
  /\ UNCHANGED <<queueVars, postVars, ownerVars, task, ran, dropped>>

\* Entering the wait releases cv_mutex and blocks in one step.
Sleep ==
  /\ loopPc = "sleep"
  /\ cv_mutex' = NoThread
  /\ loopPc' = "asleep"
  /\ UNCHANGED <<task_queue, task_queue_size, postVars, ownerVars, task, ran, dropped>>

\* A condition variable may wake without a notification.
SpuriousWake ==
  /\ loopPc = "asleep"
  /\ loopPc' = "woken"
  /\ UNCHANGED <<queueVars, postVars, ownerVars, task, ran, dropped>>

LoopStep ==
  \/ Bind \/ Dequeue \/ DequeueNone \/ Admit \/ Drop \/ UncountAndCall
  \/ TaskReturns \/ CheckDone \/ LockToWait \/ PredicateTrue \/ PredicateFalse
  \/ Sleep

(***************************************************************************)
(* The owner: reset_runtime(), stop_event_loop_in_time(timeout) and the    *)
(* clock that its deadline is compared with.                               *)
(***************************************************************************)
OwnerFree == ownerPc = "idle" /\ postPc[Owner] = "idle"

\* now() < *shutdown_deadline is false from the moment it is set to now().
ResetBegin ==
  /\ OwnerFree
  /\ resets < MaxResets
  /\ resets' = resets + 1
  /\ shutdown_deadline' = "passed"
  /\ ownerPc' = "reset_notify"
  /\ UNCHANGED <<queueVars, loopVars, postVars, joinable, terminated, runtime, stops>>

StopBegin ==
  /\ OwnerFree
  /\ stops < MaxStops
  /\ stops' = stops + 1
  /\ shutdown_deadline' = "armed"
  /\ ownerPc' = "stop_notify"
  /\ UNCHANGED <<queueVars, loopVars, postVars, joinable, terminated, runtime, resets>>

\* notify_all, without cv_mutex.
NotifyAll ==
  /\ ownerPc \in {"reset_notify", "stop_notify"}
  /\ loopPc' = Notified(loopPc)
  /\ ownerPc' = IF ownerPc = "reset_notify" THEN "reset_join" ELSE "stop_join"
  /\ UNCHANGED <<queueVars, postVars, task, ran, dropped,
                 shutdown_deadline, joinable, terminated, runtime, resets, stops>>

Join ==
  /\ ownerPc \in {"reset_join", "stop_join"}
  /\ joinable => loopPc = "exited"
  /\ joinable' = FALSE
  /\ ownerPc' = IF ownerPc = "reset_join" THEN "spawn" ELSE "idle"
  /\ UNCHANGED <<queueVars, loopVars, postVars,
                 shutdown_deadline, terminated, runtime, resets, stops>>

\* Assigning over a joinable platform_thread terminates the process.
Spawn ==
  /\ ownerPc = "spawn"
  /\ shutdown_deadline' = "none"
  /\ terminated' = joinable
  /\ joinable' = TRUE
  /\ runtime' = runtime + 1
  /\ loopPc' = "bind"
  /\ ownerPc' = "await_ready"
  /\ UNCHANGED <<queueVars, postVars, task, ran, dropped, resets, stops>>

AwaitReady ==
  /\ ownerPc = "await_ready"
  /\ loopPc # "bind"
  /\ ownerPc' = "idle"
  /\ UNCHANGED <<queueVars, loopVars, postVars,
                 shutdown_deadline, joinable, terminated, runtime, resets, stops>>

DeadlinePasses ==
  /\ shutdown_deadline = "armed"
  /\ shutdown_deadline' = "passed"
  /\ UNCHANGED <<queueVars, loopVars, postVars,
                 ownerPc, joinable, terminated, runtime, resets, stops>>

OwnerStep == NotifyAll \/ Join \/ Spawn \/ AwaitReady

Next ==
  \/ \E t \in Threads : Enqueue(t) \/ PostStep(t)
  \/ LoopStep
  \/ SpuriousWake
  \/ ResetBegin \/ StopBegin \/ OwnerStep
  \/ DeadlinePasses

Spec == Init /\ [][Next]_vars

\* Threads are scheduled, tasks return and the clock advances; nobody is
\* obliged to post, to reset or to stop.
Fairness ==
  /\ \A t \in Threads : WF_vars(PostStep(t))
  /\ WF_vars(LoopStep)
  /\ WF_vars(OwnerStep)
  /\ WF_vars(DeadlinePasses)

FairSpec == Spec /\ Fairness
(***************************************************************************)
(* Properties.                                                             *)
(***************************************************************************)
TypeOK ==
  /\ task_queue \in Seq(Task)
  /\ task_queue_size \in 0..SIZE_MAX
  /\ cv_mutex \in Threads \cup {NoThread}
  /\ shutdown_deadline \in {"none", "armed", "passed"}
  /\ loopPc \in LoopPcs
  /\ task \in Task \cup {NoTask}
  /\ postPc \in [Threads -> PostPcs]
  /\ promise \in [Threads -> {"none", "unset", "set"}]
  /\ ownerPc \in OwnerPcs
  /\ joinable \in BOOLEAN
  /\ terminated \in BOOLEAN
  /\ posted \in 0..MaxTasks
  /\ ran \in Seq(Task)
  /\ dropped \in Seq(Task)
  /\ runtime \in 0..MaxResets
  /\ resets \in 0..MaxResets
  /\ stops \in 0..MaxStops

\* Threads between enqueue and fetch_add: their task may already be gone.
Uncounted == {t \in Threads : postPc[t] = "count"}

\* A dequeued task stays counted until the loop decides to call it.
Held == IF loopPc \in {"gate", "uncount"} THEN 1 ELSE 0

Outstanding ==
  Len(task_queue) + Held + Len(dropped) - Cardinality(Uncounted)

\* task_queue_size, kept apart from the lock-free queue, is at every moment the
\* number of tasks queued, held or dropped past the deadline, less the posts
\* not counted yet; when a task is called before its post counts it, the
\* unsigned counter wraps below zero and comes back.
CounterAgrees ==
  task_queue_size = IF Outstanding >= 0 THEN Outstanding
                    ELSE Outstanding + SIZE_MAX + 1

\* post() never loses a wake-up: while the JS thread is blocked in the wait and
\* a task is queued, some thread has still to notify it.
NoLostWakeup ==
  loopPc = "asleep" /\ task_queue # <<>> =>
    \E t \in Threads : postPc[t] \in {"count", "lock", "unlock", "notify"}

\* A caller of post_sync that has not been answered has its task in the queue,
\* in the loop's hands or among the dropped ones, and the answer it gets is
\* that of the last task it posted.
SyncAnswerIsOwn ==
  \A t \in Threads :
    /\ promise[t] = "unset" =>
         \E x \in Range(task_queue) \cup {task} \cup Range(dropped) :
            x.by = t /\ x.sync
    /\ promise[t] = "set" =>
         \E x \in Range(ran) :
            /\ x.by = t /\ x.sync
            /\ \A y \in Range(ran) \cup Range(task_queue) \cup Range(dropped) :
                  y.by = t => y.id <= x.id

\* reset_runtime never assigns a platform_thread over a joinable one (which
\* calls std::terminate) and a JS thread is never left running unowned.
ThreadOwned ==
  /\ ~terminated
  /\ loopPc \notin {"none", "exited"} => joinable

AsService(x) == [id |-> x.id, by |-> x.by]

\* The event loop keeps the promise of TaskService: post, the drain loop, the
\* deadline and a reload between two runtimes together call each task at most
\* once, in the posting thread's order, and drop one only past a deadline.
Service == INSTANCE TaskService WITH
  accepted  <- posted,
  waiting   <- {AsService(x) : x \in Range(task_queue) \cup
                  (IF loopPc \in {"gate", "uncount"} THEN {task} ELSE {})},
  called    <- [i \in DOMAIN ran |-> AsService(ran[i])],
  discarded <- [i \in DOMAIN dropped |-> AsService(dropped[i])],
  closed    <- shutdown_deadline = "passed"

ImplementsTaskService == Service!ServiceSpec

\* A second runtime was asked for, or the end.
ShutDown == resets > 1 \/ stops > 0

\* While nobody shuts the loop down, every task that was posted is called, in
\* whatever order post's steps and the loop's going to sleep interleave.
EveryTaskCalled ==
  \A n \in 1..MaxTasks :
    posted >= n /\ resets > 0 ~> ShutDown \/ \E i \in DOMAIN ran : ran[i].id = n

\* While nobody shuts the loop down, every post_sync call returns.
SyncCallsReturn ==
  \A t \in Threads :
    postPc[t] = "wait" /\ resets > 0 ~> ShutDown \/ postPc[t] = "idle"

\* The owner's join returns, except in two cases: a task was dropped past the
\* deadline, or the JS thread was already committed to waiting when notify_all
\* was called.
JoinReturns ==
  ownerPc \in {"reset_join", "stop_join"} ~>
    \/ ownerPc \notin {"reset_join", "stop_join"}
    \/ dropped # <<>>
    \/ loopPc = "asleep"

\* What the comment in post() warns of must not happen to the stop signal
\* either: once notify_all has been called the JS thread is not blocked.
StopSignalSeen ==
  ~(ownerPc \in {"reset_join", "stop_join"} /\ loopPc = "asleep")

\* quickjspp.hpp on Value: "if ctx_holder is expired, do not free v".  A task
\* captures the context it was posted for, so it must not be called by the loop
\* of a later runtime, when that context has been freed.
NeverCalledStale ==
  [][Len(ran') > Len(ran) => task.rt \in {0, runtime}]_vars

\* run_event_loop's comment: "If a shutdown deadline is set and the queue is
\* now empty, we're done".
DrainedMeansDone ==
  [][loopPc = "check" /\ loopPc' = "lock" /\ shutdown_deadline # "none"
       => task_queue # <<>> \/ Uncounted # {}]_vars
=============================================================================
