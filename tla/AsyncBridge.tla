---------------------------- MODULE AsyncBridge ----------------------------
(***************************************************************************)
(* How a C++ coroutine becomes a JS promise and back (quickjspp.hpp):      *)
(* js_traits<Lazy<T>>::wrap starts the coroutine on the executor and posts *)
(* a task that settles the promise; Value::await, called from a C++        *)
(* thread, posts a task that polls a promise until it is settled.  The     *)
(* event loop under it is abstracted to what EventLoop shows of it: tasks  *)
(* of one thread are called in order and once; past a shutdown deadline    *)
(* they are dropped and stay counted; a post enqueues, then counts.        *)
(***************************************************************************)
EXTENDS Integers, Sequences, FiniteSets, SequencesExt

CONSTANTS
  Calls,       \* coroutines that scripts start, each on an executor thread
  Awaiters,    \* C++ threads that call Value::await, once each
  JsThread,
  Plain,       \* an awaited value that is no promise
  MaxReloads   \* bound: calls of reset_runtime after the first

ASSUME BridgeConstants ==
  /\ IsFiniteSet(Calls) /\ IsFiniteSet(Awaiters)
  /\ Calls \cap Awaiters = {}
  /\ JsThread \notin Calls \cup Awaiters
  /\ Plain \notin Calls
  /\ MaxReloads \in Nat

VARIABLES
  tasks,     \* the task queue
  uncounted, \* threads between enqueue and fetch_add
  lost,      \* number of tasks dropped past a deadline
  closing,   \* "no", "reload" (deadline is now), "stop" (deadline ahead),
             \* "late" (the stop's deadline has passed), "exited"
  ctx,       \* number of the context that js points to
  lazy,      \* each coroutine: "none", "running", "locked", "count", "over", "orphan"
  lazyCtx,   \* the context that each coroutine was wrapped in
  outcome,   \* what each coroutine came to: "none", "value", "error"
  promise,   \* its JS promise: "none", "pending", "fulfilled", "rejected"
  held,      \* references to its resolving functions that C++ owns
  awaitPc,   \* "idle", "count", "blocked", "returned", "threw"
  target,    \* what each awaiter awaits
  awaitCtx,  \* the context it awaits in
  answer,    \* SharedState: "none", "result", "error"
  captured,  \* references to the awaited value that the polls own
  corrupt    \* a task used a context whose runtime had been freed

queueVars == <<tasks, uncounted, lost>>
lazyVars  == <<lazy, lazyCtx, outcome, promise, held>>
awaitVars == <<awaitPc, target, awaitCtx, answer, captured>>
vars == <<queueVars, closing, ctx, lazyVars, awaitVars, corrupt>>

Contexts == 1..(MaxReloads + 1)
Threads  == Calls \cup Awaiters \cup {JsThread}
Task     == [by : Threads, kind : {"settle", "await", "poll"}, of : Calls \cup Awaiters]

Init ==
  /\ tasks = <<>> /\ uncounted = {} /\ lost = 0
  /\ closing = "no" /\ ctx = 1
  /\ lazy = [c \in Calls |-> "none"]
  /\ lazyCtx = [c \in Calls |-> 1]
  /\ outcome = [c \in Calls |-> "none"]
  /\ promise = [c \in Calls |-> "none"]
  /\ held = [c \in Calls |-> 0]
  /\ awaitPc = [a \in Awaiters |-> "idle"]
  /\ target = [a \in Awaiters |-> Plain]
  /\ awaitCtx = [a \in Awaiters |-> 1]
  /\ answer = [a \in Awaiters |-> "none"]
  /\ captured = [a \in Awaiters |-> 0]
  /\ corrupt = FALSE

(***************************************************************************)
(* Mutations: plausible bugs, each one replacing a definition below to     *)
(* show that a property depends on it.  The specification uses none.       *)
(***************************************************************************)
\* for LazyFinishes: the callback returns early when the coroutine threw.
FinishDropsErrors(c) ==
  /\ ~corrupt
  /\ lazy[c] = "running"
  /\ \E o \in {"value", "error"} :
       /\ outcome' = [outcome EXCEPT ![c] = o]
       /\ lazy' = [lazy EXCEPT ![c] = IF o = "error" THEN "orphan" ELSE "locked"]
  /\ UNCHANGED <<queueVars, closing, ctx, lazyCtx, promise, held, awaitVars, corrupt>>

\* for Settle: the rejection path returns before the references are freed.
SettleLeaks(c) ==
  /\ corrupt' = (lazyCtx[c] # ctx)
  /\ promise' = [promise EXCEPT ![c] =
                   IF outcome[c] = "error" THEN "rejected" ELSE "fulfilled"]
  /\ held' = [held EXCEPT ![c] = IF outcome[c] = "error" THEN @ ELSE 0]
  /\ UNCHANGED <<closing, ctx, uncounted, lost, lazy, lazyCtx, outcome, awaitVars>>

\* for PollState: a rejected promise is reported by its result as well.
PollIgnoresRejection(a) ==
  IF target[a] = Plain \/ promise[target[a]] = "rejected" THEN "plain"
  ELSE promise[target[a]]

\* for PollState: a value that is no promise is polled for ever.
PollWantsPromise(a) ==
  IF target[a] = Plain THEN "pending" ELSE promise[target[a]]

(***************************************************************************)
(* Helpers.                                                                *)
(***************************************************************************)
\* weak.expired() for the n-th context: js points to another one and no
\* coroutine callback holds the shared_ptr that it locked.
Expired(n) ==
  ctx # n /\ ~\E c \in Calls : lazy[c] \in {"locked", "count"} /\ lazyCtx[c] = n

LoopRuns == closing # "exited" /\ ~corrupt

(***************************************************************************)
(* js_traits<Lazy<T>>::wrap.                                               *)
(***************************************************************************)
\* A script calls an async function: two references for the callback.
Wrap(c) ==
  /\ LoopRuns
  /\ lazy[c] = "none"
  /\ lazy' = [lazy EXCEPT ![c] = "running"]
  /\ lazyCtx' = [lazyCtx EXCEPT ![c] = ctx]
  /\ promise' = [promise EXCEPT ![c] = "pending"]
  /\ held' = [held EXCEPT ![c] = 2]
  /\ UNCHANGED <<queueVars, closing, ctx, outcome, awaitVars, corrupt>>

\* The coroutine returns or throws on its executor thread, and its callback
\* locks the context; without one it leaves the references alone.
LazyFinishes(c) ==
  /\ ~corrupt
  /\ lazy[c] = "running"
  /\ \E o \in {"value", "error"} : outcome' = [outcome EXCEPT ![c] = o]
  /\ lazy' = [lazy EXCEPT ![c] = IF Expired(lazyCtx[c]) THEN "orphan" ELSE "locked"]
  /\ UNCHANGED <<queueVars, closing, ctx, lazyCtx, promise, held, awaitVars, corrupt>>

PostSettle(c) ==
  /\ ~corrupt
  /\ lazy[c] = "locked"
  /\ tasks' = Append(tasks, [by |-> c, kind |-> "settle", of |-> c])
  /\ uncounted' = uncounted \cup {c}
  /\ lazy' = [lazy EXCEPT ![c] = "count"]
  /\ UNCHANGED <<lost, closing, ctx, lazyCtx, outcome, promise, held, awaitVars, corrupt>>

CountSettle(c) ==
  /\ ~corrupt
  /\ lazy[c] = "count"
  /\ uncounted' = uncounted \ {c}
  /\ lazy' = [lazy EXCEPT ![c] = "over"]
  /\ UNCHANGED <<tasks, lost, closing, ctx, lazyCtx, outcome, promise, held,
                 awaitVars, corrupt>>

\* The posted task resolves or rejects and frees both references.  It looks at
\* no weak pointer, and a reload frees the old runtime at once.
Settle(c) ==
  /\ corrupt' = (lazyCtx[c] # ctx)
  /\ promise' = [promise EXCEPT ![c] =
                   IF outcome[c] = "error" THEN "rejected" ELSE "fulfilled"]
  /\ held' = [held EXCEPT ![c] = 0]
  /\ UNCHANGED <<closing, ctx, uncounted, lost, lazy, lazyCtx, outcome, awaitVars>>

(***************************************************************************)
(* Value::await.                                                           *)
(***************************************************************************)
Await(a, t) ==
  /\ ~corrupt
  /\ awaitPc[a] = "idle"
  /\ t # Plain => promise[t] # "none" /\ lazyCtx[t] = ctx
  /\ target' = [target EXCEPT ![a] = t]
  /\ awaitCtx' = [awaitCtx EXCEPT ![a] = ctx]
  /\ tasks' = Append(tasks, [by |-> a, kind |-> "await", of |-> a])
  /\ uncounted' = uncounted \cup {a}
  /\ awaitPc' = [awaitPc EXCEPT ![a] = "count"]
  /\ UNCHANGED <<lost, closing, ctx, lazyVars, answer, captured, corrupt>>

CountAwait(a) ==
  /\ ~corrupt
  /\ awaitPc[a] = "count"
  /\ uncounted' = uncounted \ {a}
  /\ awaitPc' = [awaitPc EXCEPT ![a] = "blocked"]
  /\ UNCHANGED <<tasks, lost, closing, ctx, lazyVars, target, awaitCtx, answer,
                 captured, corrupt>>

\* state->cv.wait(lock, done), then the value or the error.
AwaitReturns(a) ==
  /\ ~corrupt
  /\ awaitPc[a] = "blocked"
  /\ answer[a] # "none"
  /\ awaitPc' = [awaitPc EXCEPT ![a] = IF answer[a] = "error" THEN "threw" ELSE "returned"]
  /\ UNCHANGED <<queueVars, closing, ctx, lazyVars, target, awaitCtx, answer,
                 captured, corrupt>>

\* What a poll of a's target finds.
PollState(a) == IF target[a] = Plain THEN "plain" ELSE promise[target[a]]

\* JS thread, with queue rest left: the first task dups the value and polls at
\* once, later ones have it.  A pending promise is polled again by a new task.
Poll(a, rest) ==
  /\ IF ~Expired(awaitCtx[a]) /\ PollState(a) = "pending"
     THEN /\ tasks' = Append(rest, [by |-> JsThread, kind |-> "poll", of |-> a])
          /\ captured' = [captured EXCEPT ![a] = 1]
          /\ UNCHANGED answer
     ELSE /\ tasks' = rest
          /\ captured' = [captured EXCEPT ![a] = 0]
          /\ answer' = [answer EXCEPT ![a] =
               IF Expired(awaitCtx[a]) \/ PollState(a) = "rejected"
               THEN "error" ELSE "result"]
  /\ corrupt' = (awaitCtx[a] # ctx /\ ~(Expired(awaitCtx[a]) /\ captured[a] = 0))
  /\ UNCHANGED <<closing, ctx, uncounted, lost, lazyVars, awaitPc, target, awaitCtx>>

(***************************************************************************)
(* The event loop.                                                         *)
(***************************************************************************)
\* The oldest task of thread p may be next: of different threads' tasks the
\* tokenless try_dequeue takes any, by rules of its own that rotate nothing.
HeadOf(p, i) ==
  /\ i \in DOMAIN tasks
  /\ tasks[i].by = p
  /\ \A j \in 1..(i - 1) : tasks[j].by # p

CallTask(p) ==
  /\ LoopRuns
  /\ closing \in {"no", "stop"}
  /\ \E i \in DOMAIN tasks :
       /\ HeadOf(p, i)
       /\ LET x == tasks[i] IN
            \/ /\ x.kind = "settle"
               /\ tasks' = RemoveAt(tasks, i)
               /\ Settle(x.of)
            \/ /\ x.kind # "settle"
               /\ Poll(x.of, RemoveAt(tasks, i))

DropTask(p) ==
  /\ LoopRuns
  /\ closing \in {"reload", "late"}
  /\ \E i \in DOMAIN tasks :
       /\ HeadOf(p, i)
       /\ tasks' = RemoveAt(tasks, i)
  /\ lost' = lost + 1
  /\ UNCHANGED <<uncounted, closing, ctx, lazyVars, awaitVars, corrupt>>

Reload ==
  /\ LoopRuns
  /\ closing = "no"
  /\ ctx <= MaxReloads
  /\ closing' = "reload"
  /\ UNCHANGED <<queueVars, ctx, lazyVars, awaitVars, corrupt>>

Stop ==
  /\ LoopRuns
  /\ closing = "no"
  /\ closing' = "stop"
  /\ UNCHANGED <<queueVars, ctx, lazyVars, awaitVars, corrupt>>

DeadlinePasses ==
  /\ closing = "stop"
  /\ closing' = "late"
  /\ UNCHANGED <<queueVars, ctx, lazyVars, awaitVars, corrupt>>

\* task_queue_size is 0: the loop ends, and a reload makes the next context.
LoopEnds ==
  /\ LoopRuns
  /\ closing # "no"
  /\ Len(tasks) + lost = Cardinality(uncounted)
  /\ IF closing = "reload"
     THEN closing' = "no" /\ ctx' = ctx + 1
     ELSE closing' = "exited" /\ UNCHANGED ctx
  /\ UNCHANGED <<queueVars, lazyVars, awaitVars, corrupt>>

LazyStep(c)  == LazyFinishes(c) \/ PostSettle(c) \/ CountSettle(c)
AwaitStep(a) == CountAwait(a) \/ AwaitReturns(a)
LoopStep     == \E p \in Threads : CallTask(p) \/ DropTask(p)

Next ==
  \/ \E c \in Calls : Wrap(c) \/ LazyStep(c)
  \/ \E a \in Awaiters : AwaitStep(a) \/ \E t \in Calls \cup {Plain} : Await(a, t)
  \/ LoopStep
  \/ Reload \/ Stop \/ DeadlinePasses \/ LoopEnds

Spec == Init /\ [][Next]_vars

\* Coroutines end, threads are scheduled and deadlines pass. The loop goes on
\* as long as there are tasks, but whose task it takes is not for it to say:
\* a poll that posts itself again may pass the others over for ever.
FairSpec ==
  /\ Spec
  /\ \A c \in Calls : WF_vars(LazyStep(c))
  /\ \A a \in Awaiters : WF_vars(AwaitStep(a))
  /\ WF_vars(LoopStep) /\ WF_vars(LoopEnds) /\ WF_vars(DeadlinePasses)

(***************************************************************************)
(* Properties.                                                             *)
(***************************************************************************)
TypeOK ==
  /\ tasks \in Seq(Task)
  /\ uncounted \subseteq Calls \cup Awaiters
  /\ lost \in Nat
  /\ closing \in {"no", "reload", "stop", "late", "exited"}
  /\ ctx \in Contexts
  /\ lazy \in [Calls -> {"none", "running", "locked", "count", "over", "orphan"}]
  /\ lazyCtx \in [Calls -> Contexts]
  /\ outcome \in [Calls -> {"none", "value", "error"}]
  /\ promise \in [Calls -> {"none", "pending", "fulfilled", "rejected"}]
  /\ held \in [Calls -> 0..2]
  /\ awaitPc \in [Awaiters -> {"idle", "count", "blocked", "returned", "threw"}]
  /\ target \in [Awaiters -> Calls \cup {Plain}]
  /\ awaitCtx \in [Awaiters -> Contexts]
  /\ answer \in [Awaiters -> {"none", "result", "error"}]
  /\ captured \in [Awaiters -> 0..1]
  /\ corrupt \in BOOLEAN

\* Tasks of a kind for x, queued or, since they are never told apart again,
\* possibly dropped.
Queued(x, kinds) == {i \in DOMAIN tasks : tasks[i].of = x /\ tasks[i].kind \in kinds}

\* The promise of a coroutine is settled as the coroutine ended, and the two
\* references that wrap() took are owned exactly as long as it is not: they are
\* neither freed twice nor freed for a promise that stays pending, although
\* three threads and a task queue that may drop the task hand them on.
SettledAsRun ==
  corrupt \/ \A c \in Calls :
    /\ promise[c] = "fulfilled" => outcome[c] = "value"
    /\ promise[c] = "rejected" => outcome[c] = "error"
    /\ held[c] = IF promise[c] = "pending" THEN 2 ELSE 0
    /\ Cardinality(Queued(c, {"settle"})) <= 1
    /\ Queued(c, {"settle"}) # {} => promise[c] = "pending"

\* await tells the truth: a value comes from a fulfilled promise or from
\* something that is no promise, an error from a rejected promise or a context
\* that is gone; the reference the polls own is released with the answer; and
\* there is one poll at a time.
AwaitAnswersTruly ==
  corrupt \/ \A a \in Awaiters :
    /\ answer[a] = "result" => target[a] = Plain \/ promise[target[a]] = "fulfilled"
    /\ answer[a] = "error" =>
         \/ target[a] # Plain /\ promise[target[a]] = "rejected"
         \/ awaitCtx[a] < ctx
    /\ captured[a] > 0 => answer[a] = "none" /\ awaitPc[a] \in {"count", "blocked"}
    /\ Cardinality(Queued(a, {"await", "poll"})) <= 1
    /\ answer[a] # "none" => Queued(a, {"await", "poll"}) = {}

\* Polls that find their promise pending pass over a queued task that settles
\* one.
PassesOver ==
  /\ \E c \in Calls : Queued(c, {"settle"}) # {}
  /\ \E a \in Awaiters : Queued(a, {"poll"}) # {} /\ PollState(a) = "pending"

\* Every promise that an async function of the live context returned is
\* settled, unless the loop is shut down (or a stale task of the last context
\* corrupts memory). The only way for the loop to run for ever without settling
\* it is that polls pass over a task that settles a promise for ever.
EveryPromiseSettles ==
  <>[]PassesOver \/ \A c \in Calls :
    promise[c] = "pending" /\ lazyCtx[c] = ctx ~>
      promise[c] \in {"fulfilled", "rejected"} \/ closing # "no" \/ corrupt

\* Every await in the live context returns or throws, unless the loop is shut
\* down (or a stale task of the last context corrupts memory), or polls pass
\* over a task that settles a promise for ever.
EveryAwaitReturns ==
  <>[]PassesOver \/ \A a \in Awaiters :
    awaitPc[a] = "blocked" /\ awaitCtx[a] = ctx ~>
      awaitPc[a] \in {"returned", "threw"} \/ closing # "no" \/ corrupt

\* Without that exception an await of a promise that is to be settled would
\* always end; the queue does not promise it.
AwaitNeverStarves == ~<>[]PassesOver

\* await's error path, "Context destroyed while awaiting promise": a thread
\* that awaits when the runtime is reset gets an answer.
AwaitSurvivesReload ==
  \A a \in Awaiters :
    awaitPc[a] = "blocked" /\ closing = "reload" ~>
      awaitPc[a] \in {"returned", "threw"} \/ corrupt
=============================================================================
