------------------------- MODULE AsyncBridge_proofs -------------------------
(***************************************************************************)
(* Proofs about AsyncBridge for any number of coroutines, awaiting threads *)
(* and reloads: a promise is settled as its coroutine ended, its resolving *)
(* functions are freed once, and await answers truly.                      *)
(***************************************************************************)
EXTENDS AsyncBridge, SequenceLemmas

Has(x) == \E y \in Range(tasks) : y.of = x

\* At most one task of each coroutine and of each awaiter is queued.
DistinctOf(q) == \A i, j \in DOMAIN q : q[i].of = q[j].of => i = j

TypeInv ==
  /\ TypeOK
  /\ \A y \in Range(tasks) : y.kind = "settle" <=> y.of \in Calls
  /\ closing = "reload" => ctx <= MaxReloads

\* A promise is pending until the one task that settles it is called, and that
\* task is posted only after the coroutine has ended.
LazyInv(c) ==
  /\ lazy[c] = "none" <=> promise[c] = "none"
  /\ lazy[c] \in {"running", "locked"} => promise[c] = "pending"
  /\ lazy[c] \in {"locked", "count", "over", "orphan"} => outcome[c] # "none"
  /\ promise[c] = "fulfilled" => outcome[c] = "value"
  /\ promise[c] = "rejected" => outcome[c] = "error"
  /\ held[c] = IF promise[c] = "pending" THEN 2 ELSE 0
  /\ Has(c) => lazy[c] \in {"count", "over"} /\ promise[c] = "pending"

\* What is awaited exists, and a poll or a reference that polls own belongs to
\* an await that has no answer yet.
AwaitInv(a) ==
  /\ awaitPc[a] = "idle" => answer[a] = "none" /\ captured[a] = 0
  /\ awaitPc[a] # "idle" /\ target[a] # Plain => promise[target[a]] # "none"
  /\ awaitCtx[a] <= ctx
  /\ Has(a) \/ captured[a] > 0 => answer[a] = "none" /\ awaitPc[a] \in {"count", "blocked"}
  /\ answer[a] = "result" => target[a] = Plain \/ promise[target[a]] = "fulfilled"
  /\ answer[a] = "error" =>
       (target[a] # Plain /\ promise[target[a]] = "rejected") \/ awaitCtx[a] < ctx

Core ==
  /\ DistinctOf(tasks)
  /\ \A c \in Calls : LazyInv(c)
  /\ \A a \in Awaiters : AwaitInv(a)

BridgeInv == TypeInv /\ (corrupt \/ Core)

(***************************************************************************)
(* The queue.                                                              *)
(***************************************************************************)
LEMMA TaskFields ==
  /\ \A x \in Task : x.of \in Calls \cup Awaiters /\ x.by \in Threads
                     /\ x.kind \in {"settle", "await", "poll"}
  /\ \A c \in Calls : [by |-> c, kind |-> "settle", of |-> c] \in Task
  /\ \A a \in Awaiters : /\ [by |-> a, kind |-> "await", of |-> a] \in Task
                         /\ [by |-> JsThread, kind |-> "poll", of |-> a] \in Task
BY DEF Task, Threads

LEMMA TakeTask ==
  ASSUME NEW q \in Seq(Task), NEW i \in DOMAIN q
  PROVE  /\ RemoveAt(q, i) \in Seq(Task) /\ Range(RemoveAt(q, i)) \subseteq Range(q)
         /\ q[i] \in Task /\ q[i] \in Range(q)
         /\ DistinctOf(q) => /\ DistinctOf(RemoveAt(q, i))
                             /\ \A y \in Range(RemoveAt(q, i)) : y.of # q[i].of
<1>. DEFINE t == RemoveAt(q, i)
<1>1. i \in 1..Len(q) /\ DOMAIN q = 1..Len(q) /\ Len(q) \in Nat
  BY LenProperties
<1>2. t \in Seq(Task) /\ DOMAIN t = 1..(Len(q) - 1)
  BY <1>1, RemoveAtElements, LenProperties
<1>3. PICK f \in [1..(Len(q) - 1) -> 1..Len(q)] :
        /\ \A k \in 1..(Len(q) - 1) : f[k] # i /\ t[k] = q[f[k]]
        /\ \A k, m \in 1..(Len(q) - 1) : f[k] = f[m] => k = m
  BY <1>1, RemoveAtEmbeds
<1>. HIDE DEF t
<1>4. Range(t) \subseteq Range(q)
  BY <1>1, <1>2, <1>3 DEF Range
<1>5. q[i] \in Task /\ q[i] \in Range(q)
  BY <1>1, ElementOfSeq DEF Range
<1>6. ASSUME DistinctOf(q) PROVE DistinctOf(t)
  BY <1>1, <1>2, <1>3, <1>6 DEF DistinctOf
<1>7. ASSUME DistinctOf(q), NEW y \in Range(t) PROVE y.of # q[i].of
  <2>1. PICK k \in 1..(Len(q) - 1) : y = t[k]
    BY <1>2 DEF Range
  <2>2. f[k] \in DOMAIN q /\ f[k] # i /\ y = q[f[k]]
    BY <1>1, <1>3, <2>1
  <2>. QED  BY <1>7, <2>2 DEF DistinctOf
<1>. QED  BY <1>2, <1>4, <1>5, <1>6, <1>7 DEF t

LEMMA AddTask ==
  ASSUME NEW q \in Seq(Task), NEW x \in Task
  PROVE  /\ Append(q, x) \in Seq(Task) /\ Range(Append(q, x)) = Range(q) \cup {x}
         /\ DistinctOf(q) /\ (\A y \in Range(q) : y.of # x.of) => DistinctOf(Append(q, x))
<1>. DEFINE u == Append(q, x)
<1>1. /\ u \in Seq(Task) /\ Len(q) \in Nat /\ DOMAIN q = 1..Len(q)
      /\ DOMAIN u = 1..(Len(q) + 1) /\ u[Len(q) + 1] = x
      /\ \A i \in 1..Len(q) : u[i] = q[i]
  BY AppendProperties, LenProperties
<1>2. Range(u) = Range(q) \cup {x}
  BY RangeOfAppend
<1>. HIDE DEF u
<1>3. ASSUME DistinctOf(q), \A y \in Range(q) : y.of # x.of PROVE DistinctOf(u)
  <2>1. \A i \in 1..Len(q) : u[i] = q[i] /\ q[i].of # x.of
    BY <1>1, <1>3 DEF Range
  <2>. QED  BY <1>1, <1>3, <2>1 DEF DistinctOf
<1>. QED  BY <1>1, <1>2, <1>3 DEF u

(***************************************************************************)
(* Types.                                                                  *)
(***************************************************************************)
LEMMA TypeInit == Init => TypeInv
<1>. SUFFICES ASSUME Init PROVE TypeInv
  OBVIOUS
<1>1. Range(tasks) = {} /\ 1 \in Contexts
  BY BridgeConstants DEF Init, Range, Contexts
<1>2. /\ tasks \in Seq(Task) /\ uncounted \subseteq Calls \cup Awaiters /\ lost \in Nat
      /\ closing = "no" /\ ctx \in Contexts /\ corrupt \in BOOLEAN
  <2>1. tasks = <<>> /\ uncounted = {} /\ lost = 0 /\ closing = "no" /\ ctx = 1 /\ corrupt = FALSE
    BY DEF Init
  <2>2. <<>> \in Seq(Task)
    OBVIOUS
  <2>. QED  BY <1>1, <2>1, <2>2
<1>3. /\ lazy \in [Calls -> {"none", "running", "locked", "count", "over", "orphan"}]
      /\ lazyCtx \in [Calls -> Contexts]
      /\ outcome \in [Calls -> {"none", "value", "error"}]
      /\ promise \in [Calls -> {"none", "pending", "fulfilled", "rejected"}]
      /\ held \in [Calls -> 0..2]
  BY <1>1 DEF Init
<1>4. /\ awaitPc \in [Awaiters -> {"idle", "count", "blocked", "returned", "threw"}]
      /\ target \in [Awaiters -> Calls \cup {Plain}]
      /\ awaitCtx \in [Awaiters -> Contexts]
      /\ answer \in [Awaiters -> {"none", "result", "error"}]
      /\ captured \in [Awaiters -> 0..1]
  BY <1>1 DEF Init
<1>. QED  BY <1>1, <1>2, <1>3, <1>4 DEF TypeInv, TypeOK

LEMMA TypeLazy ==
  ASSUME TypeInv, NEW c \in Calls, Wrap(c) \/ LazyStep(c)
  PROVE  TypeInv'
<1>1. CASE Wrap(c)
  BY <1>1 DEF Wrap, TypeInv, TypeOK, queueVars, awaitVars
<1>2. CASE LazyFinishes(c)
  BY <1>2 DEF LazyFinishes, TypeInv, TypeOK, queueVars, awaitVars
<1>3. CASE PostSettle(c)
  <2>1. tasks \in Seq(Task) /\ tasks' = Append(tasks, [by |-> c, kind |-> "settle", of |-> c])
    BY <1>3 DEF PostSettle, TypeInv, TypeOK
  <2>2. /\ tasks' \in Seq(Task)
        /\ Range(tasks') = Range(tasks) \cup {[by |-> c, kind |-> "settle", of |-> c]}
    BY <2>1, AddTask, TaskFields
  <2>3. \A y \in Range(tasks') : y.kind = "settle" <=> y.of \in Calls
    BY <2>2 DEF TypeInv
  <2>. QED  BY <1>3, <2>2, <2>3 DEF PostSettle, TypeInv, TypeOK, awaitVars
<1>4. CASE CountSettle(c)
  BY <1>4 DEF CountSettle, TypeInv, TypeOK, awaitVars
<1>. QED  BY <1>1, <1>2, <1>3, <1>4 DEF LazyStep

LEMMA TypeAwait ==
  ASSUME TypeInv, NEW a \in Awaiters,
         AwaitStep(a) \/ \E t \in Calls \cup {Plain} : Await(a, t)
  PROVE  TypeInv'
<1>1. CASE AwaitStep(a)
  BY <1>1 DEF AwaitStep, CountAwait, AwaitReturns, TypeInv, TypeOK, queueVars, lazyVars
<1>2. ASSUME NEW t \in Calls \cup {Plain}, Await(a, t) PROVE TypeInv'
  <2>1. tasks \in Seq(Task) /\ tasks' = Append(tasks, [by |-> a, kind |-> "await", of |-> a])
    BY <1>2 DEF Await, TypeInv, TypeOK
  <2>2. /\ tasks' \in Seq(Task)
        /\ Range(tasks') = Range(tasks) \cup {[by |-> a, kind |-> "await", of |-> a]}
    BY <2>1, AddTask, TaskFields
  <2>3. \A y \in Range(tasks') : y.kind = "settle" <=> y.of \in Calls
    BY <2>2, BridgeConstants DEF TypeInv
  <2>. QED  BY <1>2, <2>2, <2>3 DEF Await, TypeInv, TypeOK, lazyVars
<1>. QED  BY <1>1, <1>2

LEMMA TypeLoop ==
  ASSUME TypeInv, NEW p \in Threads, CallTask(p) \/ DropTask(p)
  PROVE  TypeInv'
<1>1. tasks \in Seq(Task)
  BY DEF TypeInv, TypeOK
<1>2. ASSUME NEW i \in DOMAIN tasks, tasks' = RemoveAt(tasks, i)
      PROVE  tasks' \in Seq(Task) /\ \A y \in Range(tasks') : y.kind = "settle" <=> y.of \in Calls
  BY <1>1, <1>2, TakeTask DEF TypeInv
<1>3. ASSUME NEW i \in DOMAIN tasks, tasks[i].kind = "settle",
             tasks' = RemoveAt(tasks, i), Settle(tasks[i].of)
      PROVE  TypeInv'
  <2>1. corrupt' \in BOOLEAN
    BY <1>3 DEF Settle
  <2>2. \E v \in {"rejected", "fulfilled"} : promise' = [promise EXCEPT ![tasks[i].of] = v]
    BY <1>3 DEF Settle
  <2>3. held' = [held EXCEPT ![tasks[i].of] = 0]
    BY <1>3 DEF Settle
  <2>4. /\ promise' \in [Calls -> {"none", "pending", "fulfilled", "rejected"}]
        /\ held' \in [Calls -> 0..2]
    <3>1. /\ promise \in [Calls -> {"none", "pending", "fulfilled", "rejected"}]
          /\ held \in [Calls -> 0..2]
      BY DEF TypeInv, TypeOK
    <3>2. PICK c \in Calls : c = tasks[i].of
      BY <1>1, <1>3, TakeTask DEF TypeInv
    <3>3. held' = [held EXCEPT ![c] = 0]
      BY <2>3, <3>2
    <3>4. PICK v \in {"rejected", "fulfilled"} : promise' = [promise EXCEPT ![c] = v]
      BY <2>2, <3>2
    <3>. QED  BY <3>1, <3>3, <3>4
  <2>. QED  BY <1>2, <1>3, <2>1, <2>4 DEF Settle, TypeInv, TypeOK, awaitVars
<1>4. ASSUME NEW i \in DOMAIN tasks, tasks[i].kind # "settle",
             Poll(tasks[i].of, RemoveAt(tasks, i))
      PROVE  TypeInv'
  <2>1. PICK a \in Awaiters : a = tasks[i].of
    BY <1>1, <1>4, TakeTask, TaskFields DEF TypeInv
  <2>2. PICK rest \in Seq(Task) : /\ rest = RemoveAt(tasks, i)
                                  /\ \A y \in Range(rest) : y.kind = "settle" <=> y.of \in Calls
    BY <1>1, TakeTask DEF TypeInv
  <2>3. tasks' = rest \/ tasks' = Append(rest, [by |-> JsThread, kind |-> "poll", of |-> a])
    BY <1>4, <2>1, <2>2 DEF Poll
  <2>4. /\ Append(rest, [by |-> JsThread, kind |-> "poll", of |-> a]) \in Seq(Task)
        /\ Range(Append(rest, [by |-> JsThread, kind |-> "poll", of |-> a])) =
             Range(rest) \cup {[by |-> JsThread, kind |-> "poll", of |-> a]}
    BY AddTask, TaskFields
  <2>5. tasks' \in Seq(Task) /\ \A y \in Range(tasks') : y.kind = "settle" <=> y.of \in Calls
    <3>. DEFINE x == [by |-> JsThread, kind |-> "poll", of |-> a]
    <3>1. x.kind # "settle" /\ x.of \notin Calls
      BY <2>1, BridgeConstants
    <3>. HIDE DEF x
    <3>2. CASE tasks' = rest
      BY <2>2, <3>2
    <3>3. CASE tasks' = Append(rest, x)
      BY <2>2, <2>4, <3>1, <3>3 DEF x
    <3>. QED  BY <2>3, <3>2, <3>3 DEF x
  <2>6. /\ answer' \in [Awaiters -> {"none", "result", "error"}]
        /\ captured' \in [Awaiters -> 0..1] /\ corrupt' \in BOOLEAN
    <3>1. answer \in [Awaiters -> {"none", "result", "error"}] /\ captured \in [Awaiters -> 0..1]
      BY DEF TypeInv, TypeOK
    <3>2. corrupt' \in BOOLEAN
      BY <1>4 DEF Poll
    <3>3. captured' = [captured EXCEPT ![a] = 1] \/ captured' = [captured EXCEPT ![a] = 0]
      BY <1>4, <2>1 DEF Poll
    <3>4. answer' = answer \/ \E v \in {"result", "error"} : answer' = [answer EXCEPT ![a] = v]
      BY <1>4, <2>1 DEF Poll
    <3>. QED  BY <3>1, <3>2, <3>3, <3>4
  <2>. QED  BY <1>4, <2>5, <2>6 DEF Poll, TypeInv, TypeOK, lazyVars
<1>5. CASE CallTask(p)
  BY <1>3, <1>4, <1>5 DEF CallTask
<1>6. CASE DropTask(p)
  <2>1. PICK i \in DOMAIN tasks : tasks' = RemoveAt(tasks, i)
    BY <1>6 DEF DropTask
  <2>. QED  BY <1>2, <1>6, <2>1 DEF DropTask, TypeInv, TypeOK, lazyVars, awaitVars
<1>. QED  BY <1>5, <1>6

LEMMA TypeNext == TypeInv /\ [Next]_vars => TypeInv'
<1>. SUFFICES ASSUME TypeInv, [Next]_vars PROVE TypeInv'
  OBVIOUS
<1>. USE DEF queueVars, lazyVars, awaitVars
<1>1. CASE Reload \/ Stop \/ DeadlinePasses
  BY <1>1 DEF Reload, Stop, DeadlinePasses, TypeInv, TypeOK
<1>2. CASE LoopEnds
  BY <1>2, BridgeConstants DEF LoopEnds, TypeInv, TypeOK, Contexts
<1>3. CASE UNCHANGED vars
  BY <1>3 DEF vars, TypeInv, TypeOK
<1>. QED  BY <1>1, <1>2, <1>3, TypeLazy, TypeAwait, TypeLoop DEF Next, LoopStep

(***************************************************************************)
(* The promises.                                                           *)
(***************************************************************************)
\* A settled promise stays as it is, and no promise disappears.
PromisesAdvance ==
  \A c \in Calls : \/ promise'[c] = promise[c]
                   \/ promise[c] \in {"none", "pending"} /\ promise'[c] # "none"

LEMMA LazyStable ==
  ASSUME NEW c \in Calls, LazyInv(c), Has(c)' => Has(c),
         lazy'[c] = lazy[c], promise'[c] = promise[c], outcome'[c] = outcome[c],
         held'[c] = held[c]
  PROVE  LazyInv(c)'
BY DEF LazyInv

LEMMA AwaitStable ==
  ASSUME TypeInv, TypeInv', NEW a \in Awaiters, AwaitInv(a), Has(a)' => Has(a),
         PromisesAdvance, ctx' >= ctx,
         awaitPc'[a] = awaitPc[a], target'[a] = target[a], awaitCtx'[a] = awaitCtx[a],
         answer'[a] = answer[a], captured'[a] = captured[a]
  PROVE  AwaitInv(a)'
<1>1. target[a] \in Calls \cup {Plain} /\ awaitCtx[a] \in Int /\ ctx \in Int /\ ctx' \in Int
  BY DEF TypeInv, TypeOK, Contexts
<1>2. awaitCtx'[a] <= ctx' /\ (awaitCtx[a] < ctx => awaitCtx'[a] < ctx')
  BY <1>1 DEF AwaitInv
<1>3. target[a] \in Calls =>
        /\ promise[target[a]] # "none" => promise'[target[a]] # "none"
        /\ promise[target[a]] \in {"fulfilled", "rejected"} =>
             promise'[target[a]] = promise[target[a]]
  BY DEF PromisesAdvance
<1>. QED  BY <1>1, <1>2, <1>3 DEF AwaitInv

\* Steps that leave queue and awaiters alone.
LEMMA CoreByLazy ==
  ASSUME TypeInv, TypeInv', Core, UNCHANGED tasks, UNCHANGED awaitVars, PromisesAdvance,
         ctx' >= ctx, \A c \in Calls : LazyInv(c)'
  PROVE  Core'
<1>1. \A x : Has(x)' <=> Has(x)
  BY DEF Has
<1>2. ASSUME NEW a \in Awaiters PROVE AwaitInv(a)'
  BY <1>1, AwaitStable DEF Core, awaitVars
<1>. QED  BY <1>2 DEF Core, DistinctOf

LEMMA CoreWrap ==
  ASSUME TypeInv, TypeInv', Core, NEW c \in Calls, Wrap(c)
  PROVE  Core'
<1>1. /\ lazy[c] = "none" /\ LazyInv(c)
      /\ lazy' = [lazy EXCEPT ![c] = "running"] /\ promise' = [promise EXCEPT ![c] = "pending"]
      /\ held' = [held EXCEPT ![c] = 2] /\ UNCHANGED <<outcome, tasks, ctx>>
  BY DEF Wrap, Core, queueVars
<1>2. /\ lazy \in [Calls -> {"none", "running", "locked", "count", "over", "orphan"}]
      /\ promise \in [Calls -> {"none", "pending", "fulfilled", "rejected"}]
      /\ held \in [Calls -> 0..2] /\ ctx \in Int
  BY DEF TypeInv, TypeOK, Contexts
<1>3. \A x : Has(x)' <=> Has(x)
  BY <1>1 DEF Has
<1>4. ASSUME NEW d \in Calls PROVE LazyInv(d)'
  <2>1. CASE d = c
    <3>1. lazy'[c] = "running" /\ promise'[c] = "pending" /\ held'[c] = 2 /\ ~Has(c)'
      BY <1>1, <1>2, <1>3 DEF LazyInv
    <3>. QED  BY <2>1, <3>1 DEF LazyInv
  <2>2. CASE d # c
    BY <1>1, <1>2, <1>3, <2>2, LazyStable DEF Core
  <2>. QED  BY <2>1, <2>2
<1>5. PromisesAdvance
  BY <1>1, <1>2 DEF PromisesAdvance, LazyInv
<1>. QED  BY <1>1, <1>2, <1>4, <1>5, CoreByLazy DEF Wrap

LEMMA CoreFinishes ==
  ASSUME TypeInv, TypeInv', Core, NEW c \in Calls, LazyFinishes(c)
  PROVE  Core'
<1>1. PICK l \in {"orphan", "locked"}, o \in {"value", "error"} :
        lazy' = [lazy EXCEPT ![c] = l] /\ outcome' = [outcome EXCEPT ![c] = o]
  BY DEF LazyFinishes
<1>2. /\ lazy[c] = "running" /\ LazyInv(c) /\ UNCHANGED <<promise, held, tasks, ctx>>
  BY DEF LazyFinishes, Core, queueVars
<1>3. /\ lazy \in [Calls -> {"none", "running", "locked", "count", "over", "orphan"}]
      /\ outcome \in [Calls -> {"none", "value", "error"}] /\ ctx \in Int
  BY DEF TypeInv, TypeOK, Contexts
<1>4. \A x : Has(x)' <=> Has(x)
  BY <1>2 DEF Has
<1>5. ASSUME NEW d \in Calls PROVE LazyInv(d)'
  <2>1. CASE d = c
    <3>1. lazy'[c] = l /\ outcome'[c] = o /\ promise'[c] = "pending" /\ ~Has(c)'
      BY <1>1, <1>2, <1>3, <1>4 DEF LazyInv
    <3>. QED  BY <1>2, <2>1, <3>1 DEF LazyInv
  <2>2. CASE d # c
    BY <1>1, <1>2, <1>3, <1>4, <2>2, LazyStable DEF Core
  <2>. QED  BY <2>1, <2>2
<1>6. PromisesAdvance
  BY <1>2 DEF PromisesAdvance
<1>. QED  BY <1>2, <1>3, <1>5, <1>6, CoreByLazy DEF LazyFinishes

LEMMA CoreCountSettle ==
  ASSUME TypeInv, TypeInv', Core, NEW c \in Calls, CountSettle(c)
  PROVE  Core'
<1>1. /\ lazy[c] = "count" /\ LazyInv(c) /\ lazy' = [lazy EXCEPT ![c] = "over"]
      /\ UNCHANGED <<outcome, promise, held, tasks, ctx>>
  BY DEF CountSettle, Core
<1>2. lazy \in [Calls -> {"none", "running", "locked", "count", "over", "orphan"}] /\ ctx \in Int
  BY DEF TypeInv, TypeOK, Contexts
<1>3. \A x : Has(x)' <=> Has(x)
  BY <1>1 DEF Has
<1>4. ASSUME NEW d \in Calls PROVE LazyInv(d)'
  <2>1. CASE d = c
    <3>1. lazy'[c] = "over"
      BY <1>1, <1>2
    <3>. QED  BY <1>1, <1>3, <2>1, <3>1 DEF LazyInv
  <2>2. CASE d # c
    BY <1>1, <1>2, <1>3, <2>2, LazyStable DEF Core
  <2>. QED  BY <2>1, <2>2
<1>5. PromisesAdvance
  BY <1>1 DEF PromisesAdvance
<1>. QED  BY <1>1, <1>2, <1>4, <1>5, CoreByLazy DEF CountSettle

LEMMA CorePostSettle ==
  ASSUME TypeInv, TypeInv', Core, NEW c \in Calls, PostSettle(c)
  PROVE  Core'
<1>. DEFINE x == [by |-> c, kind |-> "settle", of |-> c]
<1>1. /\ lazy[c] = "locked" /\ LazyInv(c) /\ lazy' = [lazy EXCEPT ![c] = "count"]
      /\ tasks' = Append(tasks, x) /\ UNCHANGED <<outcome, promise, held, ctx>>
      /\ UNCHANGED awaitVars
  BY DEF PostSettle, Core
<1>2. /\ lazy \in [Calls -> {"none", "running", "locked", "count", "over", "orphan"}]
      /\ ctx \in Int /\ tasks \in Seq(Task) /\ x \in Task
  BY TaskFields DEF TypeInv, TypeOK, Contexts
<1>3. x.of = c
  OBVIOUS
<1>. HIDE DEF x
<1>4. ~Has(c)
  BY <1>1 DEF LazyInv
<1>5. DistinctOf(tasks') /\ Range(tasks') = Range(tasks) \cup {x}
  BY <1>1, <1>2, <1>3, <1>4, AddTask DEF Core, Has
<1>6. \A y : Has(y)' <=> Has(y) \/ y = c
  BY <1>3, <1>5 DEF Has
<1>7. ASSUME NEW d \in Calls PROVE LazyInv(d)'
  <2>1. CASE d = c
    <3>1. lazy'[c] = "count"
      BY <1>1, <1>2
    <3>. QED  BY <1>1, <2>1, <3>1 DEF LazyInv
  <2>2. CASE d # c
    BY <1>1, <1>2, <1>6, <2>2, LazyStable DEF Core
  <2>. QED  BY <2>1, <2>2
<1>8. ASSUME NEW a \in Awaiters PROVE AwaitInv(a)'
  <2>1. a # c /\ PromisesAdvance /\ ctx' >= ctx
    BY <1>1, <1>2, BridgeConstants DEF PromisesAdvance
  <2>. QED  BY <1>1, <1>6, <2>1, AwaitStable DEF Core, awaitVars
<1>. QED  BY <1>5, <1>7, <1>8 DEF Core

(***************************************************************************)
(* The awaiting threads.                                                   *)
(***************************************************************************)
\* Steps of one awaiter that leave the promises alone.
LEMMA CoreByAwait ==
  ASSUME TypeInv, TypeInv', Core, NEW a \in Awaiters, AwaitInv(a)',
         DistinctOf(tasks)', UNCHANGED <<lazy, outcome, promise, held, ctx>>,
         \A x : x # a => (Has(x)' => Has(x)),
         \A b \in Awaiters : b # a => /\ awaitPc'[b] = awaitPc[b] /\ target'[b] = target[b]
                                      /\ awaitCtx'[b] = awaitCtx[b] /\ answer'[b] = answer[b]
                                      /\ captured'[b] = captured[b]
  PROVE  Core'
<1>1. PromisesAdvance /\ ctx' >= ctx
  BY DEF PromisesAdvance, TypeInv, TypeOK, Contexts
<1>2. ASSUME NEW c \in Calls PROVE LazyInv(c)'
  <2>1. c # a
    BY BridgeConstants
  <2>. QED  BY <2>1, LazyStable DEF Core
<1>3. ASSUME NEW b \in Awaiters PROVE AwaitInv(b)'
  <2>1. CASE b # a
    BY <1>1, <2>1, AwaitStable DEF Core
  <2>. QED  BY <2>1
<1>. QED  BY <1>2, <1>3 DEF Core

LEMMA AwaitTypes ==
  ASSUME TypeInv
  PROVE  /\ awaitPc \in [Awaiters -> {"idle", "count", "blocked", "returned", "threw"}]
         /\ target \in [Awaiters -> Calls \cup {Plain}]
         /\ awaitCtx \in [Awaiters -> Contexts] /\ ctx \in Contexts /\ Contexts \subseteq Int
         /\ answer \in [Awaiters -> {"none", "result", "error"}]
         /\ captured \in [Awaiters -> 0..1] /\ tasks \in Seq(Task)
BY DEF TypeInv, TypeOK, Contexts

LEMMA CoreAwait ==
  ASSUME TypeInv, TypeInv', Core, NEW a \in Awaiters, NEW t \in Calls \cup {Plain}, Await(a, t)
  PROVE  Core'
<1>. DEFINE x == [by |-> a, kind |-> "await", of |-> a]
<1>1. /\ awaitPc[a] = "idle" /\ AwaitInv(a) /\ (t # Plain => promise[t] # "none")
      /\ target' = [target EXCEPT ![a] = t] /\ awaitCtx' = [awaitCtx EXCEPT ![a] = ctx]
      /\ awaitPc' = [awaitPc EXCEPT ![a] = "count"] /\ tasks' = Append(tasks, x)
      /\ UNCHANGED <<lazy, outcome, promise, held, ctx, answer, captured>>
  BY DEF Await, Core, lazyVars
<1>2. x \in Task /\ x.of = a
  BY TaskFields
<1>. HIDE DEF x
<1>3. ~Has(a) /\ answer[a] = "none" /\ captured[a] = 0
  BY <1>1 DEF AwaitInv
<1>4. DistinctOf(tasks') /\ Range(tasks') = Range(tasks) \cup {x}
  BY <1>1, <1>2, <1>3, AddTask, AwaitTypes DEF Core, Has
<1>5. \A y : y # a => (Has(y)' => Has(y))
  BY <1>2, <1>4 DEF Has
<1>6. AwaitInv(a)'
  <2>1. awaitPc'[a] = "count" /\ target'[a] = t /\ awaitCtx'[a] = ctx
    BY <1>1, AwaitTypes
  <2>2. ctx' = ctx /\ ctx \in Int
    BY <1>1, AwaitTypes
  <2>. QED  BY <1>1, <1>3, <2>1, <2>2 DEF AwaitInv
<1>7. \A b \in Awaiters : b # a => /\ awaitPc'[b] = awaitPc[b] /\ target'[b] = target[b]
                                   /\ awaitCtx'[b] = awaitCtx[b] /\ answer'[b] = answer[b]
                                   /\ captured'[b] = captured[b]
  BY <1>1, AwaitTypes
<1>. QED  BY <1>1, <1>4, <1>5, <1>6, <1>7, CoreByAwait

LEMMA CoreAwaitStep ==
  ASSUME TypeInv, TypeInv', Core, NEW a \in Awaiters, AwaitStep(a)
  PROVE  Core'
<1>1. /\ AwaitInv(a) /\ DistinctOf(tasks)
      /\ UNCHANGED <<tasks, lazy, outcome, promise, held, ctx, target, awaitCtx, answer, captured>>
  BY DEF AwaitStep, CountAwait, AwaitReturns, Core, lazyVars, queueVars
<1>2. PICK pc \in {"blocked", "returned", "threw"} :
        /\ awaitPc' = [awaitPc EXCEPT ![a] = pc] /\ awaitPc[a] # "idle"
        /\ pc # "blocked" => answer[a] # "none"
  BY DEF AwaitStep, CountAwait, AwaitReturns
<1>3. \A y : Has(y)' <=> Has(y)
  BY <1>1 DEF Has
<1>4. awaitPc'[a] = pc
  BY <1>2, AwaitTypes
<1>5. AwaitInv(a)'
  BY <1>1, <1>2, <1>3, <1>4 DEF AwaitInv
<1>6. \A b \in Awaiters : b # a => awaitPc'[b] = awaitPc[b]
  BY <1>2, AwaitTypes
<1>7. DistinctOf(tasks)'
  BY <1>1 DEF DistinctOf
<1>. QED  BY <1>1, <1>3, <1>5, <1>6, <1>7, CoreByAwait

(***************************************************************************)
(* The loop.                                                               *)
(***************************************************************************)
LEMMA CoreSettle ==
  ASSUME TypeInv, TypeInv', Core, NEW i \in DOMAIN tasks, tasks[i].kind = "settle",
         tasks' = RemoveAt(tasks, i), Settle(tasks[i].of)
  PROVE  Core'
<1>1. PICK c \in Calls : c = tasks[i].of
  BY AwaitTypes, TakeTask DEF TypeInv
<1>2. /\ DistinctOf(tasks') /\ Range(tasks') \subseteq Range(tasks)
      /\ \A y \in Range(tasks') : y.of # c
  BY <1>1, AwaitTypes, TakeTask DEF Core
<1>3. ~Has(c)' /\ Has(c) /\ \A y : Has(y)' => Has(y)
  BY <1>1, <1>2, AwaitTypes, TakeTask DEF Has
<1>4. PICK v \in {"rejected", "fulfilled"} :
        /\ v = IF outcome[c] = "error" THEN "rejected" ELSE "fulfilled"
        /\ promise' = [promise EXCEPT ![c] = v]
  BY <1>1 DEF Settle
<1>5. held' = [held EXCEPT ![c] = 0] /\ UNCHANGED <<lazy, outcome, ctx>> /\ UNCHANGED awaitVars
  BY <1>1 DEF Settle
<1>6. /\ promise \in [Calls -> {"none", "pending", "fulfilled", "rejected"}]
      /\ held \in [Calls -> 0..2] /\ outcome \in [Calls -> {"none", "value", "error"}]
  BY DEF TypeInv, TypeOK
<1>7. LazyInv(c) /\ lazy[c] \in {"count", "over"} /\ promise[c] = "pending" /\ outcome[c] # "none"
  BY <1>3 DEF Core, LazyInv
<1>8. ASSUME NEW d \in Calls PROVE LazyInv(d)'
  <2>1. CASE d = c
    <3>1. promise'[c] = v /\ held'[c] = 0 /\ outcome[c] \in {"value", "error"}
      BY <1>4, <1>5, <1>6, <1>7
    <3>. QED  BY <1>3, <1>4, <1>5, <1>7, <2>1, <3>1 DEF LazyInv
  <2>2. CASE d # c
    BY <1>3, <1>4, <1>5, <1>6, <2>2, LazyStable DEF Core
  <2>. QED  BY <2>1, <2>2
<1>9. PromisesAdvance
  BY <1>4, <1>6, <1>7 DEF PromisesAdvance
<1>10. ASSUME NEW a \in Awaiters PROVE AwaitInv(a)'
  <2>1. ctx' >= ctx
    BY <1>5, AwaitTypes
  <2>. QED  BY <1>3, <1>5, <1>9, <2>1, AwaitStable DEF Core, awaitVars
<1>. QED  BY <1>2, <1>8, <1>10 DEF Core

LEMMA CorePoll ==
  ASSUME TypeInv, TypeInv', Core, NEW i \in DOMAIN tasks, tasks[i].kind # "settle",
         Poll(tasks[i].of, RemoveAt(tasks, i))
  PROVE  Core'
<1>1. PICK a \in Awaiters : a = tasks[i].of
  BY AwaitTypes, TakeTask, TaskFields DEF TypeInv
<1>2. PICK rest \in Seq(Task) :
        /\ rest = RemoveAt(tasks, i) /\ DistinctOf(rest)
        /\ Range(rest) \subseteq Range(tasks) /\ \A y \in Range(rest) : y.of # a
  BY <1>1, AwaitTypes, TakeTask DEF Core
<1>3. Has(a)
  BY <1>1, AwaitTypes, TakeTask DEF Has
<1>4. AwaitInv(a) /\ answer[a] = "none" /\ awaitPc[a] \in {"count", "blocked"}
  BY <1>3 DEF Core, AwaitInv
<1>5. UNCHANGED <<lazy, outcome, promise, held, ctx, awaitPc, target, awaitCtx>>
  BY DEF Poll, lazyVars
<1>6. target[a] \in Calls \cup {Plain} /\ awaitCtx[a] \in Int /\ ctx \in Int
      /\ promise \in [Calls -> {"none", "pending", "fulfilled", "rejected"}]
  BY AwaitTypes DEF TypeInv, TypeOK
<1>7. CASE ~Expired(awaitCtx[a]) /\ PollState(a) = "pending"
  <2>. DEFINE x == [by |-> JsThread, kind |-> "poll", of |-> a]
  <2>1. tasks' = Append(rest, x) /\ captured' = [captured EXCEPT ![a] = 1] /\ answer' = answer
    BY <1>1, <1>2, <1>7 DEF Poll
  <2>2. x \in Task /\ x.of = a
    BY TaskFields
  <2>. HIDE DEF x
  <2>3. DistinctOf(tasks') /\ Range(tasks') = Range(rest) \cup {x}
    BY <1>2, <2>1, <2>2, AddTask
  <2>4. \A y : y # a => (Has(y)' => Has(y))
    BY <1>2, <2>2, <2>3 DEF Has
  <2>5. AwaitInv(a)'
    BY <1>4, <1>5, <2>1 DEF AwaitInv
  <2>6. \A b \in Awaiters : b # a => captured'[b] = captured[b]
    BY <2>1, AwaitTypes
  <2>. QED  BY <1>5, <2>1, <2>3, <2>4, <2>5, <2>6, CoreByAwait
<1>8. CASE ~(~Expired(awaitCtx[a]) /\ PollState(a) = "pending")
  <2>1. PICK v \in {"error", "result"} :
          /\ v = IF Expired(awaitCtx[a]) \/ PollState(a) = "rejected" THEN "error" ELSE "result"
          /\ answer' = [answer EXCEPT ![a] = v]
    BY <1>1, <1>2, <1>8 DEF Poll
  <2>2. tasks' = rest /\ captured' = [captured EXCEPT ![a] = 0]
    BY <1>1, <1>2, <1>8 DEF Poll
  <2>3. ~Has(a)' /\ \A y : Has(y)' => Has(y)
    BY <1>2, <2>2 DEF Has
  <2>4. answer'[a] = v /\ captured'[a] = 0
    BY <2>1, <2>2, AwaitTypes
  <2>5. v = "error" => (target[a] # Plain /\ promise[target[a]] = "rejected") \/ awaitCtx[a] < ctx
    <3>1. Expired(awaitCtx[a]) => awaitCtx[a] < ctx
      BY <1>4, <1>6 DEF Expired, AwaitInv
    <3>2. PollState(a) = "rejected" => target[a] # Plain /\ promise[target[a]] = "rejected"
      BY DEF PollState
    <3>. QED  BY <2>1, <3>1, <3>2
  <2>6. v = "result" => target[a] = Plain \/ promise[target[a]] = "fulfilled"
    <3>1. target[a] # Plain => promise[target[a]] \in {"pending", "fulfilled", "rejected"}
      BY <1>4, <1>6 DEF AwaitInv
    <3>. QED  BY <1>8, <2>1, <3>1 DEF PollState
  <2>7. AwaitInv(a)'
    BY <1>4, <1>5, <2>1, <2>3, <2>4, <2>5, <2>6 DEF AwaitInv
  <2>8. \A b \in Awaiters : b # a => answer'[b] = answer[b] /\ captured'[b] = captured[b]
    BY <2>1, <2>2, AwaitTypes
  <2>. QED  BY <1>2, <1>5, <2>2, <2>3, <2>7, <2>8, CoreByAwait
<1>. QED  BY <1>7, <1>8

LEMMA CoreDrop ==
  ASSUME TypeInv, TypeInv', Core, NEW p \in Threads, DropTask(p)
  PROVE  Core'
<1>1. PICK i \in DOMAIN tasks : tasks' = RemoveAt(tasks, i)
  BY DEF DropTask
<1>2. DistinctOf(tasks') /\ Range(tasks') \subseteq Range(tasks)
  BY <1>1, AwaitTypes, TakeTask DEF Core
<1>3. \A y : Has(y)' => Has(y)
  BY <1>2 DEF Has
<1>4. UNCHANGED <<ctx, lazy, outcome, promise, held>> /\ UNCHANGED awaitVars
  BY DEF DropTask, lazyVars
<1>5. PromisesAdvance /\ ctx' >= ctx
  BY <1>4, AwaitTypes DEF PromisesAdvance
<1>6. ASSUME NEW c \in Calls PROVE LazyInv(c)'
  BY <1>3, <1>4, LazyStable DEF Core
<1>7. ASSUME NEW a \in Awaiters PROVE AwaitInv(a)'
  BY <1>3, <1>4, <1>5, AwaitStable DEF Core, awaitVars
<1>. QED  BY <1>2, <1>6, <1>7 DEF Core

\* Nothing but the context and closing changes.
LEMMA CoreOwner ==
  ASSUME TypeInv, TypeInv', Core, Reload \/ Stop \/ DeadlinePasses \/ LoopEnds \/ UNCHANGED vars
  PROVE  Core'
<1>1. UNCHANGED <<tasks, lazy, outcome, promise, held>> /\ UNCHANGED awaitVars
  BY DEF Reload, Stop, DeadlinePasses, LoopEnds, vars, queueVars, lazyVars
<1>2. ctx' = ctx \/ ctx' = ctx + 1
  BY DEF Reload, Stop, DeadlinePasses, LoopEnds, vars
<1>3. ctx' >= ctx /\ PromisesAdvance
  BY <1>1, <1>2, AwaitTypes DEF PromisesAdvance
<1>4. \A x : Has(x)' <=> Has(x)
  BY <1>1 DEF Has
<1>5. ASSUME NEW c \in Calls PROVE LazyInv(c)'
  BY <1>1, <1>4, LazyStable DEF Core
<1>. QED  BY <1>1, <1>3, <1>5, CoreByLazy

(***************************************************************************)
(* The theorems.                                                           *)
(***************************************************************************)
LEMMA BridgeInit == Init => BridgeInv
<1>. SUFFICES ASSUME Init PROVE Core
  BY TypeInit DEF BridgeInv
<1>1. ~\E x : Has(x)
  BY DEF Init, Has, Range
<1>2. DistinctOf(tasks)
  BY DEF Init, DistinctOf
<1>3. ASSUME NEW c \in Calls PROVE LazyInv(c)
  BY <1>1 DEF Init, LazyInv
<1>4. ASSUME NEW a \in Awaiters PROVE AwaitInv(a)
  BY <1>1 DEF Init, AwaitInv
<1>. QED  BY <1>2, <1>3, <1>4 DEF Core

LEMMA CoreNext ==
  ASSUME TypeInv, TypeInv', Core, Next
  PROVE  Core'
<1>1. ASSUME NEW c \in Calls, Wrap(c) \/ LazyStep(c) PROVE Core'
  BY <1>1, CoreWrap, CoreFinishes, CorePostSettle, CoreCountSettle DEF LazyStep
<1>2. ASSUME NEW a \in Awaiters, AwaitStep(a) \/ \E t \in Calls \cup {Plain} : Await(a, t)
      PROVE  Core'
  BY <1>2, CoreAwait, CoreAwaitStep
<1>3. ASSUME NEW p \in Threads, CallTask(p) \/ DropTask(p) PROVE Core'
  BY <1>3, CoreSettle, CorePoll, CoreDrop DEF CallTask
<1>4. CASE Reload \/ Stop \/ DeadlinePasses \/ LoopEnds
  BY <1>4, CoreOwner
<1>. QED  BY <1>1, <1>2, <1>3, <1>4 DEF Next, LoopStep

\* Once memory is corrupt nothing more is said of it.
LEMMA CorruptStays == corrupt /\ Next => corrupt'
BY DEF Next, LoopRuns, Wrap, LazyStep, LazyFinishes, PostSettle, CountSettle, AwaitStep,
       CountAwait, AwaitReturns, Await, LoopStep, CallTask, DropTask, Reload, Stop,
       DeadlinePasses, LoopEnds

LEMMA BridgeStutter == BridgeInv /\ UNCHANGED vars => BridgeInv'
<1>. SUFFICES ASSUME BridgeInv, UNCHANGED vars PROVE BridgeInv'
  OBVIOUS
<1>1. TypeInv /\ TypeInv'
  BY TypeNext DEF BridgeInv
<1>2. corrupt' = corrupt
  BY DEF vars
<1>3. Core => Core'
  BY <1>1, CoreOwner
<1>. QED  BY <1>1, <1>2, <1>3 DEF BridgeInv

LEMMA BridgeNext == BridgeInv /\ Next => BridgeInv'
BY TypeNext, CoreNext, CorruptStays DEF BridgeInv

\* At most one task of a kind is queued for each.
LEMMA QueuedOnce ==
  ASSUME Core, NEW x, NEW kinds
  PROVE  /\ Cardinality(Queued(x, kinds)) <= 1
         /\ Queued(x, kinds) # {} => Has(x)
<1>1. \A i, j \in Queued(x, kinds) : i = j
  BY DEF Queued, Core, DistinctOf
<1>2. Cardinality(Queued(x, kinds)) \in 0..1
  BY <1>1, AtMostOne
<1>. QED  BY <1>2 DEF Queued, Has, Range

\* For any number of coroutines, awaiters and reloads, a promise is settled as
\* its coroutine ended and the two references to its resolving functions are
\* owned exactly until then.
THEOREM PromiseSettledAsRun == Spec => []SettledAsRun
<1>1. BridgeInv => SettledAsRun
  <2>. SUFFICES ASSUME Core PROVE SettledAsRun
    BY DEF BridgeInv, SettledAsRun
  <2>1. \A c \in Calls : /\ Cardinality(Queued(c, {"settle"})) <= 1
                         /\ Queued(c, {"settle"}) # {} => Has(c)
    BY QueuedOnce
  <2>. QED  BY <2>1 DEF Core, LazyInv, SettledAsRun
<1>. QED  BY <1>1, BridgeInit, BridgeNext, BridgeStutter, PTL DEF Spec

\* For any number of coroutines, awaiters and reloads, await reports a value or
\* an error only where there is one, polls once at a time and gives back the
\* reference its polls own.
THEOREM AwaitAlwaysTruthful == Spec => []AwaitAnswersTruly
<1>1. BridgeInv => AwaitAnswersTruly
  <2>. SUFFICES ASSUME Core PROVE AwaitAnswersTruly
    BY DEF BridgeInv, AwaitAnswersTruly
  <2>1. \A a \in Awaiters : /\ Cardinality(Queued(a, {"await", "poll"})) <= 1
                            /\ Queued(a, {"await", "poll"}) # {} => Has(a)
    BY QueuedOnce
  <2>. QED  BY <2>1 DEF Core, AwaitInv, AwaitAnswersTruly
<1>. QED  BY <1>1, BridgeInit, BridgeNext, BridgeStutter, PTL DEF Spec
=============================================================================
