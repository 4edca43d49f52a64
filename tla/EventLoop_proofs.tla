-------------------------- MODULE EventLoop_proofs --------------------------
(***************************************************************************)
(* Proofs about EventLoop for any number of posting threads, any bounds    *)
(* and any width of the counter: type correctness, agreement of the atomic *)
(* counter with the lock-free queue, absence of lost wake-ups in post(),   *)
(* ownership of the JS thread, post_sync answers that come from its own    *)
(* task, and the refinement of TaskService.                                *)
(***************************************************************************)
EXTENDS EventLoop, TLAPS, FiniteSetTheorems, SequenceTheorems, SequenceLemmas

\* cv_mutex is held exactly by the thread whose program counter is inside one
\* of the two critical sections, and the JS thread posts only from a task.
MutexInv ==
  /\ \A t \in Threads \ {JsThread} : postPc[t] = "unlock" <=> cv_mutex = t
  /\ cv_mutex = JsThread <=>
       (loopPc \in {"pred", "sleep"} \/ postPc[JsThread] = "unlock")
  /\ postPc[JsThread] # "idle" => loopPc \in {"bind", "run"}

\* A JS thread that is not joinable has ended, and the owner spawns a new one
\* only after the join.
OwnInv ==
  /\ ~terminated
  /\ ~joinable => loopPc \in {"none", "exited"}
  /\ ownerPc = "spawn" => ~joinable

\* Neither side of Outstanding exceeds the number of posts, so the wrapped
\* counter determines it.
BoundInv ==
  /\ Cardinality(Uncounted) <= posted
  /\ Len(task_queue) + Held + Len(dropped) <= posted

\* Once the predicate was false under cv_mutex, a later count leaves its
\* thread on its way to cv_mutex and to the notification.
WakeInv ==
  /\ loopPc = "sleep" => task_queue_size = 0 \/ \E t \in Threads : postPc[t] = "lock"
  /\ loopPc = "asleep" =>
       \/ task_queue_size = 0
       \/ \E t \in Threads : postPc[t] \in {"lock", "unlock", "notify"}

(***************************************************************************)
(* Type correctness: the history of calls is well typed because the loop   *)
(* holds a task whenever it is about to call, calls or drops one.          *)
(***************************************************************************)
TaskHeld == loopPc \in {"gate", "uncount", "run"} => task \in Task

\* Each runtime belongs to a call of reset_runtime, which spawns it last.
RuntimeCounted ==
  /\ runtime <= resets
  /\ ownerPc \in {"reset_notify", "reset_join", "spawn"} => runtime < resets

TypeInv == TypeOK /\ TaskHeld /\ RuntimeCounted

LEMMA PastTask == \A x \in Task : Past(x) \in Task
BY BoundsAssumption DEF Task, Past

LEMMA TypeInit == Init => TypeInv
<1>. SUFFICES ASSUME Init PROVE TypeInv
  OBVIOUS
<1>1. task_queue_size \in 0..SIZE_MAX /\ posted \in 0..MaxTasks
      /\ resets \in 0..MaxResets /\ stops \in 0..MaxStops
      /\ runtime \in 0..MaxResets /\ RuntimeCounted
  BY BoundsAssumption DEF Init, RuntimeCounted
<1>2. postPc \in [Threads -> PostPcs] /\ promise \in [Threads -> {"none", "unset", "set"}]
  BY DEF Init, PostPcs
<1>3. task_queue \in Seq(Task) /\ ran \in Seq(Task) /\ dropped \in Seq(Task)
  BY DEF Init
<1>4. loopPc \in LoopPcs /\ ownerPc \in OwnerPcs /\ task = NoTask /\ TaskHeld
  BY DEF Init, LoopPcs, OwnerPcs, TaskHeld
<1>5. joinable \in BOOLEAN /\ terminated \in BOOLEAN
  BY DEF Init
<1>6. cv_mutex \in Threads \cup {NoThread} /\ shutdown_deadline \in {"none", "armed", "passed"}
  BY DEF Init
<1>. QED  BY <1>1, <1>2, <1>3, <1>4, <1>5, <1>6 DEF TypeInv, TypeOK

LEMMA TypeEnqueue ==
  ASSUME TypeInv, NEW t \in Threads, Enqueue(t)
  PROVE  TypeInv'
<1>1. PICK sync \in BOOLEAN :
        /\ task_queue' = Append(task_queue, [id |-> posted + 1, by |-> t, sync |-> sync,
                                             rt |-> runtime])
        /\ promise' = [promise EXCEPT ![t] = IF sync THEN "unset" ELSE "none"]
  BY DEF Enqueue
<1>2. posted + 1 \in 1..MaxTasks
  BY BoundsAssumption DEF Enqueue, MayPost, TypeInv, TypeOK
<1>3. task_queue' \in Seq(Task)
  BY <1>1, <1>2, AppendProperties DEF TypeInv, TypeOK, Task
<1>. QED
  BY <1>1, <1>2, <1>3 DEF Enqueue, TypeInv, TypeOK, TaskHeld, RuntimeCounted, PostPcs, loopVars, ownerVars

LEMMA TypePost ==
  ASSUME TypeInv, NEW t \in Threads, PostStep(t)
  PROVE  TypeInv'
<1>. USE DEF TypeInv, TypeOK, TaskHeld, RuntimeCounted, PostPcs, queueVars, loopVars, ownerVars
<1>1. CASE CountTask(t)
  BY <1>1, BoundsAssumption DEF CountTask, FetchAdd
<1>2. CASE LockToNotify(t)
  BY <1>2 DEF LockToNotify
<1>3. CASE UnlockToNotify(t)
  BY <1>3 DEF UnlockToNotify
<1>4. CASE NotifyOne(t)
  BY <1>4 DEF NotifyOne, Notified, LoopPcs
<1>5. CASE FutureGet(t)
  BY <1>5 DEF FutureGet
<1>. QED  BY <1>1, <1>2, <1>3, <1>4, <1>5 DEF PostStep

LEMMA TypeLoop ==
  ASSUME TypeInv, LoopStep \/ SpuriousWake
  PROVE  TypeInv'
<1>. USE DEF TypeInv, TypeOK, TaskHeld, RuntimeCounted, LoopPcs, queueVars, postVars, ownerVars
<1>1. CASE Bind
  BY <1>1 DEF Bind
<1>2. CASE Dequeue
  <2>1. PICK i \in 1..Len(task_queue) :
          /\ task' = task_queue[i]
          /\ task_queue' = RemoveAt(task_queue, i)
    BY <1>2 DEF Dequeue
  <2>2. task_queue' \in Seq(Task)
    BY <2>1, RemoveAtElements
  <2>3. task' \in Task
    BY <2>1, ElementOfSeq
  <2>. QED  BY <1>2, <2>2, <2>3 DEF Dequeue
<1>3. CASE DequeueNone
  BY <1>3 DEF DequeueNone
<1>4. CASE Admit
  BY <1>4 DEF Admit
<1>5. CASE Drop
  BY <1>5, PastTask DEF Drop
<1>6. CASE UncountAndCall
  BY <1>6, PastTask, BoundsAssumption DEF UncountAndCall, FetchSub
<1>7. CASE TaskReturns
  BY <1>7 DEF TaskReturns
<1>8. CASE CheckDone
  BY <1>8 DEF CheckDone
<1>9. CASE LockToWait
  BY <1>9 DEF LockToWait, Threads
<1>10. CASE PredicateTrue
  BY <1>10 DEF PredicateTrue
<1>11. CASE PredicateFalse
  BY <1>11 DEF PredicateFalse
<1>12. CASE Sleep
  BY <1>12 DEF Sleep
<1>13. CASE SpuriousWake
  BY <1>13 DEF SpuriousWake
<1>. QED
  BY <1>1, <1>2, <1>3, <1>4, <1>5, <1>6, <1>7, <1>8, <1>9, <1>10, <1>11, <1>12, <1>13
     DEF LoopStep

LEMMA TypeOwner ==
  ASSUME TypeInv, ResetBegin \/ StopBegin \/ OwnerStep \/ DeadlinePasses
  PROVE  TypeInv'
<1>. USE DEF TypeInv, TypeOK, TaskHeld, RuntimeCounted, OwnerPcs, LoopPcs, queueVars, loopVars, postVars
<1>1. CASE ResetBegin
  BY <1>1, BoundsAssumption DEF ResetBegin
<1>2. CASE StopBegin
  BY <1>2, BoundsAssumption DEF StopBegin
<1>3. CASE NotifyAll
  BY <1>3 DEF NotifyAll, Notified
<1>4. CASE Join
  BY <1>4 DEF Join
<1>5. CASE Spawn
  <2>1. runtime' \in 0..MaxResets /\ RuntimeCounted'
    BY <1>5, BoundsAssumption DEF Spawn
  <2>2. joinable' \in BOOLEAN /\ terminated' \in BOOLEAN
    BY <1>5 DEF Spawn
  <2>. QED  BY <1>5, <2>1, <2>2 DEF Spawn
<1>6. CASE AwaitReady
  BY <1>6 DEF AwaitReady
<1>7. CASE DeadlinePasses
  BY <1>7 DEF DeadlinePasses
<1>. QED  BY <1>1, <1>2, <1>3, <1>4, <1>5, <1>6, <1>7 DEF OwnerStep

LEMMA TypeNext == TypeInv /\ [Next]_vars => TypeInv'
<1>. SUFFICES ASSUME TypeInv, [Next]_vars PROVE TypeInv'
  OBVIOUS
<1>1. CASE UNCHANGED vars
  BY <1>1 DEF TypeInv, TypeOK, TaskHeld, RuntimeCounted, vars, queueVars, loopVars, postVars, ownerVars
<1>2. CASE Next
  BY <1>2, TypeEnqueue, TypePost, TypeLoop, TypeOwner DEF Next
<1>. QED  BY <1>1, <1>2

\* Every variable keeps its type: task_queue_size, an unsigned counter, stays
\* within its width, and the loop never calls anything but a posted task.
THEOREM TypeCorrect == Spec => []TypeOK
<1>1. TypeInv => TypeOK
  BY DEF TypeInv
<1>. QED  BY <1>1, TypeInit, TypeNext, PTL DEF Spec

(***************************************************************************)
(* Ownership of the JS thread and of cv_mutex.                             *)
(***************************************************************************)
LEMMA OwnNext == TypeInv /\ OwnInv /\ [Next]_vars => OwnInv'
<1>. SUFFICES ASSUME TypeInv, OwnInv, [Next]_vars PROVE OwnInv'
  OBVIOUS
<1>. USE DEF OwnInv, TypeInv, TypeOK, queueVars, loopVars, postVars, ownerVars
<1>1. ASSUME NEW t \in Threads, Enqueue(t) \/ PostStep(t) PROVE OwnInv'
  <2>1. /\ UNCHANGED <<joinable, terminated, ownerPc>>
        /\ loopPc' = loopPc \/ loopPc = "asleep"
    BY <1>1 DEF Enqueue, PostStep, CountTask, LockToNotify, UnlockToNotify, NotifyOne,
                FutureGet, Notified
  <2>. QED  BY <2>1
<1>2. CASE LoopStep \/ SpuriousWake
  BY <1>2 DEF LoopStep, SpuriousWake, Bind, Dequeue, DequeueNone, Admit, Drop,
              UncountAndCall, TaskReturns, CheckDone, LockToWait, PredicateTrue,
              PredicateFalse, Sleep
<1>3. CASE ResetBegin \/ StopBegin \/ DeadlinePasses
  BY <1>3 DEF ResetBegin, StopBegin, DeadlinePasses
<1>4. CASE NotifyAll \/ AwaitReady
  BY <1>4 DEF NotifyAll, Notified, AwaitReady
<1>5. CASE Join
  BY <1>5 DEF Join
<1>6. CASE Spawn
  <2>1. ~joinable
    BY <1>6 DEF Spawn
  <2>. QED  BY <1>6, <2>1 DEF Spawn
<1>7. CASE UNCHANGED vars
  BY <1>7 DEF vars
<1>. QED  BY <1>1, <1>2, <1>3, <1>4, <1>5, <1>6, <1>7 DEF Next, OwnerStep

\* reset_runtime and stop_event_loop_in_time never leave a JS thread running
\* without an owner, nor assign a platform_thread over a joinable one, however
\* their steps interleave with posts and with the loop.
THEOREM ThreadAlwaysOwned == Spec => []ThreadOwned
<1>1. Init => OwnInv
  BY DEF Init, OwnInv
<1>2. TypeInv /\ OwnInv => ThreadOwned
  BY DEF OwnInv, ThreadOwned, TypeInv, TypeOK
<1>. QED  BY <1>1, <1>2, TypeInit, TypeNext, OwnNext, PTL DEF Spec

LEMMA MutexInit == Init => MutexInv
BY ThreadsAssumption DEF Init, MutexInv, Threads

LEMMA MutexPost ==
  ASSUME TypeInv, MutexInv, NEW t \in Threads, Enqueue(t) \/ PostStep(t)
  PROVE  MutexInv'
<1>. USE DEF MutexInv, TypeInv, TypeOK, queueVars, loopVars
<1>. JsThread \in Threads /\ NoThread \notin Threads
  BY ThreadsAssumption DEF Threads
<1>1. CASE Enqueue(t)
  BY <1>1 DEF Enqueue, MayPost
<1>2. CASE CountTask(t)
  BY <1>2 DEF CountTask
<1>3. CASE LockToNotify(t)
  BY <1>3 DEF LockToNotify
<1>4. CASE UnlockToNotify(t)
  BY <1>4 DEF UnlockToNotify
<1>5. CASE NotifyOne(t)
  BY <1>5 DEF NotifyOne, Notified
<1>6. CASE FutureGet(t)
  BY <1>6 DEF FutureGet
<1>. QED  BY <1>1, <1>2, <1>3, <1>4, <1>5, <1>6 DEF PostStep

LEMMA MutexNext == TypeInv /\ OwnInv /\ MutexInv /\ [Next]_vars => MutexInv'
<1>. SUFFICES ASSUME TypeInv, OwnInv, MutexInv, [Next]_vars PROVE MutexInv'
  OBVIOUS
<1>. USE DEF MutexInv, TypeInv, TypeOK, queueVars, loopVars, postVars, ownerVars
<1>. JsThread \in Threads /\ NoThread \notin Threads
  BY ThreadsAssumption DEF Threads
<1>1. ASSUME NEW t \in Threads, Enqueue(t) \/ PostStep(t) PROVE MutexInv'
  BY <1>1, MutexPost
<1>2. CASE Bind \/ Dequeue \/ DequeueNone \/ Admit \/ Drop \/ UncountAndCall
  BY <1>2 DEF Bind, Dequeue, DequeueNone, Admit, Drop, UncountAndCall
<1>3. CASE TaskReturns \/ CheckDone \/ PredicateFalse \/ SpuriousWake
  BY <1>3 DEF TaskReturns, CheckDone, PredicateFalse, SpuriousWake
<1>4. CASE LockToWait \/ PredicateTrue \/ Sleep
  BY <1>4 DEF LockToWait, PredicateTrue, Sleep
<1>5. CASE ResetBegin \/ StopBegin \/ DeadlinePasses
  BY <1>5 DEF ResetBegin, StopBegin, DeadlinePasses
<1>6. CASE NotifyAll \/ Join \/ AwaitReady
  BY <1>6 DEF NotifyAll, Notified, Join, AwaitReady
<1>7. CASE Spawn
  BY <1>7 DEF Spawn, OwnInv
<1>8. CASE UNCHANGED vars
  BY <1>8 DEF vars
<1>. QED
  BY <1>1, <1>2, <1>3, <1>4, <1>5, <1>6, <1>7, <1>8 DEF Next, LoopStep, OwnerStep

(***************************************************************************)
(* The counter: modular arithmetic, the set of uncounted posts, and one    *)
(* step per group of actions that leaves Outstanding alone or moves it by  *)
(* one together with task_queue_size.                                      *)
(***************************************************************************)
Wrap(n) == IF n >= 0 THEN n ELSE n + SIZE_MAX + 1

LEMMA WrapAdd ==
  ASSUME NEW n \in Int, n < SIZE_MAX, -SIZE_MAX <= n
  PROVE  FetchAdd(Wrap(n)) = Wrap(n + 1)
BY BoundsAssumption DEF FetchAdd, Wrap

LEMMA WrapSub ==
  ASSUME NEW n \in Int, n <= SIZE_MAX, -SIZE_MAX < n
  PROVE  FetchSub(Wrap(n)) = Wrap(n - 1)
BY BoundsAssumption DEF FetchSub, Wrap

LEMMA ThreadsFinite == IsFiniteSet(Threads)
<1>1. IsFiniteSet({Owner} \cup {JsThread})
  BY FS_Singleton, FS_AddElement
<1>2. Threads = Posters \cup ({Owner} \cup {JsThread})
  BY DEF Threads
<1>. QED  BY <1>1, <1>2, ThreadsAssumption, FS_Union

LEMMA UncountedFinite == IsFiniteSet(Uncounted) /\ Cardinality(Uncounted) \in Nat
<1>1. Uncounted \subseteq Threads
  BY DEF Uncounted
<1>. QED  BY <1>1, ThreadsFinite, FS_Subset, FS_CardinalityType

LEMMA UncountedGrows ==
  ASSUME TypeInv, NEW t \in Threads, postPc[t] = "idle",
         postPc' = [postPc EXCEPT ![t] = "count"]
  PROVE  Cardinality(Uncounted') = Cardinality(Uncounted) + 1
<1>1. t \notin Uncounted /\ Uncounted' = Uncounted \cup {t}
  BY DEF Uncounted, TypeInv, TypeOK
<1>. QED  BY <1>1, UncountedFinite, FS_AddElement

LEMMA UncountedShrinks ==
  ASSUME TypeInv, NEW t \in Threads, postPc[t] = "count",
         postPc' = [postPc EXCEPT ![t] = "lock"]
  PROVE  Cardinality(Uncounted') = Cardinality(Uncounted) - 1
<1>1. t \in Uncounted /\ Uncounted' = Uncounted \ {t}
  BY DEF Uncounted, TypeInv, TypeOK
<1>. QED  BY <1>1, UncountedFinite, FS_RemoveElement

LEMMA UncountedSame ==
  ASSUME TypeInv, NEW t \in Threads, NEW pc \in PostPcs \ {"count"},
         postPc[t] # "count", postPc' = [postPc EXCEPT ![t] = pc]
  PROVE  Uncounted' = Uncounted
BY DEF Uncounted, TypeInv, TypeOK

LEMMA OutstandingRange ==
  ASSUME TypeInv, BoundInv
  PROVE  /\ Outstanding \in Int
         /\ Outstanding + Cardinality(Uncounted) <= SIZE_MAX
         /\ -SIZE_MAX + Held <= Outstanding
<1>1. Cardinality(Uncounted) \in Nat
  BY UncountedFinite
<1>2. Held \in 0..1 /\ Len(task_queue) \in Nat /\ Len(dropped) \in Nat
  BY LenProperties DEF Held, TypeInv, TypeOK
<1>3. posted \in Nat /\ posted <= SIZE_MAX
  BY BoundsAssumption DEF TypeInv, TypeOK
<1>. QED  BY <1>1, <1>2, <1>3, BoundsAssumption DEF Outstanding, BoundInv

CounterInv == BoundInv /\ CounterAgrees

\* Steps that leave the number of queued, held and dropped tasks, the set of
\* uncounted posts and the counter alone.
LEMMA CounterSame ==
  ASSUME CounterInv, TypeInv,
         Len(task_queue') + Held' + Len(dropped') = Len(task_queue) + Held + Len(dropped),
         Uncounted' = Uncounted, UNCHANGED <<task_queue_size, posted>>
  PROVE  CounterInv'
<1>1. Cardinality(Uncounted') = Cardinality(Uncounted)
  OBVIOUS
<1>2. Cardinality(Uncounted) \in Nat
  BY UncountedFinite
<1>3. Held \in 0..1 /\ Held' \in 0..1
  BY DEF Held
<1>4. Len(task_queue) \in Nat /\ Len(dropped) \in Nat
  BY LenProperties DEF TypeInv, TypeOK
<1>5. Outstanding' = Outstanding
  BY <1>1, <1>2, <1>3, <1>4 DEF Outstanding
<1>6. BoundInv'
  BY <1>1 DEF CounterInv, BoundInv
<1>. QED  BY <1>5, <1>6 DEF CounterInv, CounterAgrees

LEMMA CounterEnqueue ==
  ASSUME CounterInv, TypeInv, NEW t \in Threads, Enqueue(t)
  PROVE  CounterInv'
<1>1. Cardinality(Uncounted') = Cardinality(Uncounted) + 1
  BY UncountedGrows DEF Enqueue, MayPost
<1>2. Len(task_queue') = Len(task_queue) + 1
  <2>1. PICK x : task_queue' = Append(task_queue, x)
    BY DEF Enqueue
  <2>2. task_queue \in Seq(Task \cup {x})
    BY DEF TypeInv, TypeOK
  <2>. QED  BY <2>1, <2>2, AppendProperties
<1>3. UNCHANGED <<task_queue_size, loopPc, dropped>> /\ posted' = posted + 1
  BY DEF Enqueue, loopVars
<1>4. Held' = Held /\ Held \in 0..1
  BY <1>3 DEF Held
<1>5. Cardinality(Uncounted) \in Nat /\ Len(task_queue) \in Nat /\ Len(dropped) \in Nat /\ posted \in Nat
  BY UncountedFinite, LenProperties DEF TypeInv, TypeOK
<1>6. Outstanding' = Outstanding
  BY <1>1, <1>2, <1>3, <1>4, <1>5 DEF Outstanding
<1>7. BoundInv'
  BY <1>1, <1>2, <1>3, <1>4, <1>5 DEF CounterInv, BoundInv
<1>. QED  BY <1>3, <1>6, <1>7 DEF CounterInv, CounterAgrees

LEMMA CounterCount ==
  ASSUME CounterInv, TypeInv, NEW t \in Threads, CountTask(t)
  PROVE  CounterInv'
<1>1. Cardinality(Uncounted') = Cardinality(Uncounted) - 1
  BY UncountedShrinks DEF CountTask
<1>2. Cardinality(Uncounted) \in Nat /\ Cardinality(Uncounted') \in Nat
  <2>1. Cardinality(Uncounted) \in Nat
    BY UncountedFinite
  <2>2. t \in Uncounted
    BY DEF CountTask, Uncounted
  <2>3. Cardinality(Uncounted) # 0
    BY <2>2, UncountedFinite, FS_EmptySet
  <2>. QED  BY <2>1, <2>3, <1>1
<1>3. UNCHANGED <<task_queue, dropped, posted, loopPc>>
  BY DEF CountTask, loopVars
<1>4. Held' = Held /\ Held \in 0..1 /\ Len(task_queue) \in Nat /\ Len(dropped) \in Nat /\ posted \in Nat
  BY <1>3, LenProperties DEF Held, TypeInv, TypeOK
<1>5. Outstanding' = Outstanding + 1
  BY <1>1, <1>2, <1>3, <1>4 DEF Outstanding
<1>6. BoundInv'
  BY <1>1, <1>2, <1>3, <1>4 DEF CounterInv, BoundInv
<1>7. Outstanding \in Int /\ Outstanding < SIZE_MAX /\ -SIZE_MAX <= Outstanding
  BY <1>1, <1>2, <1>4, OutstandingRange, BoundsAssumption DEF CounterInv
<1>8. task_queue_size = Wrap(Outstanding)
  BY DEF CounterInv, CounterAgrees, Wrap
<1>9. task_queue_size' = Wrap(Outstanding')
  BY <1>5, <1>7, <1>8, WrapAdd DEF CountTask
<1>. QED  BY <1>6, <1>9 DEF CounterInv, CounterAgrees, Wrap

LEMMA CounterUncount ==
  ASSUME CounterInv, TypeInv, UncountAndCall
  PROVE  CounterInv'
<1>1. UNCHANGED <<task_queue, dropped, posted, postPc>>
  BY DEF UncountAndCall, postVars
<1>2. Held = 1 /\ Held' = 0
  BY DEF UncountAndCall, Held
<1>3. Uncounted' = Uncounted /\ Cardinality(Uncounted) \in Nat
  BY <1>1, UncountedFinite DEF Uncounted
<1>4. Len(task_queue) \in Nat /\ Len(dropped) \in Nat /\ posted \in Nat
  BY LenProperties DEF TypeInv, TypeOK
<1>5. Outstanding' = Outstanding - 1
  BY <1>1, <1>2, <1>3, <1>4 DEF Outstanding
<1>6. BoundInv'
  BY <1>1, <1>2, <1>3, <1>4 DEF CounterInv, BoundInv
<1>7. Outstanding \in Int /\ Outstanding <= SIZE_MAX /\ -SIZE_MAX < Outstanding
  BY <1>2, <1>3, OutstandingRange, BoundsAssumption DEF CounterInv
<1>8. task_queue_size = Wrap(Outstanding)
  BY DEF CounterInv, CounterAgrees, Wrap
<1>9. task_queue_size' = Wrap(Outstanding')
  BY <1>5, <1>7, <1>8, WrapSub DEF UncountAndCall
<1>. QED  BY <1>6, <1>9 DEF CounterInv, CounterAgrees, Wrap

LEMMA CounterPost ==
  ASSUME CounterInv, TypeInv, NEW t \in Threads, PostStep(t)
  PROVE  CounterInv'
<1>1. CASE CountTask(t)
  BY <1>1, CounterCount
<1>2. CASE LockToNotify(t) \/ UnlockToNotify(t) \/ FutureGet(t)
  <2>1. Uncounted' = Uncounted
    BY <1>2, UncountedSame DEF LockToNotify, UnlockToNotify, FutureGet, PostPcs
  <2>2. UNCHANGED <<task_queue, dropped, loopPc, task_queue_size, posted>>
    BY <1>2 DEF LockToNotify, UnlockToNotify, FutureGet, loopVars, queueVars
  <2>. QED  BY <2>1, <2>2, CounterSame DEF Held
<1>3. CASE NotifyOne(t)
  <2>1. Uncounted' = Uncounted
    BY <1>3, UncountedSame DEF NotifyOne, PostPcs
  <2>2. UNCHANGED <<task_queue, dropped, task_queue_size, posted>>
    BY <1>3 DEF NotifyOne, queueVars
  <2>3. Held' = Held
    BY <1>3 DEF NotifyOne, Notified, Held
  <2>. QED  BY <2>1, <2>2, <2>3, CounterSame
<1>. QED  BY <1>1, <1>2, <1>3 DEF PostStep

LEMMA CounterLoop ==
  ASSUME CounterInv, TypeInv, LoopStep \/ SpuriousWake
  PROVE  CounterInv'
<1>. USE DEF queueVars, postVars
<1>1. CASE UncountAndCall
  BY <1>1, CounterUncount
<1>2. CASE Dequeue
  <2>1. PICK i \in 1..Len(task_queue) : task_queue' = RemoveAt(task_queue, i)
    BY <1>2 DEF Dequeue
  <2>2. Len(task_queue') = Len(task_queue) - 1 /\ Len(task_queue) \in Nat /\ Len(dropped) \in Nat
    BY <2>1, RemoveAtElements, LenProperties DEF TypeInv, TypeOK
  <2>3. Held = 0 /\ Held' = 1 /\ UNCHANGED <<dropped, postPc, task_queue_size, posted>>
    BY <1>2 DEF Dequeue, Held
  <2>. QED  BY <2>2, <2>3, CounterSame DEF Uncounted
<1>3. CASE Drop
  <2>1. Len(dropped') = Len(dropped) + 1 /\ Len(task_queue) \in Nat /\ Len(dropped) \in Nat
    BY <1>3, PastTask, AppendProperties, LenProperties DEF Drop, TypeInv, TypeOK, TaskHeld
  <2>2. Held = 1 /\ Held' = 0 /\ UNCHANGED <<task_queue, postPc, task_queue_size, posted>>
    BY <1>3 DEF Drop, Held
  <2>. QED  BY <2>1, <2>2, CounterSame DEF Uncounted
<1>4. CASE Bind \/ DequeueNone \/ Admit \/ TaskReturns \/ CheckDone \/ LockToWait
           \/ PredicateTrue \/ PredicateFalse \/ Sleep \/ SpuriousWake
  <2>1. Held' = Held /\ UNCHANGED <<task_queue, dropped, postPc, task_queue_size, posted>>
    BY <1>4 DEF Bind, DequeueNone, Admit, TaskReturns, CheckDone, LockToWait,
                PredicateTrue, PredicateFalse, Sleep, SpuriousWake, Held
  <2>. QED  BY <2>1, CounterSame DEF Uncounted
<1>. QED  BY <1>1, <1>2, <1>3, <1>4 DEF LoopStep

LEMMA CounterOwner ==
  ASSUME CounterInv, TypeInv, OwnInv, ResetBegin \/ StopBegin \/ OwnerStep \/ DeadlinePasses
  PROVE  CounterInv'
<1>1. UNCHANGED <<task_queue, dropped, postPc, task_queue_size, posted>>
  BY DEF ResetBegin, StopBegin, OwnerStep, NotifyAll, Join, Spawn, AwaitReady, DeadlinePasses,
         queueVars, postVars, loopVars
<1>2. Held' = Held
  BY DEF ResetBegin, StopBegin, OwnerStep, NotifyAll, Notified, Join, Spawn, AwaitReady,
         DeadlinePasses, loopVars, Held, OwnInv
<1>. QED  BY <1>1, <1>2, CounterSame DEF Uncounted

LEMMA CounterNext == TypeInv /\ OwnInv /\ CounterInv /\ [Next]_vars => CounterInv'
<1>. SUFFICES ASSUME TypeInv, OwnInv, CounterInv, [Next]_vars PROVE CounterInv'
  OBVIOUS
<1>1. CASE UNCHANGED vars
  BY <1>1, CounterSame DEF vars, queueVars, loopVars, postVars, ownerVars, Held, Uncounted
<1>2. CASE Next
  BY <1>2, CounterEnqueue, CounterPost, CounterLoop, CounterOwner DEF Next
<1>. QED  BY <1>1, <1>2

LEMMA CounterInit == Init => CounterInv
<1>. SUFFICES ASSUME Init PROVE CounterInv
  OBVIOUS
<1>1. Uncounted = {}
  BY DEF Init, Uncounted
<1>2. Cardinality(Uncounted) = 0
  BY <1>1, FS_EmptySet
<1>3. Held = 0 /\ Len(task_queue) = 0 /\ Len(dropped) = 0
  BY DEF Init, Held
<1>. QED  BY <1>2, <1>3 DEF Init, CounterInv, BoundInv, CounterAgrees, Outstanding

\* The atomic task_queue_size, updated outside any lock before and after the
\* lock-free queue, always equals (modulo its width) the tasks queued, held or
\* dropped less the posts not counted yet, for any number of threads.
THEOREM CounterCorrect == Spec => []CounterAgrees
<1>1. Init => OwnInv
  BY DEF Init, OwnInv
<1>2. CounterInv => CounterAgrees
  BY DEF CounterInv
<1>. QED
  BY <1>1, <1>2, TypeInit, TypeNext, OwnNext, CounterInit, CounterNext, PTL DEF Spec

(***************************************************************************)
(* Wake-ups: a post counted after the loop found the predicate false is    *)
(* still waiting for cv_mutex while the loop has it, so its notification   *)
(* comes after the loop is on the condition variable.                      *)
(***************************************************************************)
LEMMA WakePost ==
  ASSUME TypeInv, MutexInv, WakeInv, NEW t \in Threads, Enqueue(t) \/ PostStep(t)
  PROVE  WakeInv'
<1>. USE DEF WakeInv, TypeInv, TypeOK, queueVars, loopVars
<1>1. CASE Enqueue(t)
  <2>1. \A u \in Threads : postPc[u] \in {"lock", "unlock", "notify"} => postPc'[u] = postPc[u]
    BY <1>1 DEF Enqueue, MayPost
  <2>2. UNCHANGED <<task_queue_size, loopPc>>
    BY <1>1 DEF Enqueue
  <2>. QED  BY <2>1, <2>2
<1>2. CASE CountTask(t)
  <2>1. postPc'[t] = "lock" /\ loopPc' = loopPc
    BY <1>2 DEF CountTask
  <2>. QED  BY <2>1
<1>3. CASE LockToNotify(t)
  <2>1. loopPc' = loopPc /\ loopPc # "sleep"
    BY <1>3, ThreadsAssumption DEF LockToNotify, MutexInv, Threads
  <2>2. postPc'[t] = "unlock"
    BY <1>3 DEF LockToNotify
  <2>. QED  BY <2>1, <2>2
<1>4. CASE UnlockToNotify(t)
  <2>1. loopPc' = loopPc /\ postPc'[t] = "notify" /\ task_queue_size' = task_queue_size
    BY <1>4 DEF UnlockToNotify
  <2>2. \A u \in Threads : postPc[u] = "lock" => postPc'[u] = "lock"
    BY <1>4 DEF UnlockToNotify
  <2>. QED  BY <2>1, <2>2
<1>5. CASE NotifyOne(t)
  <2>1. loopPc' # "asleep" /\ (loopPc' = "sleep" => loopPc = "sleep")
    BY <1>5 DEF NotifyOne, Notified
  <2>2. \A u \in Threads : postPc[u] = "lock" => postPc'[u] = "lock"
    BY <1>5 DEF NotifyOne
  <2>3. task_queue_size' = task_queue_size
    BY <1>5 DEF NotifyOne
  <2>. QED  BY <2>1, <2>2, <2>3
<1>6. CASE FutureGet(t)
  <2>1. \A u \in Threads : postPc[u] \in {"lock", "unlock", "notify"} => postPc'[u] = postPc[u]
    BY <1>6 DEF FutureGet
  <2>2. UNCHANGED <<task_queue_size, loopPc>>
    BY <1>6 DEF FutureGet
  <2>. QED  BY <2>1, <2>2
<1>. QED  BY <1>1, <1>2, <1>3, <1>4, <1>5, <1>6 DEF PostStep

LEMMA WakeNext == TypeInv /\ MutexInv /\ WakeInv /\ [Next]_vars => WakeInv'
<1>. SUFFICES ASSUME TypeInv, MutexInv, WakeInv, [Next]_vars PROVE WakeInv'
  OBVIOUS
<1>. USE DEF WakeInv, queueVars, loopVars, postVars, ownerVars
<1>1. ASSUME NEW t \in Threads, Enqueue(t) \/ PostStep(t) PROVE WakeInv'
  BY <1>1, WakePost
<1>2. CASE PredicateFalse
  <2>1. task_queue_size' = 0 /\ loopPc' = "sleep"
    BY <1>2 DEF PredicateFalse, WakePredicate, TypeInv, TypeOK
  <2>. QED  BY <2>1
<1>3. CASE Sleep
  BY <1>3 DEF Sleep
<1>4. CASE Bind \/ Dequeue \/ DequeueNone \/ Admit \/ Drop \/ UncountAndCall \/ TaskReturns
           \/ CheckDone \/ LockToWait \/ PredicateTrue \/ SpuriousWake
  BY <1>4 DEF Bind, Dequeue, DequeueNone, Admit, Drop, UncountAndCall, TaskReturns, CheckDone,
              LockToWait, PredicateTrue, SpuriousWake
<1>5. CASE ResetBegin \/ StopBegin \/ DeadlinePasses \/ OwnerStep
  BY <1>5 DEF ResetBegin, StopBegin, DeadlinePasses, OwnerStep, NotifyAll, Notified, Join,
              Spawn, AwaitReady
<1>6. CASE UNCHANGED vars
  BY <1>6 DEF vars
<1>. QED  BY <1>1, <1>2, <1>3, <1>4, <1>5, <1>6 DEF Next, LoopStep

LEMMA WakeSound == TypeInv /\ CounterInv /\ WakeInv => NoLostWakeup
<1>. SUFFICES ASSUME TypeInv, CounterInv, WakeInv, loopPc = "asleep", task_queue # <<>>,
                     \A t \in Threads : postPc[t] \notin {"count", "lock", "unlock", "notify"}
              PROVE  FALSE
  BY DEF NoLostWakeup
<1>1. task_queue_size = 0
  BY DEF WakeInv
<1>2. Cardinality(Uncounted) = 0
  <2>1. Uncounted = {}
    BY DEF Uncounted
  <2>. QED  BY <2>1, FS_EmptySet
<1>3. Held = 0
  BY DEF Held
<1>4. Len(task_queue) \in Nat \ {0} /\ Len(dropped) \in Nat
  BY LenProperties, EmptySeq DEF TypeInv, TypeOK
<1>5. Outstanding > 0
  BY <1>2, <1>3, <1>4 DEF Outstanding
<1>6. Outstanding \in Int
  BY <1>2, <1>3, <1>4 DEF Outstanding
<1>. QED  BY <1>1, <1>5, <1>6 DEF CounterInv, CounterAgrees

\* A post never loses its wake-up: whenever the JS thread is blocked on the
\* condition variable and the queue is not empty, a thread is still on its way
\* to notify it.  This is what taking cv_mutex between fetch_add and
\* notify_one in post() is for.
THEOREM WakeupNeverLost == Spec => []NoLostWakeup
<1>1. Init => OwnInv /\ WakeInv
  BY DEF Init, OwnInv, WakeInv
<1>. QED
  BY <1>1, TypeInit, TypeNext, OwnNext, MutexInit, MutexNext, CounterInit, CounterNext,
     WakeNext, WakeSound, PTL DEF Spec

(***************************************************************************)
(* The order of tasks and the answers of post_sync.                        *)
(***************************************************************************)
\* The task the loop has dequeued, until it is dropped or has returned.
InHand == IF loopPc \in {"gate", "uncount", "run"} THEN {task} ELSE {}

Pending == Range(task_queue) \cup InHand
Seen    == Range(ran) \cup Range(dropped) \cup Pending

\* Ids grow along the queue, and the task in hand is older than what its
\* thread has in the queue.
OrderInv ==
  /\ \A x \in Seen : x.id <= posted
  /\ \A i, j \in 1..Len(task_queue) : i < j => task_queue[i].id < task_queue[j].id
  /\ \A x \in InHand : \A y \in Range(task_queue) :
       x.id # y.id /\ (x.by = y.by => x.id < y.id)
  /\ InHand = {} => task = NoTask

\* A post_sync task that can still be called is the last its thread posted,
\* and the thread is waiting for it.
SyncInv ==
  /\ \A t \in Threads : postPc[t] = "idle" => promise[t] = "none"
  /\ \A x \in Pending : x.sync =>
       /\ promise[x.by] = "unset"
       /\ \A y \in Seen : y.by = x.by => y.id <= x.id
  /\ loopPc = "run" => Past(task) \in Range(ran)
  /\ \A t \in Threads : promise[t] = "unset" =>
       \E x \in Pending \cup Range(dropped) : x.by = t /\ x.sync
  /\ \A t \in Threads : promise[t] = "set" =>
       \E x \in Range(ran) : x.by = t /\ x.sync /\ \A y \in Seen : y.by = t => y.id <= x.id

LEMMA PastFields ==
  \A x \in Task : Past(x).id = x.id /\ Past(x).by = x.by /\ Past(x).sync = x.sync
BY DEF Task, Past

LEMMA TaskFields ==
  \A x \in Task : x.id \in Int /\ x.by \in Threads /\ x.sync \in BOOLEAN
BY BoundsAssumption DEF Task

LEMMA SeenTasks ==
  ASSUME TypeInv
  PROVE  /\ Range(task_queue) \subseteq Task /\ Range(ran) \subseteq Task
         /\ Range(dropped) \subseteq Task /\ InHand \subseteq Task /\ Seen \subseteq Task
         /\ Len(task_queue) \in Nat /\ DOMAIN task_queue = 1..Len(task_queue)
<1>1. /\ Range(task_queue) \subseteq Task /\ Range(ran) \subseteq Task
      /\ Range(dropped) \subseteq Task
  BY RangeOfSeq DEF TypeInv, TypeOK
<1>2. InHand \subseteq Task
  BY DEF InHand, TypeInv, TaskHeld
<1>. QED  BY <1>1, <1>2, LenProperties DEF TypeInv, TypeOK, Seen, Pending

\* What the steps that move no task leave alone.
Quiet == UNCHANGED <<task_queue, task, ran, dropped, posted, InHand>>

LEMMA OrderQuiet ==
  ASSUME OrderInv, Quiet
  PROVE  OrderInv'
<1>1. Seen' = Seen
  BY DEF Quiet, Seen, Pending
<1>. QED  BY <1>1 DEF Quiet, OrderInv

\* Enqueue appends a task with the next id.
LEMMA EnqueueEffect ==
  ASSUME TypeInv, NEW t \in Threads, Enqueue(t)
  PROVE  \E x \in Task :
           /\ x.id = posted + 1 /\ x.by = t
           /\ task_queue' = Append(task_queue, x)
           /\ promise' = [promise EXCEPT ![t] = IF x.sync THEN "unset" ELSE "none"]
           /\ Range(task_queue') = Range(task_queue) \cup {x}
           /\ Len(task_queue') = Len(task_queue) + 1
           /\ task_queue'[Len(task_queue) + 1] = x
           /\ \A i \in 1..Len(task_queue) : task_queue'[i] = task_queue[i]
           /\ InHand' = InHand /\ Seen' = Seen \cup {x} /\ Pending' = Pending \cup {x}
<1>1. PICK sync \in BOOLEAN :
        /\ task_queue' = Append(task_queue, [id |-> posted + 1, by |-> t, sync |-> sync,
                                             rt |-> runtime])
        /\ promise' = [promise EXCEPT ![t] = IF sync THEN "unset" ELSE "none"]
  BY DEF Enqueue
<1>. DEFINE x == [id |-> posted + 1, by |-> t, sync |-> sync, rt |-> runtime]
<1>2. posted + 1 \in 1..MaxTasks /\ runtime \in 0..MaxResets
  BY BoundsAssumption DEF Enqueue, MayPost, TypeInv, TypeOK
<1>3. x \in Task
  BY <1>2 DEF Task
<1>4. x.id = posted + 1 /\ x.by = t /\ x.sync = sync
  OBVIOUS
<1>. HIDE DEF x
<1>5. task_queue \in Seq(Task)
  BY DEF TypeInv, TypeOK
<1>6. Range(task_queue') = Range(task_queue) \cup {x}
  BY <1>1, <1>3, <1>5, RangeOfAppend DEF x
<1>7. /\ Len(task_queue') = Len(task_queue) + 1 /\ task_queue'[Len(task_queue) + 1] = x
      /\ \A i \in 1..Len(task_queue) : task_queue'[i] = task_queue[i]
  BY <1>1, <1>3, <1>5, AppendProperties DEF x
<1>8. InHand' = InHand /\ Seen' = Seen \cup {x} /\ Pending' = Pending \cup {x}
  BY <1>6 DEF Enqueue, loopVars, InHand, Seen, Pending
<1>9. task_queue' = Append(task_queue, x)
  BY <1>1 DEF x
<1>. QED  BY <1>1, <1>3, <1>4, <1>6, <1>7, <1>8, <1>9

LEMMA OrderEnqueue ==
  ASSUME TypeInv, OrderInv, NEW t \in Threads, Enqueue(t)
  PROVE  OrderInv'
<1>1. PICK x \in Task :
        /\ x.id = posted + 1 /\ x.by = t
        /\ Range(task_queue') = Range(task_queue) \cup {x}
        /\ Len(task_queue') = Len(task_queue) + 1
        /\ task_queue'[Len(task_queue) + 1] = x
        /\ \A i \in 1..Len(task_queue) : task_queue'[i] = task_queue[i]
        /\ InHand' = InHand /\ Seen' = Seen \cup {x}
  BY EnqueueEffect
<1>2. posted' = posted + 1 /\ posted \in Int /\ task' = task
  BY DEF Enqueue, loopVars, TypeInv, TypeOK
<1>3. \A y \in Seen : y.id \in Int /\ y.id <= posted
  BY SeenTasks, TaskFields DEF OrderInv
<1>4. \A y \in Seen' : y.id <= posted'
  BY <1>1, <1>2, <1>3
<1>5. ASSUME NEW i \in 1..Len(task_queue'), NEW j \in 1..Len(task_queue'), i < j
      PROVE  task_queue'[i].id < task_queue'[j].id
  <2>1. Len(task_queue) \in Nat /\ DOMAIN task_queue = 1..Len(task_queue)
    BY SeenTasks
  <2>2. i \in 1..Len(task_queue)
    BY <1>1, <1>5, <2>1
  <2>3. task_queue[i] \in Seen
    BY <2>1, <2>2 DEF Seen, Pending, Range
  <2>4. CASE j = Len(task_queue) + 1
    BY <1>1, <1>2, <1>3, <2>2, <2>3, <2>4
  <2>5. CASE j \in 1..Len(task_queue)
    BY <1>1, <1>5, <2>2, <2>5 DEF OrderInv
  <2>. QED  BY <2>4, <2>5, <2>1, <1>1
<1>6. ASSUME NEW y \in InHand', NEW z \in Range(task_queue')
      PROVE  y.id # z.id /\ (y.by = z.by => y.id < z.id)
  <2>1. y \in InHand /\ y \in Seen
    BY <1>1, <1>6 DEF Seen, Pending
  <2>2. CASE z = x
    BY <1>1, <1>2, <1>3, <2>1, <2>2
  <2>3. CASE z \in Range(task_queue)
    BY <2>1, <2>3 DEF OrderInv
  <2>. QED  BY <1>1, <2>2, <2>3
<1>. QED  BY <1>1, <1>2, <1>4, <1>5, <1>6 DEF OrderInv

\* Dequeue moves a task that is the oldest of its thread from queue to hand.
LEMMA DequeueEffect ==
  ASSUME TypeInv, OrderInv, Dequeue
  PROVE  /\ InHand = {} /\ InHand' = {task'} /\ task' \in Range(task_queue)
         /\ Range(task_queue) = Range(task_queue') \cup {task'}
         /\ Pending' = Pending /\ Seen' = Seen
         /\ \A y \in Range(task_queue') :
              task'.id # y.id /\ (task'.by = y.by => task'.id < y.id)
         /\ \A i, j \in 1..Len(task_queue') : i < j => task_queue'[i].id < task_queue'[j].id
<1>1. PICK i \in 1..Len(task_queue) :
        /\ IsStreamHead(task_queue, i) /\ task' = task_queue[i]
        /\ task_queue' = RemoveAt(task_queue, i)
  BY DEF Dequeue
<1>2. /\ Range(task_queue) \subseteq Task /\ Len(task_queue) \in Nat
      /\ DOMAIN task_queue = 1..Len(task_queue) /\ task_queue \in Seq(Task)
  BY SeenTasks DEF TypeInv, TypeOK
<1>3. InHand = {} /\ InHand' = {task'}
  BY DEF Dequeue, InHand
<1>4. Range(task_queue) = Range(task_queue') \cup {task'}
  BY <1>1, <1>2, RangeOfRemoveAt
<1>5. Pending' = Pending /\ Seen' = Seen
  BY <1>3, <1>4 DEF Dequeue, Pending, Seen
<1>6. /\ Len(task_queue') = Len(task_queue) - 1
      /\ DOMAIN task_queue' = 1..(Len(task_queue) - 1)
      /\ \A k \in 1..(Len(task_queue) - 1) :
           task_queue'[k] = IF k < i THEN task_queue[k] ELSE task_queue[k + 1]
  BY <1>1, <1>2, RemoveAtElements, LenProperties
<1>7. ASSUME NEW k \in 1..Len(task_queue), k # i
      PROVE  /\ task_queue[i].id # task_queue[k].id
             /\ task_queue[i].by = task_queue[k].by => task_queue[i].id < task_queue[k].id
  <2>1. task_queue[i].id \in Int /\ task_queue[k].id \in Int
    BY <1>2, TaskFields, ElementOfSeq
  <2>2. CASE k < i
    <3>1. k \in 1..(i - 1)
      BY <1>2, <2>2
    <3>2. task_queue[k].by # task_queue[i].by
      BY <1>1, <3>1 DEF IsStreamHead
    <3>. QED  BY <2>1, <2>2, <3>2 DEF OrderInv
  <2>3. CASE i < k
    BY <2>1, <2>3 DEF OrderInv
  <2>. QED  BY <1>2, <1>7, <2>2, <2>3
<1>8. ASSUME NEW y \in Range(task_queue')
      PROVE  task'.id # y.id /\ (task'.by = y.by => task'.id < y.id)
  <2>1. PICK k \in 1..(Len(task_queue) - 1) : y = task_queue'[k]
    BY <1>6 DEF Range
  <2>2. PICK m \in 1..Len(task_queue) : m # i /\ y = task_queue[m]
    BY <2>1, <1>2, <1>6
  <2>. QED  BY <2>2, <1>1, <1>7
<1>9. ASSUME NEW k \in 1..Len(task_queue'), NEW m \in 1..Len(task_queue'), k < m
      PROVE  task_queue'[k].id < task_queue'[m].id
  <2>. DEFINE a == IF k < i THEN k ELSE k + 1
              b == IF m < i THEN m ELSE m + 1
  <2>1. a \in 1..Len(task_queue) /\ b \in 1..Len(task_queue) /\ a < b
    BY <1>2, <1>6, <1>9
  <2>2. task_queue'[k] = task_queue[a] /\ task_queue'[m] = task_queue[b]
    BY <1>6
  <2>. HIDE DEF a, b
  <2>. QED  BY <2>1, <2>2 DEF OrderInv
<1>10. task' \in Range(task_queue)
  BY <1>4
<1>. QED  BY <1>3, <1>4, <1>5, <1>8, <1>9, <1>10

\* Drop and UncountAndCall write the task in hand to a history.
LEMMA HistoryEffect ==
  ASSUME TypeInv
  PROVE  /\ Drop => /\ InHand = {task} /\ InHand' = {} /\ task \in Task
                    /\ Range(dropped') = Range(dropped) \cup {Past(task)}
                    /\ Seen' \subseteq Seen \cup {Past(task)} /\ Pending' = Range(task_queue)
         /\ UncountAndCall => /\ InHand = {task} /\ InHand' = {task} /\ task \in Task
                              /\ Range(ran') = Range(ran) \cup {Past(task)}
                              /\ Seen' = Seen \cup {Past(task)} /\ Pending' = Pending
<1>1. dropped \in Seq(Task) /\ ran \in Seq(Task)
  BY DEF TypeInv, TypeOK
<1>2. ASSUME Drop
      PROVE  /\ InHand = {task} /\ InHand' = {} /\ task \in Task
             /\ Range(dropped') = Range(dropped) \cup {Past(task)}
             /\ Seen' \subseteq Seen \cup {Past(task)} /\ Pending' = Range(task_queue)
  <2>1. InHand = {task} /\ InHand' = {} /\ task \in Task
    BY <1>2 DEF Drop, InHand, TypeInv, TaskHeld
  <2>2. Range(dropped') = Range(dropped) \cup {Past(task)}
    BY <1>1, <1>2, <2>1, PastTask, RangeOfAppend DEF Drop
  <2>3. UNCHANGED <<task_queue, ran>>
    BY <1>2 DEF Drop, queueVars
  <2>. QED  BY <2>1, <2>2, <2>3 DEF Seen, Pending
<1>3. ASSUME UncountAndCall
      PROVE  /\ InHand = {task} /\ InHand' = {task} /\ task \in Task
             /\ Range(ran') = Range(ran) \cup {Past(task)}
             /\ Seen' = Seen \cup {Past(task)} /\ Pending' = Pending
  <2>1. InHand = {task} /\ InHand' = {task} /\ task \in Task
    BY <1>3 DEF UncountAndCall, InHand, TypeInv, TaskHeld
  <2>2. Range(ran') = Range(ran) \cup {Past(task)}
    BY <1>1, <1>3, <2>1, PastTask, RangeOfAppend DEF UncountAndCall
  <2>3. UNCHANGED <<task_queue, dropped>>
    BY <1>3 DEF UncountAndCall
  <2>. QED  BY <2>1, <2>2, <2>3 DEF Seen, Pending
<1>. QED  BY <1>2, <1>3

\* Every other step of the loop and of the owner is quiet.
LEMMA QuietSteps ==
  ASSUME TypeInv, OwnInv,
         \/ \E t \in Threads : PostStep(t)
         \/ Bind \/ DequeueNone \/ Admit \/ CheckDone \/ LockToWait \/ PredicateTrue
         \/ PredicateFalse \/ Sleep \/ SpuriousWake
         \/ ResetBegin \/ StopBegin \/ OwnerStep \/ DeadlinePasses
         \/ UNCHANGED vars
  PROVE  Quiet
<1>. USE DEF Quiet, InHand, queueVars, loopVars, postVars, ownerVars
<1>1. ASSUME NEW t \in Threads, PostStep(t) PROVE Quiet
  BY <1>1 DEF PostStep, CountTask, LockToNotify, UnlockToNotify, NotifyOne, FutureGet, Notified
<1>2. CASE Bind \/ DequeueNone \/ Admit \/ CheckDone \/ LockToWait \/ PredicateTrue
           \/ PredicateFalse \/ Sleep \/ SpuriousWake
  BY <1>2 DEF Bind, DequeueNone, Admit, CheckDone, LockToWait, PredicateTrue,
              PredicateFalse, Sleep, SpuriousWake
<1>3. CASE ResetBegin \/ StopBegin \/ DeadlinePasses
  BY <1>3 DEF ResetBegin, StopBegin, DeadlinePasses
<1>4. CASE NotifyAll \/ Join \/ AwaitReady
  BY <1>4 DEF NotifyAll, Notified, Join, AwaitReady
<1>5. CASE Spawn
  BY <1>5 DEF Spawn, OwnInv
<1>6. CASE UNCHANGED vars
  BY <1>6 DEF vars
<1>. QED  BY <1>1, <1>2, <1>3, <1>4, <1>5, <1>6 DEF OwnerStep

LEMMA OrderInit == Init => OrderInv
<1>. SUFFICES ASSUME Init PROVE OrderInv
  OBVIOUS
<1>1. Range(task_queue) = {} /\ Range(ran) = {} /\ Range(dropped) = {} /\ Len(task_queue) = 0
  BY DEF Init, Range
<1>2. InHand = {} /\ task = NoTask
  BY DEF Init, InHand
<1>. QED  BY <1>1, <1>2 DEF OrderInv, Seen, Pending

LEMMA OrderNext == TypeInv /\ OwnInv /\ OrderInv /\ [Next]_vars => OrderInv'
<1>. SUFFICES ASSUME TypeInv, OwnInv, OrderInv, [Next]_vars PROVE OrderInv'
  OBVIOUS
<1>0. \A x \in Seen : x \in Task /\ x.id \in Int
  BY SeenTasks, TaskFields
<1>1. ASSUME NEW t \in Threads, Enqueue(t) PROVE OrderInv'
  BY <1>1, OrderEnqueue
<1>2. CASE Dequeue
  <2>1. posted' = posted
    BY <1>2 DEF Dequeue, postVars
  <2>. QED  BY <2>1, <1>2, DequeueEffect DEF OrderInv
<1>3. CASE Drop
  <2>1. UNCHANGED <<task_queue, posted>> /\ task' = NoTask
    BY <1>3 DEF Drop, postVars, queueVars
  <2>2. task \in Seen /\ Past(task).id = task.id
    BY <1>3, HistoryEffect, PastFields DEF Seen, Pending
  <2>3. Seen' \subseteq Seen \cup {Past(task)} /\ InHand' = {}
    BY <1>3, HistoryEffect
  <2>. QED  BY <2>1, <2>2, <2>3 DEF OrderInv
<1>4. CASE UncountAndCall
  <2>1. UNCHANGED <<task_queue, posted, task>>
    BY <1>4 DEF UncountAndCall, postVars
  <2>2. task \in Seen /\ Past(task).id = task.id
    BY <1>4, HistoryEffect, PastFields DEF Seen, Pending
  <2>3. Seen' = Seen \cup {Past(task)} /\ InHand' = InHand
    BY <1>4, HistoryEffect
  <2>. QED  BY <2>1, <2>2, <2>3 DEF OrderInv
<1>5. CASE TaskReturns
  <2>1. UNCHANGED <<task_queue, posted, ran, dropped>> /\ task' = NoTask /\ InHand' = {}
    BY <1>5 DEF TaskReturns, queueVars, InHand
  <2>2. Seen' \subseteq Seen
    BY <2>1 DEF Seen, Pending
  <2>. QED  BY <2>1, <2>2 DEF OrderInv
<1>. QED
  BY <1>1, <1>2, <1>3, <1>4, <1>5, QuietSteps, OrderQuiet DEF Next, LoopStep

(***************************************************************************)
(* post_sync.                                                              *)
(***************************************************************************)
\* Quiet steps that change promises at most from "set" to "none", when the
\* thread has its answer.
LEMMA SyncQuiet ==
  ASSUME TypeInv, SyncInv, Quiet, loopPc' = "run" => loopPc = "run",
         \A t \in Threads :
           \/ promise'[t] = promise[t] /\ (postPc'[t] = "idle" => promise[t] = "none")
           \/ promise[t] = "set" /\ promise'[t] = "none"
  PROVE  SyncInv'
<1>1. Seen' = Seen /\ Pending' = Pending /\ UNCHANGED <<ran, dropped, task>>
  BY DEF Quiet, Seen, Pending
<1>2. \A x \in Pending : x.by \in Threads
  BY SeenTasks, TaskFields DEF Seen, Pending
<1>3. \A t \in Threads : promise'[t] # "none" => promise'[t] = promise[t]
  OBVIOUS
<1>4. \A t \in Threads : promise[t] = "unset" => promise'[t] = "unset"
  OBVIOUS
<1>. QED  BY <1>1, <1>2, <1>3, <1>4 DEF SyncInv

LEMMA SyncEnqueue ==
  ASSUME TypeInv, OrderInv, SyncInv, NEW t \in Threads, Enqueue(t)
  PROVE  SyncInv'
<1>1. PICK x \in Task :
        /\ x.id = posted + 1 /\ x.by = t
        /\ promise' = [promise EXCEPT ![t] = IF x.sync THEN "unset" ELSE "none"]
        /\ Seen' = Seen \cup {x} /\ Pending' = Pending \cup {x}
  BY EnqueueEffect
<1>2. /\ UNCHANGED <<loopPc, task, ran, dropped>> /\ postPc' = [postPc EXCEPT ![t] = "count"]
      /\ promise[t] = "none" /\ posted \in Int
  BY DEF Enqueue, MayPost, loopVars, SyncInv, TypeInv, TypeOK
<1>3. promise \in [Threads -> {"none", "unset", "set"}] /\ postPc \in [Threads -> PostPcs]
  BY DEF TypeInv, TypeOK
<1>4. \A y \in Seen : y \in Task /\ y.id \in Int /\ y.by \in Threads /\ y.id <= posted
  BY SeenTasks, TaskFields DEF OrderInv
<1>5. \A u \in Threads : u # t => promise'[u] = promise[u] /\ postPc'[u] = postPc[u]
  BY <1>1, <1>2, <1>3
<1>6. promise'[t] = (IF x.sync THEN "unset" ELSE "none") /\ postPc'[t] = "count"
  BY <1>1, <1>2, <1>3
<1>7. \A u \in Threads : postPc'[u] = "idle" => promise'[u] = "none"
  BY <1>5, <1>6 DEF SyncInv
<1>8. ASSUME NEW y \in Pending', y.sync
      PROVE  promise'[y.by] = "unset" /\ \A z \in Seen' : z.by = y.by => z.id <= y.id
  <2>1. CASE y = x
    BY <1>1, <1>2, <1>4, <1>6, <1>8, <2>1
  <2>2. CASE y \in Pending
    <3>1. y.by # t /\ y.by \in Threads
      BY <1>2, <1>4, <1>8, <2>2 DEF SyncInv, Seen
    <3>. QED  BY <1>1, <1>5, <1>8, <2>2, <3>1 DEF SyncInv
  <2>. QED  BY <1>1, <2>1, <2>2
<1>9. ASSUME NEW u \in Threads, promise'[u] = "unset"
      PROVE  \E y \in Pending' \cup Range(dropped') : y.by = u /\ y.sync
  <2>1. CASE u = t
    BY <1>1, <1>6, <1>9, <2>1
  <2>2. CASE u # t
    BY <1>1, <1>2, <1>5, <1>9, <2>2 DEF SyncInv
  <2>. QED  BY <2>1, <2>2
<1>10. ASSUME NEW u \in Threads, promise'[u] = "set"
       PROVE  \E y \in Range(ran') : y.by = u /\ y.sync /\ \A z \in Seen' : z.by = u => z.id <= y.id
  <2>1. u # t /\ promise[u] = "set"
    BY <1>5, <1>6, <1>10
  <2>2. PICK y \in Range(ran) : y.by = u /\ y.sync /\ \A z \in Seen : z.by = u => z.id <= y.id
    BY <2>1 DEF SyncInv
  <2>. QED  BY <1>1, <1>2, <2>1, <2>2
<1>11. loopPc' = "run" => Past(task') \in Range(ran')
  BY <1>2 DEF SyncInv
<1>. QED  BY <1>7, <1>8, <1>9, <1>10, <1>11 DEF SyncInv

LEMMA SyncDequeue ==
  ASSUME TypeInv, OrderInv, SyncInv, Dequeue
  PROVE  SyncInv'
<1>1. Pending' = Pending /\ Seen' = Seen
  BY DequeueEffect
<1>2. UNCHANGED <<promise, postPc, ran, dropped>> /\ loopPc' = "gate"
  BY DEF Dequeue, postVars
<1>. QED  BY <1>1, <1>2 DEF SyncInv

LEMMA SyncDrop ==
  ASSUME TypeInv, OrderInv, SyncInv, Drop
  PROVE  SyncInv'
<1>1. UNCHANGED <<promise, postPc, ran, task_queue>> /\ loopPc' = "check"
  BY DEF Drop, postVars, queueVars
<1>2. /\ InHand = {task} /\ Pending' = Range(task_queue) /\ Seen' \subseteq Seen \cup {Past(task)}
      /\ Range(dropped') = Range(dropped) \cup {Past(task)}
      /\ Past(task).id = task.id /\ Past(task).by = task.by /\ Past(task).sync = task.sync
  BY HistoryEffect, PastFields
<1>3. task \in Seen /\ Pending' \subseteq Pending
  BY <1>2 DEF Seen, Pending
<1>4. ASSUME NEW t \in Threads, promise'[t] = "unset"
      PROVE  \E x \in Pending' \cup Range(dropped') : x.by = t /\ x.sync
  <2>1. PICK x \in Pending \cup Range(dropped) : x.by = t /\ x.sync
    BY <1>1, <1>4 DEF SyncInv
  <2>2. CASE x = task
    BY <1>2, <2>1, <2>2
  <2>3. CASE x # task
    BY <1>2, <2>1, <2>3 DEF Pending
  <2>. QED  BY <2>2, <2>3
<1>5. ASSUME NEW x \in Pending', x.sync
      PROVE  promise'[x.by] = "unset" /\ \A y \in Seen' : y.by = x.by => y.id <= x.id
  BY <1>1, <1>2, <1>3, <1>5 DEF SyncInv
<1>6. ASSUME NEW t \in Threads, promise'[t] = "set"
      PROVE  \E x \in Range(ran') : x.by = t /\ x.sync /\ \A y \in Seen' : y.by = t => y.id <= x.id
  BY <1>1, <1>2, <1>3, <1>6 DEF SyncInv
<1>. QED  BY <1>1, <1>4, <1>5, <1>6 DEF SyncInv

LEMMA SyncCall ==
  ASSUME TypeInv, OrderInv, SyncInv, UncountAndCall
  PROVE  SyncInv'
<1>1. UNCHANGED <<promise, postPc, dropped, task>>
  BY DEF UncountAndCall, postVars
<1>2. /\ InHand = {task} /\ Pending' = Pending /\ Seen' = Seen \cup {Past(task)}
      /\ Range(ran') = Range(ran) \cup {Past(task)}
      /\ Past(task).id = task.id /\ Past(task).by = task.by
  BY HistoryEffect, PastFields
<1>3. task \in Seen
  BY <1>2 DEF Seen, Pending
<1>4. ASSUME NEW x \in Pending', x.sync
      PROVE  promise'[x.by] = "unset" /\ \A y \in Seen' : y.by = x.by => y.id <= x.id
  BY <1>1, <1>2, <1>3, <1>4 DEF SyncInv
<1>5. ASSUME NEW t \in Threads, promise'[t] = "set"
      PROVE  \E x \in Range(ran') : x.by = t /\ x.sync /\ \A y \in Seen' : y.by = t => y.id <= x.id
  BY <1>1, <1>2, <1>3, <1>5 DEF SyncInv
<1>. QED  BY <1>1, <1>2, <1>4, <1>5 DEF SyncInv

LEMMA SyncReturn ==
  ASSUME TypeInv, OrderInv, SyncInv, TaskReturns
  PROVE  SyncInv'
<1>1. /\ UNCHANGED <<postPc, ran, dropped, task_queue>> /\ loopPc' = "drain"
      /\ promise' = IF task.sync THEN [promise EXCEPT ![task.by] = "set"] ELSE promise
      /\ loopPc = "run"
  BY DEF TaskReturns, queueVars
<1>2. /\ InHand = {task} /\ InHand' = {} /\ task \in Task /\ task.by \in Threads
      /\ Past(task).id = task.id /\ Past(task).by = task.by /\ Past(task).sync = task.sync
  BY <1>1, PastFields, TaskFields DEF InHand, TypeInv, TaskHeld
<1>3. /\ Seen' \subseteq Seen /\ Pending' = Range(task_queue) /\ task \in Pending
      /\ Pending = Range(task_queue) \cup {task} /\ Pending \subseteq Seen
  BY <1>1, <1>2 DEF Seen, Pending
<1>4. \A y \in Seen : y \in Task /\ y.id \in Int /\ y.by \in Threads
  BY SeenTasks, TaskFields
<1>5. promise \in [Threads -> {"none", "unset", "set"}]
  BY DEF TypeInv, TypeOK
<1>6. CASE ~task.sync
  <2>1. promise' = promise
    BY <1>1, <1>6
  <2>2. ASSUME NEW t \in Threads, promise'[t] = "unset"
        PROVE  \E x \in Pending' \cup Range(dropped') : x.by = t /\ x.sync
    BY <1>1, <1>3, <1>6, <2>1, <2>2 DEF SyncInv
  <2>. QED  BY <1>1, <1>3, <2>1, <2>2 DEF SyncInv
<1>7. CASE task.sync
  <2>1. /\ promise'[task.by] = "set"
        /\ \A u \in Threads : u # task.by => promise'[u] = promise[u]
    BY <1>1, <1>2, <1>5, <1>7
  <2>2. promise[task.by] = "unset" /\ \A y \in Seen : y.by = task.by => y.id <= task.id
    BY <1>3, <1>7 DEF SyncInv
  <2>3. \A u \in Threads : postPc'[u] = "idle" => promise'[u] = "none"
    BY <1>1, <1>2, <2>1, <2>2 DEF SyncInv
  <2>4. ASSUME NEW x \in Pending', x.sync
        PROVE  promise'[x.by] = "unset" /\ \A y \in Seen' : y.by = x.by => y.id <= x.id
    <3>1. x \in Range(task_queue) /\ x \in Seen /\ x \in Pending
      BY <1>3, <2>4
    <3>2. x.by # task.by
      <4>. SUFFICES ASSUME x.by = task.by PROVE FALSE
        OBVIOUS
      <4>1. x.id <= task.id /\ task.id <= x.id
        BY <1>3, <2>2, <2>4, <3>1 DEF SyncInv
      <4>2. x.id = task.id
        BY <1>3, <1>4, <3>1, <4>1
      <4>. QED  BY <1>2, <3>1, <4>2 DEF OrderInv
    <3>. QED  BY <1>3, <1>4, <2>1, <2>4, <3>1, <3>2 DEF SyncInv
  <2>5. ASSUME NEW t \in Threads, promise'[t] = "unset"
        PROVE  \E x \in Pending' \cup Range(dropped') : x.by = t /\ x.sync
    <3>1. t # task.by /\ promise[t] = "unset"
      BY <2>1, <2>5
    <3>2. PICK x \in Pending \cup Range(dropped) : x.by = t /\ x.sync
      BY <3>1 DEF SyncInv
    <3>. QED  BY <1>1, <1>3, <3>1, <3>2
  <2>6. ASSUME NEW t \in Threads, promise'[t] = "set"
        PROVE  \E x \in Range(ran') : x.by = t /\ x.sync /\ \A y \in Seen' : y.by = t => y.id <= x.id
    <3>1. CASE t = task.by
      <4>1. Past(task) \in Range(ran')
        BY <1>1 DEF SyncInv
      <4>. QED  BY <1>2, <1>3, <1>7, <2>2, <3>1, <4>1
    <3>2. CASE t # task.by
      BY <1>1, <1>3, <2>1, <2>6, <3>2 DEF SyncInv
    <3>. QED  BY <3>1, <3>2
  <2>. QED  BY <1>1, <2>3, <2>4, <2>5, <2>6 DEF SyncInv
<1>. QED  BY <1>6, <1>7

LEMMA SyncPost ==
  ASSUME TypeInv, OwnInv, SyncInv, NEW t \in Threads, PostStep(t)
  PROVE  SyncInv'
<1>1. Quiet
  BY QuietSteps
<1>2. loopPc' = "run" => loopPc = "run"
  BY DEF PostStep, CountTask, LockToNotify, UnlockToNotify, NotifyOne, FutureGet, Notified, loopVars
<1>3. \A u \in Threads :
        \/ promise'[u] = promise[u] /\ (postPc'[u] = "idle" => promise[u] = "none")
        \/ promise[u] = "set" /\ promise'[u] = "none"
  <2>. USE DEF TypeInv, TypeOK, SyncInv
  <2>1. CASE CountTask(t)
    BY <2>1 DEF CountTask
  <2>2. CASE LockToNotify(t)
    BY <2>2 DEF LockToNotify
  <2>3. CASE UnlockToNotify(t)
    BY <2>3 DEF UnlockToNotify
  <2>4. CASE NotifyOne(t)
    BY <2>4 DEF NotifyOne
  <2>5. CASE FutureGet(t)
    BY <2>5 DEF FutureGet
  <2>. QED  BY <2>1, <2>2, <2>3, <2>4, <2>5 DEF PostStep
<1>. QED  BY <1>1, <1>2, <1>3, SyncQuiet

LEMMA SyncNext == TypeInv /\ OwnInv /\ OrderInv /\ SyncInv /\ [Next]_vars => SyncInv'
<1>. SUFFICES ASSUME TypeInv, OwnInv, OrderInv, SyncInv, [Next]_vars PROVE SyncInv'
  OBVIOUS
<1>1. ASSUME NEW t \in Threads, Enqueue(t) \/ PostStep(t) PROVE SyncInv'
  BY <1>1, SyncEnqueue, SyncPost
<1>2. CASE Dequeue \/ Drop \/ UncountAndCall \/ TaskReturns
  BY <1>2, SyncDequeue, SyncDrop, SyncCall, SyncReturn
<1>3. CASE \/ Bind \/ DequeueNone \/ Admit \/ CheckDone \/ LockToWait \/ PredicateTrue
           \/ PredicateFalse \/ Sleep \/ SpuriousWake
           \/ ResetBegin \/ StopBegin \/ OwnerStep \/ DeadlinePasses
           \/ UNCHANGED vars
  <2>1. Quiet
    BY <1>3, QuietSteps
  <2>2. UNCHANGED <<promise, postPc>>
    BY <1>3 DEF Bind, DequeueNone, Admit, CheckDone, LockToWait, PredicateTrue, PredicateFalse,
                Sleep, SpuriousWake, ResetBegin, StopBegin, OwnerStep, NotifyAll, Join, Spawn,
                AwaitReady, DeadlinePasses, vars, postVars
  <2>3. loopPc' = "run" => loopPc = "run"
    BY <1>3 DEF Bind, DequeueNone, Admit, CheckDone, LockToWait, PredicateTrue, PredicateFalse,
                Sleep, SpuriousWake, ResetBegin, StopBegin, OwnerStep, NotifyAll, Notified, Join,
                Spawn, AwaitReady, DeadlinePasses, vars, loopVars
  <2>4. \A t \in Threads : postPc[t] = "idle" => promise[t] = "none"
    BY DEF SyncInv
  <2>. QED  BY <2>1, <2>2, <2>3, <2>4, SyncQuiet
<1>. QED  BY <1>1, <1>2, <1>3 DEF Next, LoopStep

LEMMA SyncInit == Init => SyncInv
<1>. SUFFICES ASSUME Init PROVE SyncInv
  OBVIOUS
<1>1. Range(task_queue) = {} /\ InHand = {}
  BY DEF Init, Range, InHand
<1>. QED  BY <1>1 DEF Init, SyncInv, Pending

LEMMA SyncSound == TypeInv /\ OrderInv /\ SyncInv => SyncAnswerIsOwn
<1>. SUFFICES ASSUME TypeInv, OrderInv, SyncInv, NEW t \in Threads
              PROVE
                /\ promise[t] = "unset" =>
                     \E x \in Range(task_queue) \cup {task} \cup Range(dropped) :
                        x.by = t /\ x.sync
                /\ promise[t] = "set" =>
                     \E x \in Range(ran) :
                        /\ x.by = t /\ x.sync
                        /\ \A y \in Range(ran) \cup Range(task_queue) \cup Range(dropped) :
                              y.by = t => y.id <= x.id
  BY DEF SyncAnswerIsOwn
<1>1. Pending \subseteq Range(task_queue) \cup {task}
  BY DEF Pending, InHand
<1>2. Range(ran) \cup Range(task_queue) \cup Range(dropped) \subseteq Seen
  BY DEF Seen, Pending
<1>. QED  BY <1>1, <1>2 DEF SyncInv

\* Whoever calls post_sync gets the answer of the task it posted last, for any
\* number of callers: a promise that is not set has its task queued, in hand or
\* dropped, and one that is set was set by the caller's latest task.
THEOREM SyncAnswersOwn == Spec => []SyncAnswerIsOwn
<1>1. Init => OwnInv
  BY DEF Init, OwnInv
<1>. QED
  BY <1>1, TypeInit, TypeNext, OwnNext, OrderInit, OrderNext, SyncInit, SyncNext, SyncSound,
     PTL DEF Spec

(***************************************************************************)
(* Refinement: the event loop is a TaskService.                            *)
(***************************************************************************)
\* The tasks accepted and not yet taken, as the refinement mapping sees them.
Untaken == Range(task_queue) \cup (IF loopPc \in {"gate", "uncount"} THEN {task} ELSE {})

Calls(s) == [i \in DOMAIN s |-> AsService(s[i])]

LEMMA CallsAppend ==
  ASSUME NEW s \in Seq(Task), NEW x \in Task
  PROVE  Calls(Append(s, x)) = Append(Calls(s), AsService(x))
<1>. DEFINE S == {AsService(y) : y \in Task}
            u == Append(s, x)
            v == Append(Calls(s), AsService(x))
<1>1. /\ u \in Seq(Task) /\ Len(s) \in Nat /\ DOMAIN s = 1..Len(s)
      /\ DOMAIN u = 1..(Len(s) + 1) /\ u[Len(s) + 1] = x
      /\ \A i \in 1..Len(s) : u[i] = s[i]
  BY AppendProperties, LenProperties
<1>2. Calls(s) \in Seq(S) /\ Len(Calls(s)) = Len(s)
  <2>1. \A i \in 1..Len(s) : AsService(s[i]) \in S
    BY ElementOfSeq
  <2>2. Calls(s) \in [1..Len(s) -> S]
    <3>. HIDE DEF S
    <3>. QED  BY <1>1, <2>1 DEF Calls
  <2>. HIDE DEF S
  <2>3. Calls(s) \in Seq(S)
    BY <1>1, <2>2, IsASeq
  <2>. QED  BY <1>1, <2>2, <2>3, LenProperties
<1>3. AsService(x) \in S
  OBVIOUS
<1>. HIDE DEF S
<1>4. /\ DOMAIN v = 1..(Len(s) + 1) /\ v[Len(s) + 1] = AsService(x)
      /\ \A i \in 1..Len(s) : v[i] = Calls(s)[i]
      /\ v \in Seq(S)
  BY <1>2, <1>3, AppendProperties
<1>5. \A i \in 1..Len(s) : Calls(s)[i] = AsService(s[i])
  BY <1>1 DEF Calls
<1>. HIDE DEF u, v
<1>6. ASSUME NEW i \in 1..(Len(s) + 1) PROVE AsService(u[i]) = v[i]
  <2>1. CASE i = Len(s) + 1
    BY <2>1, <1>1, <1>4
  <2>2. CASE i \in 1..Len(s)
    BY <2>2, <1>1, <1>4, <1>5
  <2>. QED  BY <2>1, <2>2, <1>1
<1>7. v = [i \in 1..(Len(s) + 1) |-> v[i]]
  BY <1>4, LenProperties
<1>8. Calls(u) = [i \in 1..(Len(s) + 1) |-> AsService(u[i])]
  BY <1>1 DEF Calls
<1>. QED  BY <1>6, <1>7, <1>8 DEF u, v

\* A task is the same to its caller before and after its runtime is forgotten.
LEMMA ServicePast == \A x \in Task : AsService(Past(x)) = AsService(x)
BY PastFields DEF AsService

\* A step that takes no task stutters, or opens or closes the service.
LEMMA ServiceStutter ==
  ASSUME UNCHANGED <<posted, Untaken, ran, dropped>>
  PROVE  Service!ServiceNext \/ UNCHANGED Service!serviceVars
<1>1. CASE (shutdown_deadline = "passed") <=> (shutdown_deadline = "passed")'
  BY <1>1 DEF Service!serviceVars, Untaken
<1>2. CASE (shutdown_deadline = "passed") <=> ~(shutdown_deadline = "passed")'
  BY <1>2 DEF Service!ServiceNext, Service!OpenOrClose, Untaken
<1>. QED  BY <1>1, <1>2

\* Enqueue accepts a task.
LEMMA ServiceAccept ==
  ASSUME TypeInv, NEW t \in Threads, Enqueue(t)
  PROVE  Service!Accept
<1>1. PICK x \in Task : /\ x.id = posted + 1 /\ x.by = t
                        /\ Range(task_queue') = Range(task_queue) \cup {x}
  BY EnqueueEffect
<1>2. AsService(x) = [id |-> posted + 1, by |-> t]
  BY <1>1 DEF AsService
<1>3. /\ posted < MaxTasks /\ posted' = posted + 1
      /\ UNCHANGED <<loopPc, task, ran, dropped, shutdown_deadline>>
  BY DEF Enqueue, MayPost, loopVars, ownerVars
<1>4. Untaken' = Untaken \cup {x}
  BY <1>1, <1>3 DEF Untaken
<1>5. {AsService(y) : y \in Untaken'} =
        {AsService(y) : y \in Untaken} \cup {[id |-> posted + 1, by |-> t]}
  BY <1>2, <1>4
<1>. QED  BY <1>3, <1>5 DEF Service!Accept, Untaken

\* The task in hand is one the service may take: the oldest of its thread.
LEMMA ServiceTakes ==
  ASSUME TypeInv, OrderInv, loopPc \in {"gate", "uncount"}, UNCHANGED task_queue,
         loopPc' \notin {"gate", "uncount"}
  PROVE  LET W == {AsService(y) : y \in Untaken}
             x == AsService(task)
         IN  /\ x \in W
             /\ \A y \in W : y.by = x.by => x.id <= y.id
             /\ {AsService(y) : y \in Untaken'} = W \ {x}
<1>1. InHand = {task} /\ Untaken = Range(task_queue) \cup {task} /\ Untaken' = Range(task_queue)
  BY DEF InHand, Untaken
<1>2. \A y \in Range(task_queue) : task.id # y.id /\ (task.by = y.by => task.id < y.id)
  BY <1>1 DEF OrderInv
<1>3. \A y \in Untaken : y.id \in Int
  BY <1>1, SeenTasks, TaskFields
<1>4. \A y : AsService(y).id = y.id /\ AsService(y).by = y.by
  BY DEF AsService
<1>5. \A y \in Range(task_queue) : AsService(y) # AsService(task)
  BY <1>2, <1>4
<1>. QED  BY <1>1, <1>2, <1>3, <1>4, <1>5

LEMMA ServiceCall ==
  ASSUME TypeInv, OrderInv, UncountAndCall
  PROVE  Service!Call
<1>1. /\ task \in Task /\ loopPc = "uncount" /\ loopPc' = "run"
      /\ UNCHANGED <<task_queue, posted, dropped, shutdown_deadline>>
      /\ ran' = Append(ran, Past(task)) /\ ran \in Seq(Task)
  BY DEF UncountAndCall, TypeInv, TypeOK, TaskHeld, postVars, ownerVars
<1>2. Calls(ran') = Append(Calls(ran), AsService(task))
  BY <1>1, CallsAppend, PastTask, ServicePast
<1>3. PICK x \in {AsService(y) : y \in Untaken} :
        /\ x = AsService(task)
        /\ \A y \in {AsService(z) : z \in Untaken} : y.by = x.by => x.id <= y.id
        /\ {AsService(y) : y \in Untaken'} = {AsService(y) : y \in Untaken} \ {x}
  BY <1>1, ServiceTakes
<1>. QED  BY <1>1, <1>2, <1>3 DEF Service!Call, Service!Oldest, Untaken, Calls

LEMMA ServiceDiscard ==
  ASSUME TypeInv, OrderInv, Drop
  PROVE  Service!Discard
<1>1. /\ task \in Task /\ loopPc = "gate" /\ loopPc' = "check"
      /\ UNCHANGED <<task_queue, posted, ran, shutdown_deadline>>
      /\ shutdown_deadline = "passed"
      /\ dropped' = Append(dropped, Past(task)) /\ dropped \in Seq(Task)
  BY DEF Drop, TypeInv, TypeOK, TaskHeld, queueVars, postVars, ownerVars
<1>2. Calls(dropped') = Append(Calls(dropped), AsService(task))
  BY <1>1, CallsAppend, PastTask, ServicePast
<1>3. PICK x \in {AsService(y) : y \in Untaken} :
        /\ x = AsService(task)
        /\ \A y \in {AsService(z) : z \in Untaken} : y.by = x.by => x.id <= y.id
        /\ {AsService(y) : y \in Untaken'} = {AsService(y) : y \in Untaken} \ {x}
  BY <1>1, ServiceTakes
<1>. QED  BY <1>1, <1>2, <1>3 DEF Service!Discard, Service!Oldest, Untaken, Calls

\* Every other step takes no task.
LEMMA ServiceQuiet ==
  ASSUME TypeInv, OwnInv, OrderInv, [Next]_vars,
         \A t \in Threads : ~Enqueue(t), ~UncountAndCall, ~Drop
  PROVE  UNCHANGED <<posted, Untaken, ran, dropped>>
<1>. USE DEF Untaken, queueVars, loopVars, postVars, ownerVars
<1>1. ASSUME NEW t \in Threads, PostStep(t) PROVE UNCHANGED <<posted, Untaken, ran, dropped>>
  BY <1>1 DEF PostStep, CountTask, LockToNotify, UnlockToNotify, NotifyOne, FutureGet, Notified
<1>2. CASE Bind \/ DequeueNone \/ Admit \/ TaskReturns \/ CheckDone \/ LockToWait
           \/ PredicateTrue \/ PredicateFalse \/ Sleep \/ SpuriousWake
  BY <1>2 DEF Bind, DequeueNone, Admit, TaskReturns, CheckDone, LockToWait, PredicateTrue,
              PredicateFalse, Sleep, SpuriousWake
<1>3. CASE Dequeue
  <2>1. Range(task_queue) = Range(task_queue') \cup {task'}
    BY <1>3, DequeueEffect
  <2>. QED  BY <1>3, <2>1 DEF Dequeue
<1>4. CASE ResetBegin \/ StopBegin \/ DeadlinePasses
  BY <1>4 DEF ResetBegin, StopBegin, DeadlinePasses
<1>5. CASE NotifyAll \/ Join \/ AwaitReady
  BY <1>5 DEF NotifyAll, Notified, Join, AwaitReady
<1>6. CASE Spawn
  BY <1>6 DEF Spawn, OwnInv
<1>7. CASE UNCHANGED vars
  BY <1>7 DEF vars
<1>. QED  BY <1>1, <1>2, <1>3, <1>4, <1>5, <1>6, <1>7 DEF Next, LoopStep, OwnerStep

LEMMA ServiceInitial == Init => Service!ServiceInit
<1>. SUFFICES ASSUME Init PROVE Service!ServiceInit
  OBVIOUS
<1>1. Range(task_queue) = {}
  BY DEF Init, Range
<1>2. Untaken = {}
  BY <1>1 DEF Untaken, Init
<1>3. Calls(<<>>) = <<>>
  BY DEF Calls
<1>. QED  BY <1>2, <1>3 DEF Init, Service!ServiceInit, Untaken, Calls

LEMMA ServiceStep ==
  TypeInv /\ OwnInv /\ OrderInv /\ [Next]_vars => [Service!ServiceNext]_Service!serviceVars
<1>. SUFFICES ASSUME TypeInv, OwnInv, OrderInv, [Next]_vars
              PROVE  Service!ServiceNext \/ UNCHANGED Service!serviceVars
  OBVIOUS
<1>1. CASE \E t \in Threads : Enqueue(t)
  BY <1>1, ServiceAccept DEF Service!ServiceNext
<1>2. CASE UncountAndCall
  BY <1>2, ServiceCall DEF Service!ServiceNext
<1>3. CASE Drop
  BY <1>3, ServiceDiscard DEF Service!ServiceNext
<1>4. CASE (\A t \in Threads : ~Enqueue(t)) /\ ~UncountAndCall /\ ~Drop
  BY <1>4, ServiceQuiet, ServiceStutter
<1>. QED  BY <1>1, <1>2, <1>3, <1>4

\* The event loop implements TaskService for any number of threads and tasks:
\* post, the drain loop, the deadline and the reloads call a task at most once,
\* in its thread's order, and give one up only past a deadline.
THEOREM LoopIsTaskService == Spec => ImplementsTaskService
<1>1. Init => OwnInv
  BY DEF Init, OwnInv
<1>. QED
  BY <1>1, TypeInit, TypeNext, OwnNext, OrderInit, OrderNext, ServiceInitial, ServiceStep,
     PTL DEF Spec, ImplementsTaskService, Service!ServiceSpec
=============================================================================
