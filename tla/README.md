# TLA+ verification of breeze-js

breeze-js embeds the QuickJS engine behind a C++ `script_context`. One thread,
the *JS thread*, owns the engine; every other thread of the host reaches it
through a task queue. A folder of scripts can be watched and reloaded, and every
reload replaces the thread, the runtime and the context. On top of this sit
timers, coroutines that become promises, and the usual web objects.

These modules model the host's own code and those parts of the engine it embeds
(`src/src/quickjs`) whose state is shared by many operations: memory, promises,
modules, ordered maps and regular expressions. Source paths below are relative
to `src/src/breeze-js/`; those of the engine are in `quickjs.c` and
`libregexp.c` of `src/src/quickjs/`.

## Inventory

| Component | Source | State | Operations | What makes it correct |
|---|---|---|---|---|
| Event loop | `script.cc`, `headers/breeze-js/script.h`, `job_queue.cc` | lock-free `task_queue`, atomic `task_queue_size`, `cv_mutex`, `task_queue_cv`, `shutdown_deadline`, the JS thread | `post`, `post_sync`, `run_event_loop`, `reset_runtime`, `stop_event_loop_in_time` | no wake-up is lost; a task is called at most once and in its producer's order; a caller gets its own answer; joins return |
| Platform thread | `platform_thread.cc` | native handle, joinable flag | construct, move, `join`, `detach` | never replaced while joinable |
| Coroutine and promise bridge | `headers/breeze-js/quickjspp.hpp`, `quickjspp.cc` | resolving functions owned by C++, the awaiting thread's `SharedState` | `js_traits<Lazy<T>>::wrap`, `Value::await` | a promise settles once and as its coroutine ended; an await is answered truthfully |
| Value wrapper | `headers/breeze-js/quickjspp.hpp` | reference counts, `ctx_holder` | copy, move, destroy, `as`, conversions | references are balanced and changed on the JS thread only |
| Timers | `binding/std/infra.cc` | global list of `Timer`, one timer thread | `setTimeout`, `setInterval`, `clearTimeout` | a timeout fires once, not early; a cleared timer does not fire; timers of an old context go |
| Folder watch | `script.cc`, `FileWatch.hpp` | `has_update`, inotify events, callback vector | notification, poll, reload | every change ends in a reload that reads it |
| URL query | `binding/std/infra.cc` | the URL's search, lists of pairs, pointers both ways | `append`, `remove`, `set`, `sort`, `set_search`, `set_href` | both copies of the query agree, edits survive encoding |
| Base64, Blob, Headers, Response, fetch | `binding/std/*.cc` | bytes, header lists | encode, slice, get/set, fetch | round trips, ranges, case-insensitive names |
| File system | `binding/std/filesystem.cc` | none of its own | read, write, list | errors reported |
| Windows message-loop wait | `quickjspp.cc` | a flag and a thread message | `wait_with_msgloop` | the wait ends |
| Command line | `../breeze-js-cli/main.cc` | none | evaluate, await, watch | exit code |
| Engine: memory | `quickjs.c` | reference counts, the object lists, weak records | dup, free, `JS_RunGC`, WeakRef, WeakMap, FinalizationRegistry | nothing in use is freed, all garbage is found, counts are exact |
| Engine: promises | `quickjs.c`, `job_queue.cc` | promise states, reactions, queued jobs, generator requests | resolving functions, `then`, `finally`, combinators, `await`, `yield` | settled once, in order, with the right outcome, and no job is lost |
| Engine: modules | `quickjs.c` | module status, DFS indices, pending counts, promises | link, evaluate, `import()` | bodies run once and in order, promises truthful and settled |
| Engine: Map and Set | `quickjs.c` | list of counted records, iterators | `set`, `delete`, `clear`, `forEach`, `next` | walks survive any change |
| Engine: regular expressions | `libregexp.c`, `quickjs.c` | bytecode, captures, stack of saved states, `lastIndex` | compile, `exec` | the preferred match, within the computed stack, in finite time |
| Engine: the rest | `quickjs.c`, `libbf.c`, `libunicode.c`, `cutils.c` | - | parser, interpreter, built-ins, numbers, Unicode | ECMAScript |

How they interact. Everything that touches JS values off the JS thread goes
through `post` (a plain task) or `post_sync` / a wrapped `std::function` (a task
the caller blocks on). Promise jobs of the engine are posted to the same queue
(`JS_EnqueueJob`). The timer thread posts each callback and waits for it.
Executor threads run coroutines and post the task that settles the promise.
`watch_folder` runs on the thread that owns the `script_context`, and calls
`reset_runtime` while all the others may be posting. Context identity is a
`weak_ptr` that some code checks before it posts and other code when the task
runs.

What is hard here: the handshake of a lock-free queue, an atomic counter and a
condition variable; shutting that loop down from outside while tasks are
posted; what happens over a reload to everything queued or waiting; a list shared by two
threads without a lock; a flag cleared by one thread and set by another;
polling that posts itself. In the engine nothing runs in parallel, and the
difficulty is in re-entry: scripts run in the middle of walks, jobs run between any
two operations, a sweep frees objects that refer to each other, and a graph is
walked again while parts of it still await. `PROJECT.json` lists each hazard at its line.

## Modules

| Module | Models | Composition |
|---|---|---|
| `EventLoop` | the event loop at the granularity of its atomic, mutex and condition-variable operations | refines `TaskService` |
| `TaskService` | what the loop promises: tasks accepted, called in producer order at most once, discarded only once closed | abstract |
| `AsyncBridge` | coroutine wrap and await | over an event loop abstracted to what `EventLoop` shows |
| `Timers` | the three timer functions and the timer thread | its `Reset`, `LoopEnds` and `NewRuntime` are `reset_runtime` seen from outside |
| `Watcher` | `watch_folder` and the two `FileWatch` threads | its `ResetRuntime` is `reset_runtime` seen from outside |
| `UrlQuery` | a URL and its query objects | - |
| `Heap` | reference counting, cycle collection, weak records | - |
| `Promises` | promises, jobs, async functions and generators, combinators | its queue is what `EventLoop` gives to one producer |
| `Modules` | linking and evaluation of module graphs | a body that awaits is a promise of `Promises` seen from outside |
| `MapRecords` | Map and Set as a list of counted records | refines `OrderedMap` |
| `OrderedMap` | what Map and Set promise to scripts | abstract |
| `Regexp` | compiler and backtracking machine, with the meaning of patterns | - |
| `EventLoop_proofs`, `Watcher_proofs`, `AsyncBridge_proofs`, `Timers_proofs`, `MapRecords_proofs`, `Promises_proofs`, `Heap_proofs` | theorems | extend the modules |
| `Filters` | what a loop that removes elements leaves of a list | used by `MapRecords`, `Promises` |
| `SequenceLemmas` | facts on appending, removing and filtering | used by the proofs |
| `MC*` | what the TLC configurations run | extend the modules |

Definitions marked as mutations are plausible bugs, each of which replaces one
definition and makes one property fail. The specifications use none of them.

### EventLoop

One action per statement that another thread can see. `post` is `Enqueue`,
`CountTask`, `LockToNotify`, `UnlockToNotify`, `NotifyOne`; `post_sync` adds
`FutureGet`. The loop is `Dequeue`/`DequeueNone`, the deadline test
(`Admit`/`Drop`), `UncountAndCall`, `TaskReturns`, `CheckDone`, then `LockToWait`,
the predicate, and the wait (`Sleep`). Between `PredicateFalse` and `Sleep` the
mutex is still held, as `condition_variable::wait` releases it and blocks
atomically with respect to a notifier that takes it; a notifier that does not
take it can act in between. `reset_runtime` is `ResetBegin`, `NotifyAll`, `Join`,
`Spawn`, `AwaitReady`. `task_queue_size` is a `size_t` and wraps at `SIZE_MAX`.
The moodycamel queue is external: one FIFO stream per producer, and a dequeue
takes the head of any stream. `shutdown_deadline` is read at each use; torn reads
of the unsynchronised optional are not modelled.

### AsyncBridge

`Wrap` takes the two references, `LazyFinishes` runs the callback as far as
`weak.lock()`, `PostSettle`/`CountSettle` are the two halves of `post`, `Settle` is
the posted task. `Await` posts the first task, `Poll` is that task and every
re-posted one. What a coroutine does (fetch, sleep, file access) is abstracted to
ending with a value or an error. A context is a number; it is expired when `js`
points to another one and no callback holds the pointer it locked. A task that
uses values of a freed runtime sets `corrupt`, after which nothing is claimed. The
loop takes the oldest task of any producer: `try_dequeue` without a token (`script.cc:140`)
picks the largest of the first few non-empty streams and does not rotate, so the model gives
no stream a turn of its own.

### Timers

The list is scanned one node per step, so scripts may set and clear timers in
the middle; a `clearTimeout` of the node under the iterator leaves it `dangling`,
and the next step may kill the process. `std::remove_if` is `RemoveNext`, node by node, and
`RemoveDone`; `erase(it, timers.end())` is `EraseNulls`, which removes all that is behind
the iterator by then: a timer pushed since `remove_if` ended is `swept`. Time is a counter of its own;
`age` records how long a timer has really waited. `Reset` is the deadline of `reset_runtime` and is
set at any time. From then on the loop drops a callback that is posted to it (`DropCallback`): it stays counted,
so the loop never ends, `join` never returns, the context is not replaced and the timer thread waits for
ever (`stuck`). Otherwise the loop ends (`LoopEnds`) and the runtime is replaced (`NewRuntime`);
a callback posted between the two is called by the new loop. `delay` and `elapsed` are ints that wrap at `INT_MAX`, and
`TimerConstants` assumes delays that keep clear of it and a period (`sleep_time`)
that is positive and an int, as the constant of the code is.

### Watcher

The user's edits, inotify's events, the reading thread, the callback thread and
`watch_folder` itself. A file has a version, so "the runtime evaluated what is on
disk" is a comparison. `has_update` is a plain bool in the code and is treated as
atomic. `watch_folder` never returns, so `FileWatch::destroy` is not reached.
The Linux back end is modelled.

### UrlQuery

A query text is a sequence of characters each written as itself or escaped,
which is all the parser looks at. Malformed escapes, which `percent_decode`
leaves or half-reads, do not occur. `std::sort` may order pairs of one name in
any way. Once the URL is freed, an edit of a held query object goes through the
dangling `$url_object` and sets `corrupt`.

### Heap

A node is an *object* (what a JS value points to: objects and function bytecode) or a
*cell* (variable references, shapes, async frames). Scripts allocate, capture
variables, store, load and drop; `LetGo` is `JS_FreeValue`, whose last reference
queues the object and enters `FreeZero`. A collection is `RunGC`, `GcDecref`,
`GcScan` (repeated), `GcRestore`, `GcFreeCycles`; the engine's lists are sets, and a
step frees any member, so the order of a list never matters to a property. During
a sweep a value that loses its last reference outside the garbage waits for the
next collection, as the code leaves it. A finalization callback whose held object the
same sweep frees later sets `corrupt`, after which nothing is claimed: the test
before `JS_EnqueueJob` sees only what is already freed. `unregister` is the loop that it is
(`Unregister`, `UnregisterEntry`, `UnregisterEnds`): it saves the link to the next entry, frees the value and the token of
this one with all that goes with them, and follows the link. When that freed the target of the next entry,
`reset_weak_ref` has freed the entry too, and `UnregisterFreed` sets `corrupt`. The unregister token is held
strongly, as in the code. Symbols as targets, the callback function of a registry (one
reference for its life) and the teardown of a runtime are left out.

### Promises

The engine's state is one record, and each C function a function from that record
to the next, as calls nest. A script's step is a call; a job's step is one job from the
head of the queue, with the outcome of the script code in it (a return, a throw, an
await, a yield) chosen freely. Values are a plain value, a promise, an object with a
script's `then`, or one whose `then` getter throws. The promises that `then` returns to the
engine itself are dropped there and left out. An iterator that fails in a combinator
fails after the items. A completed generator answers one request and leaves its loop
(`goto done`), so requests that were queued meanwhile wait for the next call; the model does the same.

### Modules

The two depth-first walks are loops over an explicit stack of frames (`call`) beside
the code's own `stack_top`. DFS indices are compared only between modules on
that stack, so the place on it stands for the index. Resolution of names and creation
of module functions is `Link` or `LinkFails`. A body without top-level await runs inside
its walk; one with it is `running` until `BodyFulfilled` or `BodyRejected`. `late` marks
imports that met a module that is done with `async_evaluation` still set.

### MapRecords

A record is the number of its creation. A *walk* is an iterator or a running `forEach`.
`IteratorNext` moves from the held record over zombies to the next live one and drops the
reference to the old, with nothing freed in between. `forEach` is more than that: when its
callback returns it saves the link to the next record, lets go of its own and frees what the
callback returned (`ForEachReturns`), and only then follows the link and holds a record
(`ForEachNext`). `clear` likewise saves the link and frees a key and a value (`MapClear`, `ClearNext`,
`ClearEnds`). Between the halves finalizers run, and with them `Abandon`, which may free the record that the link
leads to: `FollowFreed` then sets `corrupt`, after which nothing happens. The
refinement maps a walk of `OrderedMap` to the index it is at; a `clear` under way has emptied the map. The hash table,
which only finds a record by its key, is left out, as are iterators stored in the map they walk.

### Regexp

A pattern is the tree its text stands for. `re_parse_*` emit the code of
`libregexp.c` with one unit per instruction and relative jumps; the actions are the opcodes of
`lre_exec_backtrack`; `Exec` and `Return` are `js_regexp_exec`. The meaning
(`Ways`) is a list of all matches from a position, preferred first, defined without code or stack.
It follows the code where that departs from ECMAScript: captures inside a quantified atom
are cleared once, before a quantifier whose minimum is 0, and not at each iteration, so that
`/(?:(a)|b)*/` on `"ab"` keeps its first group. A `lastIndex` between the halves of a
surrogate pair is left out.

## Runs

| Run | Checks | Bounds |
|---|---|---|
| `event_loop_safety` | `TypeOK`, `CounterAgrees`, `NoLostWakeup`, `SyncAnswerIsOwn`, `ThreadOwned`, `ImplementsTaskService` | one posting thread, the owner and scripts as producers, 3 tasks, 2 runtimes, 1 timed stop, a 3-bit counter |
| `event_loop_liveness` | `EveryTaskCalled`, `SyncCallsReturn`, `JoinReturns` | the same with 2 tasks |
| `async_bridge` | `SettledAsRun`, `AwaitAnswersTruly`, `EveryPromiseSettles`, `EveryAwaitReturns` | 2 coroutines, 1 awaiter, 1 reload, 1 stop |
| `timers` | `FiresOnce`, `NotTooEarly`, `EveryTimerFires`, `StaleTimersLeave` | 2 timers, delay of 2 periods at the edge of `INT_MAX`, 2 reloads |
| `watcher` | `ChangeNotForgotten`, `LoadedCatchesUp` | 2 scripts and another file, 4 edits |
| `url_query` | `SearchAgrees`, `EditsAreExact` | 2 query objects, lists of 2 pairs, names and values with `?`, `=`, `&` |
| `heap` | `NothingDangles`, `CountsExact`, `GarbageFound` | 3 objects (symmetric), 1 cell, 1 field each, 1 weak record and 1 more entry with its token, 1 queued callback |
| `promises` | `SingleResolver`, `ReactionsInOrder`, `AdoptsOutcome`, `OneWakeup`, `AnswersInOrder`, `CombinatorOutcome`, `NothingForgotten` | 9 scenarios, each a budget of operations in any order |
| `modules` | `RunsOnceInOrder`, `PromiseTruthful`, `GraphConsistent`, `FreshImportsSettle` | 3 modules, 2 imports; all graphs without self-requests, those with one up to 2 requests; any modules await |
| `modules_leftover` | `ImportsSettle`, violated | the same |
| `map_records` | `RefsExact`, `ImplementsOrderedMap` | 3 keys, 2 values, 2 iterators, 1 `forEach`, 4 records |
| `regexp` | `MatchExact`, `StackWithinBound`, `ExecReturns` | 110 expressions; all texts over two letters up to length 4, and some with line ends and surrogates |

Bounds. Three tasks are the least at which one is held by the loop, one queued
and one being posted, from three producers. Two runtimes are needed for a task to
outlive one. Two timers let one be set or cleared while the other is scanned, moved or
called; two reloads are the least at which a callback outlives one and is dropped by the next. Four edits leave room for one before, one during and one after a reload.
A three-bit counter wraps below zero exactly as 64 bits do, since fewer tasks
than its range are posted. Three objects make a cycle with a third party outside or
inside it, and one weak record then has its owner, target and value on either side; a second
entry of the same registry and token is the least at which `unregister` has a link to save. Three
modules are the least with a cycle and a module outside it, or a diamond of awaits;
two imports are needed to meet what the first one left. Four records with three walks
let two stand on zombies while keys come back, and an iterator let go of the record that a `forEach` goes on to. Six shapes of atoms under eight
quantifiers, greedy and lazy, reach every branch of the quantifier's code.
Deadlock is checked in `regexp`, where a call can always be made or go on; elsewhere
the environment may stop asking for anything.

### Departures

Where the code departs from what the repository says of it. The first is a run;
the others are properties of their modules that TLC refutes with the constants given here
(a configuration of the module's `MC` module under `FairSpec`, or `Spec` where there is no other; an `INVARIANT` for
`StopSignalSeen`, `NoneSwept`, `SavedEntryStays` and `ElementLocked`, a `PROPERTY` for the others).

- `Modules`, `ImportsSettle` (run `modules_leftover`). `js_async_module_execution_fulfilled`
  clears `async_evaluation` of the module whose body ended, but not of the synchronous
  modules it then runs (`quickjs.c:27810`). A later `import()` of one of these, or of a module that
  requests one, stays pending for ever, against "Return a promise" of `quickjs.c:27986`.
- `EventLoop`, `StopSignalSeen`. `reset_runtime` (`script.cc:164`) and
  `stop_event_loop_in_time` (`script.cc:342`) call `notify_all` without `cv_mutex`; the signal falls between
  predicate and wait and the join never returns, which the comment at `script.cc:122-125`
  warns of for `post`. Posters = SyncPosters = {p1}, MaxTasks = 1, MaxResets = 1,
  MaxStops = 1, SIZE_MAX = 7.
- `EventLoop`, `DrainedMeansDone`. A task dequeued past the deadline is destroyed without being
  uncounted (`script.cc:140-142`); "the queue is now empty, we're done" (`script.cc:147`) never comes true
  and the loop spins while the owner joins it. MaxTasks = 2, MaxResets = 2, MaxStops = 0, `FairSpec`.
- `EventLoop`, `NeverCalledStale`. `post` enqueues before it counts; a loop that drains for a
  reload can end with the task queued, and the next runtime's loop calls it with the freed
  context, although `quickjspp.hpp:3023` says "Context gone, can't free JS values
  safely" (that is tested when the task is posted). MaxTasks = 1, MaxResets = 2, MaxStops = 0.
- `AsyncBridge`, `AwaitSurvivesReload`. The answer "Context destroyed while awaiting promise"
  (`quickjspp.hpp:2795`) is given by a task that the reload itself drops, so the awaiting
  thread blocks for ever. One call, one awaiter, MaxReloads = 1.
- `Timers`, `ClearedIsDisarmed`. `timer->id = timers.size() + 1` (`infra.cc:92`, `:114`) repeats an id in use
  once an older timer left the list; clearing one timer removes the other, against "should not
  execute callback if cleared" (`src/tests/js/tests/infra.ts:80`). Delays = {2},
  sleep_time = 1, MaxTimers = 3, MaxReloads = 0, INT_MAX = 2.
- `Timers`, `NoneSwept`. `std::remove_if` returns its iterator before `erase(it, timers.end())` asks for the end
  (`infra.cc:61-63`); a `setTimeout` that pushes between the two (`infra.cc:94`) is erased with the nulls
  and never fires. The constants of `Timers.cfg`.
- `Timers`, `ResetReturns`. `reset_runtime` sets its deadline at any time (`script.cc:163`); the loop then drops the callback
  that the timer thread has posted (`script.cc:139-145`), nobody sets the promise it waits on
  (`quickjspp.hpp:2443-2448`), and as the dropped task stays counted `join` does not return either. The timers of the process
  stop; those of a context before this one stay in the list. The constants of `Timers.cfg`.
- `AsyncBridge`, `AwaitNeverStarves`. A poll that finds its promise pending posts itself again (`quickjspp.hpp:2827`), and
  `try_dequeue` without a token (`script.cc:140`) may take it before the task that settles the promise, for ever.
  The constants of `AsyncBridge.cfg`.
- `Heap`, `SavedEntryStays`. `js_finrec_unregister` frees a held value inside `list_for_each_safe`
  (`quickjs.c:55624-55633`). If it is the last reference to the target of the next entry, `reset_weak_ref`
  frees that entry (`:55706-55707`, `:55742-55744`) and the loop goes on from freed memory. `js_finrec_finalizer` takes
  two passes to "avoid having them modified by freeing a token / held value" (`:55516`). The constants of `Heap.cfg`.
- `MapRecords`, `ElementLocked`. `js_map_forEach` moves on and then frees what its callback returned (`quickjs.c:47414-47418`). If that
  was the last reference to an iterator on a zombie which is next in the list, the record is freed (`:47576-47578`)
  and read at `:47400`, against "the current element is locked" (`:47396`). `js_map_clear` has the same gap
  between two records (`:47363`). The constants of `MapRecords.cfg`.
- `Watcher`, `LoadedCatchesUp` with Kinds = {"modify", "rename"}, Files = JsFiles = {a},
  MaxEdits = 2. A script moved into the folder raises `IN_MOVED_TO`, which the mask
  (`FileWatch.hpp:613`) does not ask for, and is never loaded.

`JoinReturns` holds with the first two of `EventLoop`'s as its only exceptions. Likewise `EveryTimerFires`
excepts what `NoneSwept` and `ResetReturns` speak of, `StaleTimersLeave` the latter, and
`EveryPromiseSettles` and `EveryAwaitReturns` the executions of `AwaitNeverStarves`. The properties of
`Heap` and `MapRecords` claim nothing after `corrupt`.

## Fairness

Weak fairness only, and only of what the machine does by itself: a thread that
can take its next step is scheduled, a posted task returns, a coroutine ends,
clocks advance. Nobody is obliged to post, set, clear, edit, reset or stop.
In `AsyncBridge` the loop is fair as a whole: it takes some task while there is one. Nothing is assumed of
which one, as the queue promises nothing (see there), so the two liveness properties except the executions in which from some
point on the loop takes polls of a pending promise for ever while a task that settles one waits
(`PassesOver`). In `Timers` the loop, the timer thread and time are fair; nobody has to reload.
`Modules` assumes that a C call goes on to its end (weak fairness of `Walk` and `Loop`)
and that what a body awaits settles some time; nobody is obliged to import. `Regexp`
assumes that a running call takes its next step. `Heap`, `Promises` and
`MapRecords` are checked for safety only: what `Promises` could promise eventually is stated
for the state in which no job is left (`NothingForgotten`).

## Theorems

Checked by TLAPS for every value of the constants that satisfies the named
assumptions: `ThreadsAssumption`, `BoundsAssumption`, `WatcherConstants`,
`BridgeConstants`, `TimerConstants`, `MapConstants`, `PromiseConstants`, `HeapConstants`. They give the
constants their types and sizes (finite sets of walks and of nodes, a positive period); the one that restricts the program's inputs is
the bound on delays in `TimerConstants`. TLC evaluates each in the component's runs.

`EventLoop_proofs`:

- `TypeCorrect`: `TypeOK` always holds. Inductive with facts on `task` while the
  loop holds one (`TypeInv`).
- `ThreadAlwaysOwned`: `ThreadOwned`. `OwnInv` adds that a runtime is only made
  after a join, which ties `ownerPc` to `joinable`.
- `CounterCorrect`: `CounterAgrees`. `CounterInv` adds `BoundInv`: the
  uncounted posts, and the tasks queued, held and dropped, are each at most the
  `posted` ones, so that the modular arithmetic of the `size_t` counter stays exact.
- `WakeupNeverLost`: `NoLostWakeup`. `WakeInv` rests on `MutexInv` (who holds
  `cv_mutex` where) and on the counter: a loop that saw the predicate false while
  a task was queued saw it uncounted, so its poster has still to take the mutex,
  which the loop holds until it is blocked. This is the comment in `post()` as a
  theorem.
- `SyncAnswersOwn`: `SyncAnswerIsOwn`. `OrderInv` says that ids grow along the queue and that the
  task in hand is older than what its thread has queued; `SyncInv` that a `post_sync`
  task which can still be called is the last one of its thread, whose promise is unset,
  and that every set promise was set by such a task. Hence the future never returns for
  another call's task.
- `LoopIsTaskService`: the refinement `ImplementsTaskService`. The waiting tasks of
  the service are those queued plus the one dequeued and not yet admitted (`Untaken`); every
  step is accepting, calling, discarding, opening or closing, or a stutter. That a
  thread's tasks are called in its order comes from `OrderInv`.

`Watcher_proofs`:

- `NoChangeForgotten`: `ChangeNotForgotten`, assuming that inotify reports every kind
  of edit and that edits begin once the watch is in place (`EditsNoticed`); the two
  exclusions are exactly the ways in which the property fails. The invariant adds
  that a buffer which its thread has passed is empty, so an event is in some buffer until
  `has_update` is set.

`AsyncBridge_proofs`:

- `PromiseSettledAsRun`: `SettledAsRun`, and `AwaitAlwaysTruthful`: `AwaitAnswersTruly`, for
  any number of coroutines, awaiters and reloads. `BridgeInv` is
  `TypeInv /\ (corrupt \/ Core)`: until a task of a freed runtime has run, at most one task of each
  coroutine and awaiter is queued, a promise is pending with its two references until
  the one task that settles it is called (`LazyInv`), and what polls own belongs to an
  await without an answer (`AwaitInv`).

`Timers_proofs`:

- `FiresAtMostOnce`: `FiresOnce`. `OnceInv` follows a timeout through the places where two
  threads hold it without a lock: a node that is not reset means that nothing of its
  timer is collected, posted or called; a collected callback is collected once. `remove_if` only exchanges two nodes,
  and the erase, a clear or a reset at any moment only takes something away.
- `NeverTooEarly`: the action property `NotTooEarly`. `TimeInv` bounds how far the counted
  time of a node is ahead of the time it has waited: what is left of the sleep while the
  thread sleeps, nothing while the scan has not reached the node, one period after
  (`Slack`).

`MapRecords_proofs`:

- `RefsAlwaysExact`: `RefsExact`, the counts of all records, deleted ones included, for any
  number of concurrent walks and for finalizers between the halves of `forEach` and `clear`. `MapInv` adds that the list is sorted by creation.
- `MapIsOrdered`: the refinement `ImplementsOrderedMap`. A deleted record under a walk
  stands for the place its key had; sortedness shows that stepping from it
  leads to the entry that the abstract walk visits next. `LinkInv` says the same of a saved link: what is ahead of the walk
  is what is at the link or behind it, whatever is deleted while nobody holds the record there.

Both speak of what happens before a link is followed to a freed record; the model reaches that
(`ElementLocked`), and stops.

`Promises_proofs`:

- `PromiseHasOneResolver`: `SingleResolver`, and `BodyHasOneWakeup`: `OneWakeup`, for any plain
  values and any budgets of script calls, hence any number of promises, jobs and requests.
  Neither is inductive: a job calls the resolving functions that it holds and resumes the body
  that its handler names, so the invariant `EngineFine` adds that whatever a reaction, a job, a
  request or a value refers to exists (`Refs`), that a resumed body is the one whose only
  wake-up was just taken from the queue (`Awake`), and that a generator which executes or awaits a
  return has a request to answer (`RequestWaits`). As the C functions are functions on the
  engine's record that call each other, there is one lemma per function: it keeps `Good`, with
  what it does to resolvers and wake-ups; the actions are compositions of these. The loop of a
  combinator is a recursive function, proved by the induction of `SequenceLemmas`.

- `ReactionsAlwaysInOrder`: `ReactionsInOrder`, for the same constants, from the part `InOrder` of
  `EngineFine`. Every call of `then()` of a promise has a number; `Lined` says that the first `ran`
  were called, that the jobs in the queue have the next ones, growing along the queue
  and without a gap, and that the reactions which the promise keeps have those that follow. A job is
  taken from the front of the queue, so it has the number `ran + 1`; a promise that settles
  appends its reactions behind its jobs; one that is settled keeps none. That numbers which grow
  and leave none out are counted one by one (`IncreasingOnto`) gives the equality of the property.

`Heap_proofs`:

- `CountsAlwaysExact`: `CountsExact`; `NothingEverDangles`: `NothingDangles`;
  `GarbageAlwaysFound`: the action property `GarbageFound`, for any finite sets of objects, cells
  and fields and any number of weak records. All follow from `HeapInv`, which is `corrupt \/ Whole`: nothing is claimed once a
  callback holds an object that its sweep frees, or the loop of `unregister` stands on an entry that it freed
  (`SavedEntryStays`, which the model refutes). Up to there a step of that loop keeps `Whole` as a `WeakMapDelete` does. None is inductive alone. That nothing dangles
  needs exact counts, as an object is freed when its count is zero; exact counts in the middle of an
  operation need to know what the engine's lists hold there. `Whole` says that
  counts are exact at every step, except between `GcDecref` and the end of the scan, when a
  count is what comes from outside the heap plus what comes from the nodes scanned so far
  (`Scanned`); that the lists divide up the live nodes, in a way of its own for each phase (`Lists`);
  that a live cell is held by some field and refers to objects only (`Shape`: why a sweep may
  leave cells to their holders); and that no reference leaves the set of what must survive
  (`Kept`), which in a sweep is what the scan kept. Reachability is by definition a number of
  rounds, one per node; that so many are enough is a pigeonhole argument (`ReachableFrom` is the
  least closed set). TLC checked `HeapInv` on the instance of `heap` before it was proved.

`SequenceLemmas` holds the lemmas that these share. `Filter` is a recursive function, which
needs induction; instead of an induction theorem with an operator as its parameter,
the library's theorem that a well-founded relation has minimal elements (`WFMin`) is
applied to the set of counterexamples (`NatLeast`, `NatInductive`).

Only model-checked:

- liveness and the fairness it needs, with every use of `ENABLED`: out of the prover's reach;
- `Modules` and `Regexp`: recursive operators over data (`Gather`, the compiler,
  the meaning of patterns), which the prover's SMT backend does not take;
- `AdoptsOutcome`, `AnswersInOrder`, `CombinatorOutcome` and `NothingForgotten` of `Promises`:
  they relate outcomes over several promises and need an invariant on top of `EngineFine`,
  not proved yet;
- `SearchAgrees` of `UrlQuery`: its content is that parsing undoes encoding, by induction over
  strings of any length through recursive definitions.

## Not modelled

The engine's parser, interpreter, object model and sequential built-ins: the semantics of a
language, with the ECMAScript text as its reference. `libbf.c` and `libunicode.c`:
arithmetic and generated tables. Of the host: generated bindings; the CLI's option parsing; the
file-system binding; Base64, Blob, Headers and fetch; the Windows and macOS back ends of
`FileWatch`; compile-time conversion templates. `PROJECT.json` gives the reason for each.

## Plan

In order of importance:

1. Theorems: `AnswersInOrder` and `AdoptsOutcome` of `Promises` on top of `EngineFine`.
2. `ValueRefs`: reference ownership over threads: copies and destructors of
   `Value` off the JS thread, wrapped `std::function`s (weak check, post, wait),
   `as`, the timer thread's copies, `Value`s without `ctx_holder`. Properties: counts
   balanced, changed on the JS thread only, never freed twice.
3. `MsgLoopWait`: the Windows wait, its flag and its thread message. Property: the wait
   ends.
4. `WebData`: Base64 against a reference definition with the 32-bit accumulator,
   `Blob::slice`, `Headers`, the remaining `URL` setters and serialisation.
5. Pure algorithms of the engine against reference definitions: the day arithmetic of Date,
   the limb loops of `libbf.c`, the character ranges of `libunicode.c`.
