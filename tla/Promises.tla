------------------------------ MODULE Promises ------------------------------
(***************************************************************************)
(* Promises, their jobs, async functions, async generators and the         *)
(* combinators Promise.all, allSettled, any and race.                      *)
(*                                                                         *)
(* A step is a call of a script or one job of the event loop. Calls nest,  *)
(* so what they do to the engine is a function from its state S to the     *)
(* next, and the whole state is one record. A promise is the number of its *)
(* creation; a pair of resolving functions is <<promise, number>>.         *)
(* What then() returns to the engine itself is dropped there and left out. *)
(***************************************************************************)
EXTENDS Integers, Sequences, SequencesExt, FiniteSets, Filters

CONSTANTS
  Plain,    \* values that are no objects with a then method
  Budgets   \* bound: for each scenario, how often a script does what

Ops == {"new", "call", "settle", "then", "finally", "async", "await", "all", "gen", "request"}

ASSUME PromiseConstants == Budgets \subseteq [Ops -> Nat]

VARIABLES
  S,      \* the engine: promises, the job queue, the generator
  budget  \* what the script may still do

vars == <<S, budget>>

(* Values are <<kind, which>>. *)
Undefined == <<"undefined", 0>>
TypeError == <<"typeerror", 0>>
Thrown    == <<"thrown", 0>>      \* what a poisoned getter throws
Poisoned  == <<"poisoned", 0>>    \* an object whose then getter throws
Thenable  == <<"thenable", 0>>    \* an object with a then method of a script
Promise(p)  == <<"promise", p>>
Values    == {<<"plain", v>> : v \in Plain} \cup {Poisoned, Thenable}

(* Handlers and where a reaction's outcome goes *)
Handler(k, p, i) == [k |-> k, p |-> p, i |-> i, v |-> Undefined]
NoHandler == Handler("none", 0, 0)
ByScript  == Handler("script", 0, 0)
Thunk(k, v) == [k |-> k, p |-> 0, i |-> 0, v |-> v]
NoPair == <<0, 0>>

\* js_create_iterator_result: an object, but no thenable.
IteratorResult(done) == <<"result", IF done THEN 1 ELSE 0>>

NoElements == [kind |-> "none", items |-> <<>>, left |-> 0, values |-> <<>>, called |-> {}]

----------------------------------------------------------------------------
(* Promises *)

\* js_promise_constructor with js_create_resolving_functions; open says
\* whether the script gets the resolving functions.
NewPromise(s, open) ==
  [s EXCEPT !.promise = Append(@,
     [state |-> "pending", result |-> Undefined, reactions |-> <<>>, handled |-> FALSE,
      already_resolved |-> <<FALSE>>, open |-> IF open THEN {1} ELSE {},
      thens |-> 0, ran |-> 0, to |-> Undefined, frame |-> "none", env |-> NoElements])]
Newest(s) == Len(s.promise)

Job(k, h, rej, arg, pair, from, id) ==
  [k |-> k, h |-> h, rej |-> rej, arg |-> arg, pair |-> pair, from |-> from, id |-> id]
ReactionJob(p, r, rej, v) ==
  Job("reaction", IF rej THEN r.onRejected ELSE r.onFulfilled, rej, v, r.pair, p, r.id)

\* JS_EnqueueJob of job_queue.cc: the event loop runs what one thread posts
\* in the order it was posted.
EnqueueJob(s, job) == [s EXCEPT !.queue = Append(@, job)]

\* Mutation, for FulfillOrReject: the reactions are queued from the last one on.
FulfillFromLast(s, p, v, rej) ==
  LET rs == Reverse(s.promise[p].reactions) IN
  IF s.promise[p].state # "pending" THEN s
  ELSE [s EXCEPT !.promise[p].state = IF rej THEN "rejected" ELSE "fulfilled",
                 !.promise[p].result = v,
                 !.promise[p].reactions = <<>>,
                 !.queue = @ \o [i \in DOMAIN rs |-> ReactionJob(p, rs[i], rej, v)]]

\* fulfill_or_reject_promise.
FulfillOrReject(s, p, v, rej) ==
  LET rs == s.promise[p].reactions IN
  IF s.promise[p].state # "pending" THEN s
  ELSE [s EXCEPT !.promise[p].state = IF rej THEN "rejected" ELSE "fulfilled",
                 !.promise[p].result = v,
                 !.promise[p].reactions = <<>>,
                 !.queue = @ \o [i \in DOMAIN rs |-> ReactionJob(p, rs[i], rej, v)]]

\* Mutation, for Resolve: an object with a then method leaves the functions open.
ResolveStaysOpen(s, pair, v, rej) ==
  LET p == pair[1] IN
  IF s.promise[p].already_resolved[pair[2]] THEN s
  ELSE IF ~rej /\ v[1] \in {"promise", "thenable"}
  THEN EnqueueJob([s EXCEPT !.promise[p].to = v],
                  Job("thenable", NoHandler, FALSE, v, <<p, 0>>, 0, 0))
  ELSE FulfillOrReject([s EXCEPT !.promise[p].already_resolved[pair[2]] = TRUE], p, v, rej)

\* js_promise_resolve_function_call.
Resolve(s, pair, v, rej) ==
  LET p == pair[1]
      s1 == [s EXCEPT !.promise[p].already_resolved[pair[2]] = TRUE] IN
  IF s.promise[p].already_resolved[pair[2]] THEN s
  ELSE IF ~rej /\ v = Promise(p) THEN FulfillOrReject(s1, p, TypeError, TRUE)
  ELSE IF ~rej /\ v = Poisoned THEN FulfillOrReject(s1, p, Thrown, TRUE)
  ELSE IF rej \/ v[1] \notin {"promise", "thenable"} THEN FulfillOrReject(s1, p, v, rej)
  ELSE EnqueueJob([s1 EXCEPT !.promise[p].to = v],
                  Job("thenable", NoHandler, FALSE, v, <<p, 0>>, 0, 0))

PerformThen(s, p, onFulfilled, onRejected, pair) ==
  LET q == s.promise[p]
      r == [onFulfilled |-> onFulfilled, onRejected |-> onRejected, pair |-> pair,
            id |-> q.thens + 1]
      s1 == [s EXCEPT !.promise[p].thens = @ + 1, !.promise[p].handled = TRUE] IN
  IF q.state = "pending" THEN [s1 EXCEPT !.promise[p].reactions = Append(@, r)]
  ELSE EnqueueJob(s1, ReactionJob(p, r, q.state = "rejected", q.result))

\* js_promise_then as a script calls it: the new promise is the newest.
Then(s, p, onFulfilled, onRejected) ==
  LET s1 == NewPromise(s, FALSE) IN
  PerformThen(s1, p, onFulfilled, onRejected, <<Newest(s1), 1>>)

\* js_promise_resolve: a promise stands for itself.
PromiseResolve(s, v) ==
  IF v[1] = "promise" THEN s ELSE LET s1 == NewPromise(s, FALSE) IN Resolve(s1, <<Newest(s1), 1>>, v, FALSE)
ResolvedTo(s, v) == IF v[1] = "promise" THEN v[2] ELSE Newest(s) + 1

----------------------------------------------------------------------------
(* Async functions: f is the promise of the call *)

\* js_async_function_resume: the body goes on to its next await, or ends.
ResumeFunction(s, f, out, v) ==
  IF out = "await"
  THEN LET h == Handler("function", f, 0) IN
       PerformThen([PromiseResolve(s, v) EXCEPT !.promise[f].frame = "awaiting"],
                   ResolvedTo(s, v), h, h, NoPair)
  ELSE [Resolve(s, <<f, 1>>, v, out = "throw") EXCEPT !.promise[f].frame = "ended"]

----------------------------------------------------------------------------
(* The async generator *)

NoGenerator == [state |-> "none", queue |-> <<>>, running |-> FALSE, asked |-> <<>>]

\* Mutation, for Answer: the newest request is answered.
AnswerNewest(s, v, rej) ==
  Resolve([s EXCEPT !.gen.queue = Front(@)], <<Last(s.gen.queue).p, 1>>, v, rej)

\* js_async_generator_resolve_or_reject takes the request at the head.
Answer(s, v, rej) ==
  Resolve([s EXCEPT !.gen.queue = Tail(@)], <<Head(s.gen.queue).p, 1>>, v, rej)

\* js_async_generator_resume_next when the state is COMPLETED.
AnswerCompleted(s) ==
  LET next == Head(s.gen.queue)
      h == Handler("return", 0, 0) IN
  CASE next.kind = "next"  -> Answer(s, IteratorResult(TRUE), FALSE)
    [] next.kind = "throw" -> Answer(s, next.v, TRUE)
    [] next.kind = "return" ->
         PerformThen([PromiseResolve(s, next.v) EXCEPT !.gen.state = "awaiting_return"],
                     ResolvedTo(s, next.v), h, h, NoPair)

\* js_async_generator_resume_next up to where the body runs or the loop ends.
ResumeNext(s) ==
  LET stopped == [s EXCEPT !.gen.running = FALSE] IN
  IF s.gen.queue = <<>> \/ s.gen.state = "awaiting_return" THEN stopped
  ELSE IF s.gen.state = "completed" THEN AnswerCompleted(stopped)
  ELSE IF s.gen.state = "start" /\ Head(s.gen.queue).kind # "next"
  THEN AnswerCompleted([stopped EXCEPT !.gen.state = "completed"])
  ELSE [s EXCEPT !.gen.state = "executing", !.gen.running = TRUE]

\* js_async_generator_resume_next from where the body stops. A yield* differs
\* from a yield in what a throw does to the body only.
BodyStops(s, out, v) ==
  LET h == Handler("generator", 0, 0) IN
  CASE out = "await" -> PerformThen([PromiseResolve(s, v) EXCEPT !.gen.running = FALSE],
                                    ResolvedTo(s, v), h, h, NoPair)
    [] out = "yield" -> ResumeNext(Answer([s EXCEPT !.gen.state = "yield"], IteratorResult(FALSE), FALSE))
    [] OTHER -> ResumeNext(Answer([s EXCEPT !.gen.state = "completed"],
                                  IF out = "throw" THEN v ELSE IteratorResult(TRUE), out = "throw"))

\* js_async_generator_resolve_function, magic >= 2.
ReturnSettled(s, v, rej) ==
  Answer([s EXCEPT !.gen.state = "completed"], IF rej THEN v ELSE IteratorResult(TRUE), rej)

----------------------------------------------------------------------------
(* Combinators: c is the promise that the call returns *)

\* Mutation, for ResolveElement: the last element is not waited for.
ResolveElementEarly(s, c, i, v, rej) ==
  LET e == s.promise[c].env
      s1 == [s EXCEPT !.promise[c].env.called = @ \cup {i},
                      !.promise[c].env.values[i] = <<rej, v>>,
                      !.promise[c].env.left = @ - 1] IN
  IF i \in e.called THEN s
  ELSE IF e.left > 2 THEN s1
  ELSE Resolve(s1, <<c, 1>>, <<"array", c>>, e.kind = "any")

\* js_promise_all_resolve_element.
ResolveElement(s, c, i, v, rej) ==
  LET e == s.promise[c].env
      left == e.left - 1
      s1 == [s EXCEPT !.promise[c].env.called = @ \cup {i},
                      !.promise[c].env.values[i] = <<rej, v>>,
                      !.promise[c].env.left = left] IN
  IF i \in e.called THEN s
  ELSE IF left > 0 THEN s1
  ELSE Resolve(s1, <<c, 1>>, <<"array", c>>, e.kind = "any")

\* One iteration of js_promise_all or js_promise_race over the item i, a promise
\* already (js_promise_resolve made it one).
AddElement(s, c, kind, i, p) ==
  LET pairFn == Handler("pair", c, 1)
      element == Handler("element", c, i) IN
  PerformThen(IF kind = "race" THEN s ELSE [s EXCEPT !.promise[c].env.left = @ + 1], p,
              IF kind \in {"any", "race"} THEN pairFn ELSE element,
              IF kind \in {"all", "race"} THEN pairFn ELSE element, NoPair)

\* The loop of js_promise_all and js_promise_race over the items.
AddElements(s, c, kind, items) ==
  LET added[n \in 0..Len(items)] ==
        IF n = 0 THEN s ELSE AddElement(added[n - 1], c, kind, n, items[n])
  IN  added[Len(items)]

\* What follows the loop. When the iterator throws after the items (broken),
\* the promise is rejected and the count is left as it is.
AfterElements(s, c, kind, broken) ==
  LET left == s.promise[c].env.left - 1
      s1 == [s EXCEPT !.promise[c].env.left = left] IN
  IF broken THEN Resolve(s, <<c, 1>>, Thrown, TRUE)
  ELSE IF kind = "race" THEN s
  ELSE IF left = 0 THEN Resolve(s1, <<c, 1>>, <<"array", c>>, kind = "any") ELSE s1

\* js_promise_all and js_promise_race.
Combine(s, kind, items, broken) ==
  LET s1 == NewPromise(s, FALSE)
      c == Newest(s1)
      s2 == [s1 EXCEPT !.promise[c].env =
               [kind |-> kind, items |-> items, left |-> 1,
                values |-> [i \in DOMAIN items |-> <<FALSE, Undefined>>], called |-> {}]] IN
  AfterElements(AddElements(s2, c, kind, items), c, kind, broken)

----------------------------------------------------------------------------
(* Jobs. A script's part in one is its outcome: out and v. *)

Returns(s, v) == [s |-> s, rej |-> FALSE, v |-> v]
Throws(s, v)  == [s |-> s, rej |-> TRUE, v |-> v]

\* js_promise_then_finally_func: its value is then() of what onFinally returned.
CallFinally(s, job, out, v) ==
  LET s1 == PromiseResolve(s, v)
      s2 == Then(s1, ResolvedTo(s, v), Thunk(IF job.rej THEN "thrower" ELSE "value_thunk", job.arg),
                 NoHandler) IN
  IF out = "throw" THEN Throws(s, v) ELSE Returns(s2, Promise(Newest(s2)))

CallHandler(s, job, out, v) ==
  LET h == job.h IN
  CASE h.k = "none"        -> IF job.rej THEN Throws(s, job.arg) ELSE Returns(s, job.arg)
    [] h.k = "script"      -> IF out = "throw" THEN Throws(s, v) ELSE Returns(s, v)
    [] h.k = "finally"     -> CallFinally(s, job, out, v)
    [] h.k = "value_thunk" -> Returns(s, h.v)
    [] h.k = "thrower"     -> Throws(s, h.v)
    [] h.k = "function"    -> Returns(ResumeFunction(s, h.p, out, v), Undefined)
    [] h.k = "generator"   -> Returns(ResumeNext(s), Undefined)
    [] h.k = "return"      -> Returns(ReturnSettled(s, job.arg, job.rej), Undefined)
    [] h.k = "element"     -> Returns(ResolveElement(s, h.p, h.i, job.arg, job.rej), Undefined)
    [] h.k = "pair"        -> Returns(Resolve(s, <<h.p, h.i>>, job.arg, job.rej), Undefined)

\* promise_reaction_job.
RunReaction(s, job, out, v) ==
  LET r == CallHandler([s EXCEPT !.promise[job.from].ran = @ + 1], job, out, v) IN
  IF job.pair = NoPair THEN r.s ELSE Resolve(r.s, job.pair, r.v, r.rej)

\* Mutation, for RunThenable: a settled promise is adopted at once, as fulfilled.
RunThenableEager(s, job, out, v) ==
  LET p == job.pair[1]
      s1 == [s EXCEPT !.promise[p].already_resolved = Append(@, FALSE)]
      i == Len(s1.promise[p].already_resolved)
      h == Handler("pair", p, i) IN
  IF job.arg = Thenable THEN [s1 EXCEPT !.promise[p].open = @ \cup {i}]
  ELSE IF s.promise[job.arg[2]].state # "pending"
  THEN Resolve(s1, <<p, i>>, s.promise[job.arg[2]].result, FALSE)
  ELSE PerformThen(s1, job.arg[2], h, h, NoPair)

\* Mutation, for RunThenable: the rejection of the other promise is not listened to.
RunThenableHalf(s, job, out, v) ==
  LET p == job.pair[1]
      s1 == [s EXCEPT !.promise[p].already_resolved = Append(@, FALSE)]
      i == Len(s1.promise[p].already_resolved) IN
  IF job.arg = Thenable THEN [s1 EXCEPT !.promise[p].open = @ \cup {i}]
  ELSE PerformThen(s1, job.arg[2], Handler("pair", p, i), NoHandler, NoPair)

\* js_promise_resolve_thenable_job: a new pair of functions for the promise. A
\* script's then may keep the pair, and reject it by throwing.
RunThenable(s, job, out, v) ==
  LET p == job.pair[1]
      s1 == [s EXCEPT !.promise[p].already_resolved = Append(@, FALSE)]
      i == Len(s1.promise[p].already_resolved)
      s2 == [s1 EXCEPT !.promise[p].open = @ \cup {i}]
      h == Handler("pair", p, i) IN
  IF job.arg # Thenable THEN PerformThen(s1, job.arg[2], h, h, NoPair)
  ELSE IF out = "throw" THEN Resolve(s2, <<p, i>>, v, TRUE) ELSE s2

----------------------------------------------------------------------------
(* Steps *)

Outcomes == {"return", "throw"}
Promises == {Promise(p) : p \in 1..Newest(S)}
AnyValue(out) == IF out = "throw" THEN {<<"plain", v>> : v \in Plain} ELSE Values \cup Promises

Spend(ops) ==
  /\ \A op \in ops : budget[op] > 0
  /\ budget' = [op \in Ops |-> IF op \in ops THEN budget[op] - 1 ELSE budget[op]]

\* new Promise(executor), Promise.withResolvers(): the script has the pair.
New == Spend({"new"}) /\ S' = NewPromise(S, TRUE)

\* A script calls a resolving function it has.
Call(p, i, out, v) ==
  /\ Spend({"call"}) /\ i \in S.promise[p].open
  /\ S' = Resolve(S, <<p, i>>, v, out = "throw")

\* Promise.resolve of no promise, Promise.reject, Promise.try.
Settle(out, v) ==
  LET s1 == NewPromise(S, FALSE) IN
  Spend({"settle"}) /\ S' = Resolve(s1, <<Newest(s1), 1>>, v, out = "throw")

CallThen(p, onFulfilled, onRejected) ==
  Spend({"then"}) /\ S' = Then(S, p, onFulfilled, onRejected)

\* js_promise_finally.
Finally(p) ==
  LET h == Handler("finally", 0, 0) IN Spend({"finally"}) /\ S' = Then(S, p, h, h)

\* js_async_function_call runs the body to its first await.
CallAsync(out, v) ==
  LET s1 == NewPromise(S, FALSE) IN
  /\ IF out = "await" THEN Spend({"async", "await"}) ELSE Spend({"async"})
  /\ S' = ResumeFunction(s1, Newest(s1), out, v)

CallCombinator(kind, items, broken) ==
  Spend({"all"}) /\ S' = Combine(S, kind, items, broken)

\* js_async_generator_function_call.
NewGenerator ==
  Spend({"gen"}) /\ S.gen = NoGenerator /\ S' = [S EXCEPT !.gen.state = "start"]

\* A request is queued; the newest promise is the one it returns.
AddRequest(s, kind, v) ==
  [s EXCEPT !.gen.queue = Append(@, [kind |-> kind, v |-> v, p |-> Newest(s)]),
            !.gen.asked = Append(@, Newest(s))]

\* Mutation, for Request: the body is resumed although it awaits.
RequestResumes(kind, v) ==
  /\ Spend({"request"}) /\ S.gen.state # "none"
  /\ S' = ResumeNext(AddRequest(NewPromise(S, FALSE), kind, v))

\* js_async_generator_next.
Request(kind, v) ==
  LET s1 == AddRequest(NewPromise(S, FALSE), kind, v) IN
  /\ Spend({"request"}) /\ S.gen.state # "none"
  /\ S' = IF S.gen.state = "executing" THEN s1 ELSE ResumeNext(s1)

\* The generator's body runs, in a job or in a request, until it stops.
GeneratorBody(out, v) ==
  /\ S.gen.running
  /\ IF out = "await" THEN Spend({"await"}) ELSE UNCHANGED budget
  /\ S' = BodyStops(S, out, v)

\* The event loop takes the next job.
RunJob(out, v) ==
  LET job == Head(S.queue)
      s1 == [S EXCEPT !.queue = Tail(@)] IN
  /\ S.queue # <<>> /\ ~S.gen.running
  /\ IF job.h.k = "function" /\ out = "await" THEN Spend({"await"})
     ELSE out # "await" /\ UNCHANGED budget
  /\ S' = IF job.k = "thenable" THEN RunThenable(s1, job, out, v) ELSE RunReaction(s1, job, out, v)

Init ==
  /\ S = [promise |-> <<>>, queue |-> <<>>, gen |-> NoGenerator]
  /\ budget \in Budgets

Script ==
  \/ New \/ NewGenerator
  \/ \E out \in Outcomes : \E v \in AnyValue(out) : Settle(out, v)
  \/ \E p \in 1..Newest(S) :
       \/ \E i \in S.promise[p].open, out \in Outcomes : \E v \in AnyValue(out) : Call(p, i, out, v)
       \/ \E h, g \in {NoHandler, ByScript} : CallThen(p, h, g)
       \/ Finally(p)
  \/ \E out \in Outcomes \cup {"await"} : \E v \in AnyValue(out) : CallAsync(out, v)
  \/ \E kind \in {"all", "allSettled", "any", "race"}, broken \in BOOLEAN, n \in 0..2 :
       \E items \in [1..n -> 1..Newest(S)] : CallCombinator(kind, items, broken)
  \/ \E kind \in {"next", "return", "throw"} :
       \E v \in AnyValue(kind) : Request(kind, v)

Jobs ==
  \/ \E out \in Outcomes \cup {"await"} : \E v \in AnyValue(out) : RunJob(out, v)
  \/ \E out \in Outcomes \cup {"await", "yield"} : \E v \in AnyValue(out) : GeneratorBody(out, v)

Next == Script \/ Jobs

Spec == Init /\ [][Next]_vars

----------------------------------------------------------------------------
(* Properties *)

Made == 1..Newest(S)
Settled(p) == S.promise[p].state # "pending"
Outcome(p) == <<S.promise[p].state = "rejected", S.promise[p].result>>
Unresolved(p) ==
  {i \in DOMAIN S.promise[p].already_resolved : ~S.promise[p].already_resolved[i]}
ThenableJobs(p) == {j \in DOMAIN S.queue : S.queue[j].k = "thenable" /\ S.queue[j].pair[1] = p}

\* How many reactions and jobs will call a handler of this kind.
Wakeups(k, f) ==
  Cardinality({j \in DOMAIN S.queue : S.queue[j].h.k = k /\ S.queue[j].h.p = f})
  + Cardinality(UNION {{<<q, i>> : i \in {j \in DOMAIN S.promise[q].reactions :
                          S.promise[q].reactions[j].onFulfilled.k = k
                          /\ S.promise[q].reactions[j].onFulfilled.p = f}} : q \in Made})

\* A pending promise has one pair of resolving functions, or one job that will
\* make one, and a settled promise has none: whatever functions leaked to
\* scripts and thenables, fulfill_or_reject_promise never meets a settled
\* promise ("should never happen").
SingleResolver ==
  \A p \in Made : Cardinality(Unresolved(p)) + Cardinality(ThenableJobs(p))
                  = IF Settled(p) THEN 0 ELSE 1

\* Every reaction is called once, in the order of the calls of then(), however
\* the calls fall before and after the promise settles.
ReactionsInOrder ==
  \A p \in Made :
    LET q == S.promise[p]
        queued == Filter(S.queue, {j \in Range(S.queue) : j.from = p})
        ids == [i \in DOMAIN queued |-> queued[i].id]
               \o [i \in DOMAIN q.reactions |-> q.reactions[i].id] IN
    ids = [i \in 1..(q.thens - q.ran) |-> q.ran + i]

\* A promise resolved with another one takes that one's outcome, through any
\* number of jobs and chained adoptions.
AdoptsOutcome ==
  \A p \in Made : S.promise[p].to[1] = "promise" /\ Settled(p) =>
    LET q == S.promise[p].to[2] IN Settled(q) /\ Outcome(p) = Outcome(q)

\* A suspended async function or generator is woken by exactly one reaction,
\* an ended one by none (its frame is freed). A generator is woken with a
\* request in its queue, which js_async_generator_resolve_or_reject takes
\* unseen, and in the state that js_async_generator_resolve_function asserts.
OneWakeup ==
  /\ \A f \in Made : Wakeups("function", f) = IF S.promise[f].frame = "awaiting" THEN 1 ELSE 0
  /\ Wakeups("generator", 0) = IF S.gen.state = "executing" /\ ~S.gen.running THEN 1 ELSE 0
  /\ Wakeups("return", 0) = IF S.gen.state = "awaiting_return" THEN 1 ELSE 0
  /\ S.gen.state \in {"executing", "awaiting_return"} => S.gen.queue # <<>>

\* The requests of a generator are answered in the order they were made: those
\* not answered are its queue.
AnswersInOrder ==
  LET asked == S.gen.asked
      n == Len(asked) - Len(S.gen.queue) IN
  /\ [i \in DOMAIN S.gen.queue |-> S.gen.queue[i].p] = SubSeq(asked, n + 1, Len(asked))
  /\ \A i \in DOMAIN asked : (Unresolved(asked[i]) = {}) = (i <= n)

\* What a combinator's promise settles with is what its items did: all of them
\* in their order, or one of them, or the iterator's own exception.
CombinatorOutcome ==
  \A c \in Made :
    LET e == S.promise[c].env
        array == e.values = [i \in DOMAIN e.items |-> Outcome(e.items[i])]
                 /\ S.promise[c].result = <<"array", c>>
        one == \E i \in DOMAIN e.items : Settled(e.items[i]) /\ Outcome(e.items[i]) = Outcome(c)
        all(rej) == \A i \in DOMAIN e.items : Settled(e.items[i]) /\ Outcome(e.items[i])[1] = rej IN
    e.kind # "none" /\ Settled(c) /\ Outcome(c) # <<TRUE, Thrown>> =>
      CASE e.kind = "all"  -> IF Outcome(c)[1] THEN one ELSE array /\ all(FALSE)
        [] e.kind = "any"  -> IF Outcome(c)[1] THEN array /\ all(TRUE) ELSE one
        [] e.kind = "race" -> one
        [] e.kind = "allSettled" -> ~Outcome(c)[1] /\ array

\* When no job is left, a pending promise waits for the script, for a pending
\* promise or for a generator: no job was lost that would have settled it.
NothingForgotten ==
  S.queue = <<>> /\ ~S.gen.running =>
    \A p \in Made : ~Settled(p) =>
      LET q == S.promise[p] IN
      \/ Unresolved(p) \cap q.open # {}
      \/ q.to[1] = "promise" /\ ~Settled(q.to[2])
      \/ q.frame = "awaiting"
      \/ \E r \in Made : \E i \in DOMAIN S.promise[r].reactions :
           S.promise[r].reactions[i].pair[1] = p
      \/ q.env.kind = "race" /\ \A i \in DOMAIN q.env.items : ~Settled(q.env.items[i])
      \/ q.env.kind \in {"all", "any", "allSettled"} /\ \E i \in DOMAIN q.env.items : ~Settled(q.env.items[i])
      \/ \E i \in DOMAIN S.gen.queue : S.gen.queue[i].p = p
=============================================================================
