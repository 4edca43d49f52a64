-------------------------- MODULE Promises_proofs --------------------------
(***************************************************************************)
(* Proofs about Promises for any plain values and any budgets, hence any   *)
(* number of promises, jobs and requests: a promise has one resolver until *)
(* it is settled and none after, its reactions are called in the order of  *)
(* then() with none lost or called twice, and a suspended body has one     *)
(* wake-up.                                                                *)
(*                                                                         *)
(* The operators of Promises are functions from engine state to engine     *)
(* state, so there is a lemma for each one: it keeps Good, and its effect. *)
(***************************************************************************)
EXTENDS Promises, SequenceLemmas

\* A sequence, whatever its elements are.
IsSeq(q) == \E X : q \in Seq(X)

(***************************************************************************)
(* What refers to what: every promise, pair of resolving functions and     *)
(* value that the engine has stored exists.                                *)
(***************************************************************************)
Nums(s) == 1..Len(s.promise)

PairOK(s, a) ==
  a[1] \in Nums(s) /\ a[2] \in DOMAIN s.promise[a[1]].already_resolved

ValueOK(s, v) ==
  /\ v[1] = "promise" => v[2] \in Nums(s)
  /\ v[1] = "thenable" => v = Thenable

\* The handlers of the engine itself that resume a suspended body.
Wakers == {"function", "generator", "return"}

HandlerOK(s, h) ==
  /\ h.k \in {"none", "script", "finally", "value_thunk", "thrower", "element", "pair"} \cup Wakers
  /\ h.k \in {"function", "element"} => h.p \in Nums(s)
  /\ h.k \in {"generator", "return"} => h.p = 0
  /\ h.k = "pair" => PairOK(s, <<h.p, h.i>>)
  /\ ValueOK(s, h.v)

ReactionOK(s, r) ==
  /\ HandlerOK(s, r.onFulfilled) /\ HandlerOK(s, r.onRejected)
  /\ r.onFulfilled.k \in Wakers \/ r.onRejected.k \in Wakers => r.onFulfilled = r.onRejected
  /\ r.pair = NoPair \/ PairOK(s, r.pair)

JobOK(s, j) ==
  /\ HandlerOK(s, j.h) /\ ValueOK(s, j.arg) /\ j.rej \in BOOLEAN
  /\ \/ /\ j.k = "thenable" /\ j.h = NoHandler /\ j.from = 0
        /\ j.pair[1] \in Nums(s) /\ j.arg[1] \in {"promise", "thenable"}
     \/ /\ j.k = "reaction" /\ j.from \in Nums(s)
        /\ j.pair = NoPair \/ PairOK(s, j.pair)

RequestOK(s, r) ==
  r.p \in Nums(s) /\ ValueOK(s, r.v) /\ r.kind \in {"next", "return", "throw"}

Refs(s) ==
  /\ \A p \in Nums(s) : /\ ValueOK(s, s.promise[p].result)
                        /\ \A i \in DOMAIN s.promise[p].reactions :
                             ReactionOK(s, s.promise[p].reactions[i])
  /\ \A j \in DOMAIN s.queue : JobOK(s, s.queue[j])
  /\ \A i \in DOMAIN s.gen.queue : RequestOK(s, s.gen.queue[i])

(***************************************************************************)
(* Who may still settle a promise, and who will wake a suspended body.     *)
(***************************************************************************)
One(A) == \E x \in A : A = {x}

Open(s, p) ==
  {i \in DOMAIN s.promise[p].already_resolved : ~s.promise[p].already_resolved[i]}
Adopting(s, p) == {j \in DOMAIN s.queue : s.queue[j].k = "thenable" /\ s.queue[j].pair[1] = p}

NoResolver(s, p) == Open(s, p) = {} /\ Adopting(s, p) = {}
OneResolver(s, p) ==
  (One(Open(s, p)) /\ Adopting(s, p) = {}) \/ (Open(s, p) = {} /\ One(Adopting(s, p)))

ResolverOK(s, p) ==
  IF s.promise[p].state = "pending" THEN OneResolver(s, p) ELSE NoResolver(s, p)

IsFor(h, k, f) == h.k = k /\ h.p = f

\* Where a handler is stored: <<0, j>> for a job, <<q, i>> for a reaction of q.
JobSpots(s, k, f) == {j \in DOMAIN s.queue : IsFor(s.queue[j].h, k, f)}
ReactionSpots(s, q, k, f) ==
  {i \in DOMAIN s.promise[q].reactions : IsFor(s.promise[q].reactions[i].onFulfilled, k, f)}
Spots(s, k, f) ==
  ({0} \X JobSpots(s, k, f)) \cup UNION {{q} \X ReactionSpots(s, q, k, f) : q \in Nums(s)}

Woken(s, k, f, b) == IF b THEN One(Spots(s, k, f)) ELSE Spots(s, k, f) = {}

\* The bodies of async functions, by the promise of the call, and of the
\* generator: at an await of its own, or at the one that a return makes.
IsBody(s, k, f) ==
  (k = "function" /\ f \in Nums(s)) \/ (k \in {"generator", "return"} /\ f = 0)

Suspended(s, k, f) ==
  \/ k = "function" /\ s.promise[f].frame = "awaiting"
  \/ k = "generator" /\ s.gen.state = "executing" /\ ~s.gen.running
  \/ k = "return" /\ s.gen.state = "awaiting_return"

\* All bodies but the one that is being resumed, if its kind is k0.
Awake(s, k0, f0) ==
  /\ \A k \in Wakers, f \in Nat :
       IsBody(s, k, f) /\ ~(k = k0 /\ f = f0) => Woken(s, k, f, Suspended(s, k, f))
  /\ k0 \in Wakers => Spots(s, k0, f0) = {}

RequestWaits(g) == g.state \in {"executing", "awaiting_return"} => g.queue # <<>>

WakeOK(s) ==
  /\ Awake(s, "none", 0) /\ RequestWaits(s.gen)
  /\ s.gen.running => s.gen.state = "executing"


(***************************************************************************)
(* The state of the engine.                                                *)
(***************************************************************************)
PromiseFields == {"state", "result", "reactions", "handled", "already_resolved", "open",
                  "thens", "ran", "to", "frame", "env"}

PromiseShape(q) ==
  /\ DOMAIN q = PromiseFields
  /\ IsSeq(q.reactions) /\ q.already_resolved \in Seq(BOOLEAN)
  /\ 1 \in DOMAIN q.already_resolved /\ q.open \subseteq DOMAIN q.already_resolved

Shape(s) ==
  /\ DOMAIN s = {"promise", "queue", "gen"} /\ IsSeq(s.promise) /\ IsSeq(s.queue)
  /\ \A p \in Nums(s) : PromiseShape(s.promise[p])
  /\ DOMAIN s.gen = {"state", "queue", "running", "asked"} /\ IsSeq(s.gen.queue)

Good(s) == Shape(s) /\ Refs(s) /\ \A p \in Nums(s) : ResolverOK(s, p)

\* Between the call of a resolving function of p and what it does to p.
Flux(s, p) ==
  /\ Shape(s) /\ Refs(s) /\ p \in Nums(s)
  /\ s.promise[p].state = "pending" /\ NoResolver(s, p)
  /\ \A q \in Nums(s) \ {p} : ResolverOK(s, q)

(***************************************************************************)
(* The reactions of p have the numbers of their calls of then(). The first *)
(* ran were called, the next are in the queue, in order, and the others    *)
(* wait for p to settle.                                                   *)
(***************************************************************************)
JobsOf(s, p) == {j \in DOMAIN s.queue : s.queue[j].from = p}
Queued(q) == q.thens - Len(q.reactions)

Lined(s, p) ==
  LET q == s.promise[p] IN
  /\ q.thens \in Nat /\ q.ran \in Nat /\ q.ran <= Queued(q)
  /\ q.state # "pending" => q.reactions = <<>>
  /\ \A i \in DOMAIN q.reactions : q.reactions[i].id = Queued(q) + i
  /\ \A j \in JobsOf(s, p) : s.queue[j].id \in (q.ran + 1)..Queued(q)
  /\ \A m \in (q.ran + 1)..Queued(q) : \E j \in JobsOf(s, p) : s.queue[j].id = m
  /\ \A i, j \in JobsOf(s, p) : i < j => s.queue[i].id < s.queue[j].id

InOrder(s) == \A p \in Nums(s) : Lined(s, p)

\* Promises and resolving functions are made and not unmade.
Larger(s, t) ==
  /\ Len(s.promise) <= Len(t.promise)
  /\ \A p \in Nums(s) : DOMAIN s.promise[p].already_resolved \subseteq
                          DOMAIN t.promise[p].already_resolved

\* What a whole call does: reactions that were in order stay in order.
Grows(s, t) == Larger(s, t) /\ (InOrder(s) => InOrder(t))

SameFrames(s, t) ==
  /\ \A p \in Nums(s) : t.promise[p].frame = s.promise[p].frame
  /\ \A p \in Nums(t) \ Nums(s) : t.promise[p].frame = "none"

SameSpots(s, t, k, f) ==
  /\ Spots(s, k, f) = {} => Spots(t, k, f) = {}
  /\ One(Spots(s, k, f)) => One(Spots(t, k, f))

\* Nobody is woken or suspended.
Effect(s, t) ==
  /\ Grows(s, t) /\ SameFrames(s, t) /\ t.gen = s.gen
  /\ \A k \in Wakers, f \in Nat : SameSpots(s, t, k, f)

(***************************************************************************)
(* Sequences.                                                              *)
(***************************************************************************)
LEMMA SeqBasics ==
  ASSUME NEW q, IsSeq(q)
  PROVE  Len(q) \in Nat /\ DOMAIN q = 1..Len(q) /\ (q = <<>> <=> Len(q) = 0)
<1>1. PICK X : q \in Seq(X)
  BY DEF IsSeq
<1>. QED  BY <1>1, LenProperties, EmptySeq

LEMMA SeqOfFunction ==
  ASSUME NEW n \in Nat, NEW q, q = [i \in 1..n |-> q[i]]
  PROVE  IsSeq(q) /\ Len(q) = n /\ DOMAIN q = 1..n
<1>. DEFINE X == {q[i] : i \in 1..n}
<1>1. q \in [1..n -> X]
  OBVIOUS
<1>. HIDE DEF X
<1>2. q \in Seq(X) /\ Len(q) = n /\ DOMAIN q = 1..n
  BY <1>1, FunctionIsSeq
<1>. QED  BY <1>2 DEF IsSeq

LEMMA SeqAppend ==
  ASSUME NEW q, IsSeq(q), NEW e
  PROVE  /\ IsSeq(Append(q, e)) /\ Len(Append(q, e)) = Len(q) + 1
         /\ DOMAIN Append(q, e) = 1..(Len(q) + 1)
         /\ \A i \in 1..Len(q) : Append(q, e)[i] = q[i]
         /\ Append(q, e)[Len(q) + 1] = e
<1>1. PICK X : q \in Seq(X)
  BY DEF IsSeq
<1>2. q \in Seq(X \cup {e}) /\ e \in X \cup {e}
  BY <1>1
<1>3. PICK Y : q \in Seq(Y) /\ e \in Y
  BY <1>2
<1>4. Append(q, e) \in Seq(Y)
  BY <1>3, AppendProperties
<1>. QED  BY <1>3, <1>4, AppendProperties, LenProperties DEF IsSeq

LEMMA SeqTail ==
  ASSUME NEW q, IsSeq(q), q # <<>>
  PROVE  /\ IsSeq(Tail(q)) /\ Len(Tail(q)) = Len(q) - 1 /\ Len(q) \in Nat \ {0}
         /\ DOMAIN Tail(q) = 1..(Len(q) - 1) /\ DOMAIN q = 1..Len(q)
         /\ \A i \in 1..(Len(q) - 1) : Tail(q)[i] = q[i + 1]
         /\ Head(q) = q[1]
<1>1. PICK X : q \in Seq(X)
  BY DEF IsSeq
<1>2. Tail(q) \in Seq(X) /\ Len(Tail(q)) = Len(q) - 1 /\ Head(q) = q[1]
      /\ \A i \in 1..(Len(q) - 1) : Tail(q)[i] = q[i + 1]
  BY <1>1, HeadTailProperties
<1>. QED  BY <1>1, <1>2, LenProperties, EmptySeq DEF IsSeq

LEMMA SeqConcat ==
  ASSUME NEW q, IsSeq(q), NEW r, IsSeq(r)
  PROVE  /\ IsSeq(q \o r) /\ Len(q \o r) = Len(q) + Len(r)
         /\ DOMAIN (q \o r) = 1..(Len(q) + Len(r))
         /\ \A i \in 1..Len(q) : (q \o r)[i] = q[i]
         /\ \A i \in 1..Len(r) : (q \o r)[Len(q) + i] = r[i]
<1>1. PICK X : q \in Seq(X)
  BY DEF IsSeq
<1>2. PICK Y : r \in Seq(Y)
  BY DEF IsSeq
<1>3. q \in Seq(X \cup Y) /\ r \in Seq(X \cup Y)
  BY <1>1, <1>2
<1>4. PICK Z : q \in Seq(Z) /\ r \in Seq(Z)
  BY <1>3
<1>5. /\ q \o r \in Seq(Z) /\ Len(q \o r) = Len(q) + Len(r)
      /\ \A i \in 1..(Len(q) + Len(r)) : (q \o r)[i] = IF i <= Len(q) THEN q[i] ELSE r[i - Len(q)]
  BY <1>4, ConcatProperties
<1>6. Len(q) \in Nat /\ Len(r) \in Nat
  BY SeqBasics
<1>7. \A i \in 1..Len(r) : (q \o r)[Len(q) + i] = r[i]
  <2>. TAKE i \in 1..Len(r)
  <2>1. Len(q) + i \in 1..(Len(q) + Len(r)) /\ ~(Len(q) + i <= Len(q)) /\ (Len(q) + i) - Len(q) = i
    BY <1>6
  <2>. QED  BY <1>5, <2>1
<1>8. \A i \in 1..Len(q) : (q \o r)[i] = q[i]
  BY <1>5, <1>6
<1>9. DOMAIN (q \o r) = 1..(Len(q) + Len(r))
  BY <1>5, LenProperties
<1>. QED  BY <1>5, <1>7, <1>8, <1>9 DEF IsSeq

LEMMA SeqExcept ==
  ASSUME NEW q, IsSeq(q), NEW p \in DOMAIN q, NEW e
  PROVE  LET u == [q EXCEPT ![p] = e] IN
         /\ IsSeq(u) /\ Len(u) = Len(q) /\ DOMAIN u = DOMAIN q /\ u[p] = e
         /\ \A i \in DOMAIN q : i # p => u[i] = q[i]
<1>. DEFINE u == [q EXCEPT ![p] = e]
<1>1. DOMAIN q = 1..Len(q) /\ Len(q) \in Nat
  BY SeqBasics
<1>2. u = [i \in 1..Len(q) |-> u[i]]
  BY <1>1
<1>3. u[p] = e /\ \A i \in DOMAIN q : i # p => u[i] = q[i]
  OBVIOUS
<1>. HIDE DEF u
<1>4. IsSeq(u) /\ Len(u) = Len(q) /\ DOMAIN u = 1..Len(q)
  BY <1>1, <1>2, SeqOfFunction
<1>. QED  BY <1>1, <1>3, <1>4 DEF u

(***************************************************************************)
(* Growth keeps references good.                                           *)
(***************************************************************************)
LEMMA Numbered ==
  ASSUME NEW s, Shape(s)
  PROVE  Len(s.promise) \in Nat /\ DOMAIN s.promise = Nums(s) /\ Nums(s) \subseteq Nat
BY SeqBasics DEF Shape, Nums

LEMMA LargerNums ==
  ASSUME NEW s, NEW t, Shape(s), Shape(t), Larger(s, t)
  PROVE  Nums(s) \subseteq Nums(t)
BY Numbered DEF Larger, Nums

LEMMA LargerTrans ==
  ASSUME NEW s, NEW t, NEW u, Shape(s), Shape(t), Shape(u), Larger(s, t), Larger(t, u)
  PROVE  Larger(s, u)
<1>1. Nums(s) \subseteq Nums(t)
  BY LargerNums
<1>2. Len(s.promise) <= Len(u.promise)
  BY Numbered DEF Larger
<1>. QED  BY <1>1, <1>2 DEF Larger

LEMMA LargerRefs ==
  ASSUME NEW s, NEW t, Shape(s), Shape(t), Larger(s, t)
  PROVE  /\ \A a : PairOK(s, a) => PairOK(t, a)
         /\ \A v : ValueOK(s, v) => ValueOK(t, v)
         /\ \A h : HandlerOK(s, h) => HandlerOK(t, h)
         /\ \A r : ReactionOK(s, r) => ReactionOK(t, r)
         /\ \A j : JobOK(s, j) => JobOK(t, j)
         /\ \A r : RequestOK(s, r) => RequestOK(t, r)
<1>1. Nums(s) \subseteq Nums(t)
  BY LargerNums
<1>2. \A a : PairOK(s, a) => PairOK(t, a)
  BY <1>1 DEF PairOK, Larger
<1>3. \A v : ValueOK(s, v) => ValueOK(t, v)
  BY <1>1 DEF ValueOK
<1>4. \A h : HandlerOK(s, h) => HandlerOK(t, h)
  BY <1>1, <1>2, <1>3 DEF HandlerOK
<1>5. \A r : ReactionOK(s, r) => ReactionOK(t, r)
  BY <1>2, <1>4 DEF ReactionOK
<1>6. \A j : JobOK(s, j) => JobOK(t, j)
  BY <1>1, <1>2, <1>3, <1>4 DEF JobOK
<1>7. \A r : RequestOK(s, r) => RequestOK(t, r)
  BY <1>1, <1>3 DEF RequestOK
<1>. QED  BY <1>2, <1>3, <1>4, <1>5, <1>6, <1>7

LEMMA GrowsNums ==
  ASSUME NEW s, NEW t, Shape(s), Shape(t), Grows(s, t)
  PROVE  Nums(s) \subseteq Nums(t)
BY LargerNums DEF Grows

LEMMA GrowsTrans ==
  ASSUME NEW s, NEW t, NEW u, Shape(s), Shape(t), Shape(u), Grows(s, t), Grows(t, u)
  PROVE  Grows(s, u)
BY LargerTrans DEF Grows

LEMMA Grown ==
  ASSUME NEW s, NEW t, Shape(s), Shape(t), Grows(s, t)
  PROVE  /\ \A a : PairOK(s, a) => PairOK(t, a)
         /\ \A v : ValueOK(s, v) => ValueOK(t, v)
         /\ \A h : HandlerOK(s, h) => HandlerOK(t, h)
         /\ \A r : ReactionOK(s, r) => ReactionOK(t, r)
         /\ \A j : JobOK(s, j) => JobOK(t, j)
         /\ \A r : RequestOK(s, r) => RequestOK(t, r)
<1>1. Larger(s, t)
  BY DEF Grows
<1>. QED  BY <1>1, LargerRefs

\* What is stored was stored before, or is good.
LEMMA RefsKept ==
  ASSUME NEW s, NEW t, Shape(s), Shape(t), Refs(s), Larger(s, t),
         \A p \in Nums(t) : \/ p \in Nums(s) /\ t.promise[p].result = s.promise[p].result
                            \/ ValueOK(t, t.promise[p].result),
         \A p \in Nums(t) : \A i \in DOMAIN t.promise[p].reactions :
           \/ p \in Nums(s) /\ \E m \in DOMAIN s.promise[p].reactions :
                                 t.promise[p].reactions[i] = s.promise[p].reactions[m]
           \/ ReactionOK(t, t.promise[p].reactions[i]),
         \A j \in DOMAIN t.queue : \/ \E m \in DOMAIN s.queue : t.queue[j] = s.queue[m]
                                   \/ JobOK(t, t.queue[j]),
         \A i \in DOMAIN t.gen.queue :
           \/ \E m \in DOMAIN s.gen.queue : t.gen.queue[i] = s.gen.queue[m]
           \/ RequestOK(t, t.gen.queue[i])
  PROVE  Refs(t)
<1>1. \A p \in Nums(t) : ValueOK(t, t.promise[p].result)
  BY LargerRefs DEF Refs
<1>2. \A p \in Nums(t) : \A i \in DOMAIN t.promise[p].reactions :
        ReactionOK(t, t.promise[p].reactions[i])
  <2>. SUFFICES ASSUME NEW p \in Nums(t), NEW i \in DOMAIN t.promise[p].reactions
                PROVE  ReactionOK(t, t.promise[p].reactions[i])
    OBVIOUS
  <2>1. ASSUME p \in Nums(s), NEW m \in DOMAIN s.promise[p].reactions,
               t.promise[p].reactions[i] = s.promise[p].reactions[m]
        PROVE  ReactionOK(t, t.promise[p].reactions[i])
    BY <2>1, LargerRefs DEF Refs
  <2>. QED  BY <2>1
<1>3. \A j \in DOMAIN t.queue : JobOK(t, t.queue[j])
  BY LargerRefs DEF Refs
<1>4. \A i \in DOMAIN t.gen.queue : RequestOK(t, t.gen.queue[i])
  BY LargerRefs DEF Refs
<1>. QED  BY <1>1, <1>2, <1>3, <1>4 DEF Refs

LEMMA SpotsImage ==
  ASSUME NEW s, NEW t, NEW k, NEW f, NEW g,
         Spots(t, k, f) = {g[x] : x \in Spots(s, k, f)}
  PROVE  SameSpots(s, t, k, f)
<1>1. Spots(s, k, f) = {} => Spots(t, k, f) = {}
  OBVIOUS
<1>2. ASSUME NEW x, Spots(s, k, f) = {x} PROVE Spots(t, k, f) = {g[x]}
  BY <1>2
<1>. QED  BY <1>1, <1>2 DEF SameSpots, One

LEMMA InSpots ==
  ASSUME NEW s, NEW k, NEW f, NEW a, NEW b
  PROVE  <<a, b>> \in Spots(s, k, f) <=>
           \/ a = 0 /\ b \in JobSpots(s, k, f)
           \/ a \in Nums(s) /\ b \in ReactionSpots(s, a, k, f)
BY DEF Spots

LEMMA SpotsPairs ==
  ASSUME NEW s, NEW k, NEW f, NEW x \in Spots(s, k, f)
  PROVE  x = <<x[1], x[2]>>
BY DEF Spots

\* The same handlers are stored at the same places.
LEMMA SpotsEqual ==
  ASSUME NEW s, NEW t, NEW k, NEW f,
         JobSpots(t, k, f) = JobSpots(s, k, f),
         \A q \in Nums(s) : ReactionSpots(t, q, k, f) = ReactionSpots(s, q, k, f),
         \A q \in Nums(t) \ Nums(s) : ReactionSpots(t, q, k, f) = {},
         Nums(s) \subseteq Nums(t)
  PROVE  Spots(t, k, f) = Spots(s, k, f) /\ SameSpots(s, t, k, f)
<1>1. Spots(t, k, f) = Spots(s, k, f)
  BY DEF Spots
<1>. QED  BY <1>1 DEF SameSpots

LEMMA EffectTrans ==
  ASSUME NEW s, NEW t, NEW u, Shape(s), Shape(t), Shape(u), Effect(s, t), Effect(t, u)
  PROVE  Effect(s, u)
<1>1. Grows(s, u)
  BY GrowsTrans DEF Effect
<1>2. Nums(s) \subseteq Nums(t) /\ Nums(t) \subseteq Nums(u)
  BY GrowsNums DEF Effect
<1>3. SameFrames(s, u)
  <2>1. \A p \in Nums(s) : u.promise[p].frame = s.promise[p].frame
    BY <1>2 DEF Effect, SameFrames
  <2>2. \A p \in Nums(u) \ Nums(s) : u.promise[p].frame = "none"
    BY <1>2 DEF Effect, SameFrames
  <2>. QED  BY <2>1, <2>2 DEF SameFrames
<1>4. \A k \in Wakers, f \in Nat : SameSpots(s, u, k, f)
  BY DEF Effect, SameSpots
<1>. QED  BY <1>1, <1>3, <1>4 DEF Effect

(***************************************************************************)
(* Bookkeeping that no resolver and no wake-up depends on.                 *)
(***************************************************************************)
\* The queue, and of a promise its state, result, reactions and which resolving
\* functions were called, stay.
Tweaked(s, t) ==
  /\ DOMAIN t = DOMAIN s /\ t.queue = s.queue
  /\ IsSeq(t.promise) /\ Len(t.promise) = Len(s.promise)
  /\ \A p \in Nums(s) :
       /\ DOMAIN t.promise[p] = DOMAIN s.promise[p]
       /\ t.promise[p].state = s.promise[p].state
       /\ t.promise[p].result = s.promise[p].result
       /\ t.promise[p].reactions = s.promise[p].reactions
       /\ t.promise[p].already_resolved = s.promise[p].already_resolved
       /\ t.promise[p].open \subseteq DOMAIN t.promise[p].already_resolved
  /\ DOMAIN t.gen = DOMAIN s.gen /\ IsSeq(t.gen.queue)
  /\ \A i \in DOMAIN t.gen.queue :
       \/ \E m \in DOMAIN s.gen.queue : t.gen.queue[i] = s.gen.queue[m]
       \/ RequestOK(s, t.gen.queue[i])

\* What is known of the reactions of p.
Recorded(s, t, p) ==
  /\ t.promise[p].state = s.promise[p].state /\ t.promise[p].reactions = s.promise[p].reactions
  /\ t.promise[p].thens = s.promise[p].thens /\ t.promise[p].ran = s.promise[p].ran

SameCounts(s, t) ==
  \A p \in Nums(s) : t.promise[p].thens = s.promise[p].thens /\ t.promise[p].ran = s.promise[p].ran

\* Nothing that is known of the reactions of q changes.
LEMMA LinedKept ==
  ASSUME NEW s, NEW t, NEW q, Recorded(s, t, q), Lined(s, q), JobsOf(t, q) = JobsOf(s, q),
         \A j \in JobsOf(s, q) : t.queue[j].id = s.queue[j].id
  PROVE  Lined(t, q)
<1>1. Queued(t.promise[q]) = Queued(s.promise[q])
  BY DEF Queued, Recorded
<1>2. \A j \in JobsOf(s, q) : t.queue[j].id \in (s.promise[q].ran + 1)..Queued(s.promise[q])
  BY DEF Lined
<1>3. \A m \in (s.promise[q].ran + 1)..Queued(s.promise[q]) : \E j \in JobsOf(s, q) : t.queue[j].id = m
  BY DEF Lined
<1>4. \A i, j \in JobsOf(s, q) : i < j => t.queue[i].id < t.queue[j].id
  BY DEF Lined
<1>5. /\ t.promise[q].thens \in Nat /\ t.promise[q].ran \in Nat /\ t.promise[q].ran <= Queued(t.promise[q])
      /\ t.promise[q].state # "pending" => t.promise[q].reactions = <<>>
      /\ \A i \in DOMAIN t.promise[q].reactions :
           t.promise[q].reactions[i].id = Queued(t.promise[q]) + i
  BY <1>1 DEF Lined, Recorded
<1>. QED  BY <1>1, <1>2, <1>3, <1>4, <1>5 DEF Lined, Recorded

LEMMA SameOrder ==
  ASSUME NEW s, NEW t, Nums(t) = Nums(s), t.queue = s.queue, \A p \in Nums(s) : Recorded(s, t, p)
  PROVE  InOrder(s) => InOrder(t)
<1>. SUFFICES ASSUME NEW p \in Nums(s), Lined(s, p)
              PROVE  Lined(t, p)
  BY DEF InOrder
<1>1. JobsOf(t, p) = JobsOf(s, p)
  BY DEF JobsOf
<1>. QED  BY <1>1, LinedKept

LEMMA TweakedShape ==
  ASSUME NEW s, NEW t, Shape(s), Tweaked(s, t)
  PROVE  /\ Shape(t) /\ Nums(t) = Nums(s) /\ Larger(s, t)
         /\ SameCounts(s, t) => Grows(s, t)
         /\ Refs(s) => Refs(t)
         /\ \A p \in Nums(s) : ResolverOK(t, p) = ResolverOK(s, p) /\ NoResolver(t, p) = NoResolver(s, p)
         /\ \A k, f : Spots(t, k, f) = Spots(s, k, f)
<1>1. Nums(t) = Nums(s)
  BY DEF Tweaked, Nums
<1>2. Shape(t)
  BY <1>1 DEF Shape, PromiseShape, Tweaked
<1>3. Larger(s, t)
  BY Numbered DEF Tweaked, Larger
<1>4. Refs(s) => Refs(t)
  <2>. HAVE Refs(s)
  <2>1. \A p \in Nums(t) : t.promise[p].result = s.promise[p].result
    BY <1>1 DEF Tweaked
  <2>2. \A p \in Nums(t) : \A i \in DOMAIN t.promise[p].reactions :
          \E m \in DOMAIN s.promise[p].reactions :
             t.promise[p].reactions[i] = s.promise[p].reactions[m]
    BY <1>1 DEF Tweaked
  <2>3. \A j \in DOMAIN t.queue : \E m \in DOMAIN s.queue : t.queue[j] = s.queue[m]
    BY DEF Tweaked
  <2>4. \A i \in DOMAIN t.gen.queue :
          \/ \E m \in DOMAIN s.gen.queue : t.gen.queue[i] = s.gen.queue[m]
          \/ RequestOK(t, t.gen.queue[i])
    BY <1>2, <1>3, LargerRefs DEF Tweaked
  <2>. QED  BY <1>1, <1>2, <1>3, <2>1, <2>2, <2>3, <2>4, RefsKept
<1>5. \A p \in Nums(s) : Open(t, p) = Open(s, p) /\ Adopting(t, p) = Adopting(s, p)
  BY DEF Tweaked, Open, Adopting
<1>6. \A p \in Nums(s) : ResolverOK(t, p) = ResolverOK(s, p) /\ NoResolver(t, p) = NoResolver(s, p)
  BY <1>5 DEF Tweaked, ResolverOK, NoResolver, OneResolver
<1>7. ASSUME NEW k, NEW f PROVE Spots(t, k, f) = Spots(s, k, f)
  <2>1. JobSpots(t, k, f) = JobSpots(s, k, f)
    BY DEF Tweaked, JobSpots
  <2>2. \A q \in Nums(s) : ReactionSpots(t, q, k, f) = ReactionSpots(s, q, k, f)
    BY DEF Tweaked, ReactionSpots
  <2>. QED  BY <1>1, <2>1, <2>2, SpotsEqual
<1>8. ASSUME SameCounts(s, t) PROVE Grows(s, t)
  <2>1. t.queue = s.queue /\ \A p \in Nums(s) : Recorded(s, t, p)
    BY <1>8 DEF Tweaked, SameCounts, Recorded
  <2>. QED  BY <1>1, <1>3, <2>1, SameOrder DEF Grows
<1>. QED  BY <1>1, <1>2, <1>3, <1>4, <1>6, <1>7, <1>8

LEMMA TweakedGood ==
  ASSUME NEW s, NEW t, Good(s), Tweaked(s, t), SameCounts(s, t)
  PROVE  /\ Good(t) /\ Nums(t) = Nums(s) /\ Grows(s, t)
         /\ \A k, f : Spots(t, k, f) = Spots(s, k, f)
BY TweakedShape DEF Good

LEMMA TweakedFlux ==
  ASSUME NEW s, NEW t, NEW p, Flux(s, p), Tweaked(s, t), SameCounts(s, t)
  PROVE  /\ Flux(t, p) /\ Nums(t) = Nums(s) /\ Grows(s, t)
         /\ \A k, f : Spots(t, k, f) = Spots(s, k, f)
BY TweakedShape DEF Flux, Tweaked

(***************************************************************************)
(* NewPromise.                                                             *)
(***************************************************************************)
LEMMA NewPromiseGood ==
  ASSUME NEW s, Good(s), NEW o \in BOOLEAN, NEW t, t = NewPromise(s, o)
  PROVE  /\ Good(t) /\ Effect(s, t)
         /\ Len(t.promise) = Len(s.promise) + 1 /\ Newest(t) \in Nums(t)
         /\ PairOK(t, <<Newest(t), 1>>) /\ t.promise[Newest(t)].open \subseteq {1}
<1>1. PICK n \in Nat : n = Len(s.promise) + 1
  BY Numbered DEF Good
<1>2. PICK r : r = [state |-> "pending", result |-> Undefined, reactions |-> <<>>, handled |-> FALSE,
                    already_resolved |-> <<FALSE>>, open |-> IF o THEN {1} ELSE {},
                    thens |-> 0, ran |-> 0, to |-> Undefined, frame |-> "none", env |-> NoElements]
  OBVIOUS
<1>3. Shape(s) /\ DOMAIN s = {"promise", "queue", "gen"} /\ IsSeq(s.promise)
  BY DEF Good, Shape
<1>4. t = [s EXCEPT !.promise = Append(s.promise, r)]
  BY <1>2 DEF NewPromise
<1>5. t.promise = Append(s.promise, r) /\ t.queue = s.queue /\ t.gen = s.gen /\ DOMAIN t = DOMAIN s
  BY <1>3, <1>4
<1>6. /\ IsSeq(t.promise) /\ Len(t.promise) = n
      /\ \A p \in Nums(s) : t.promise[p] = s.promise[p]
      /\ t.promise[n] = r
  BY <1>1, <1>3, <1>5, SeqAppend DEF Nums
<1>7. Nums(t) = Nums(s) \cup {n} /\ n \notin Nums(s) /\ Nums(s) \subseteq Nat
  BY <1>1, <1>3, <1>6, Numbered DEF Nums
<1>8. /\ DOMAIN r = PromiseFields /\ r.state = "pending" /\ r.result = Undefined
      /\ r.reactions = <<>> /\ r.already_resolved = <<FALSE>> /\ r.open \subseteq {1}
      /\ r.frame = "none" /\ r.thens = 0 /\ r.ran = 0
  BY <1>2 DEF PromiseFields
<1>9. DOMAIN <<FALSE>> = {1} /\ <<FALSE>> \in Seq(BOOLEAN) /\ <<FALSE>>[1] = FALSE
      /\ DOMAIN <<>> = {} /\ <<>> \in Seq({})
  OBVIOUS
<1>10. PromiseShape(r)
  BY <1>8, <1>9 DEF PromiseShape, IsSeq
<1>11. Shape(t)
  BY <1>3, <1>5, <1>6, <1>7, <1>10 DEF Shape
<1>12. Larger(s, t)
  BY <1>1, <1>3, <1>6, Numbered DEF Larger
<1>13. Refs(t)
  <2>1. ValueOK(t, Undefined)
    BY DEF ValueOK, Undefined
  <2>2. \A p \in Nums(t) : \/ p \in Nums(s) /\ t.promise[p].result = s.promise[p].result
                           \/ ValueOK(t, t.promise[p].result)
    BY <1>6, <1>7, <1>8, <2>1
  <2>3. \A p \in Nums(t) : \A i \in DOMAIN t.promise[p].reactions :
          p \in Nums(s) /\ \E m \in DOMAIN s.promise[p].reactions :
                              t.promise[p].reactions[i] = s.promise[p].reactions[m]
    BY <1>6, <1>7, <1>8, <1>9
  <2>4. Refs(s)
    BY DEF Good
  <2>5. \A j \in DOMAIN t.queue : \E m \in DOMAIN s.queue : t.queue[j] = s.queue[m]
    BY <1>5
  <2>6. \A i \in DOMAIN t.gen.queue : \E m \in DOMAIN s.gen.queue : t.gen.queue[i] = s.gen.queue[m]
    BY <1>5
  <2>. QED  BY <1>3, <1>11, <1>12, <2>2, <2>3, <2>4, <2>5, <2>6, RefsKept
<1>14. \A p \in Nums(t) : ResolverOK(t, p)
  <2>1. \A p : Adopting(t, p) = Adopting(s, p)
    BY <1>5 DEF Adopting
  <2>2. \A p \in Nums(s) : Open(t, p) = Open(s, p)
    BY <1>6 DEF Open
  <2>3. \A p \in Nums(s) : ResolverOK(t, p)
    BY <1>6, <2>1, <2>2 DEF Good, ResolverOK, OneResolver, NoResolver
  <2>4. Adopting(s, n) = {}
    BY <1>7 DEF Adopting, Good, Refs, JobOK
  <2>5. Open(t, n) = {1}
    BY <1>6, <1>8, <1>9 DEF Open
  <2>6. ResolverOK(t, n)
    BY <1>6, <1>8, <2>1, <2>4, <2>5 DEF ResolverOK, OneResolver, One
  <2>. QED  BY <1>7, <2>3, <2>6
<1>15. ASSUME NEW k, NEW f PROVE Spots(t, k, f) = Spots(s, k, f) /\ SameSpots(s, t, k, f)
  <2>1. JobSpots(t, k, f) = JobSpots(s, k, f)
    BY <1>5 DEF JobSpots
  <2>2. \A q \in Nums(s) : ReactionSpots(t, q, k, f) = ReactionSpots(s, q, k, f)
    BY <1>6 DEF ReactionSpots
  <2>3. \A q \in Nums(t) \ Nums(s) : ReactionSpots(t, q, k, f) = {}
    BY <1>6, <1>7, <1>8, <1>9 DEF ReactionSpots
  <2>. QED  BY <1>7, <2>1, <2>2, <2>3, SpotsEqual
<1>16. SameFrames(s, t)
  BY <1>6, <1>7, <1>8 DEF SameFrames
<1>20. InOrder(s) => InOrder(t)
  <2>. SUFFICES ASSUME InOrder(s), NEW p \in Nums(t)
                PROVE  Lined(t, p)
    BY DEF InOrder
  <2>1. JobsOf(t, p) = JobsOf(s, p)
    BY <1>5 DEF JobsOf
  <2>2. CASE p \in Nums(s)
    <3>1. Recorded(s, t, p) /\ Lined(s, p)
      BY <1>6, <2>2 DEF Recorded, InOrder
    <3>. QED  BY <1>5, <2>1, <3>1, LinedKept
  <2>3. CASE p = n
    <3>1. JobsOf(t, p) = {}
      BY <1>1, <1>3, <1>7, <2>1, <2>3, Numbered DEF JobsOf, Good, Refs, JobOK
    <3>2. Len(<<>>) = 0 /\ 0 - 0 = 0
      OBVIOUS
    <3>3. Queued(r) = 0
      BY <1>8, <3>2 DEF Queued
    <3>4. t.promise[p] = r
      BY <1>6, <2>3
    <3>. QED  BY <1>8, <1>9, <3>1, <3>3, <3>4 DEF Lined
  <2>. QED  BY <1>7, <2>2, <2>3
<1>17. Effect(s, t)
  BY <1>5, <1>12, <1>15, <1>16, <1>20 DEF Effect, Grows
<1>18. Newest(t) = n
  BY <1>6 DEF Newest
<1>19. PairOK(t, <<n, 1>>)
  BY <1>6, <1>7, <1>8, <1>9 DEF PairOK
<1>. QED  BY <1>1, <1>6, <1>7, <1>8, <1>11, <1>13, <1>14, <1>17, <1>18, <1>19 DEF Good

(***************************************************************************)
(* The resolving functions.                                                *)
(***************************************************************************)
\* already_resolved->value = TRUE takes the one resolver from the promise.
LEMMA CallPair ==
  ASSUME NEW s, Good(s), NEW p, NEW i, PairOK(s, <<p, i>>), ~s.promise[p].already_resolved[i],
         NEW t, t = [s EXCEPT !.promise[p].already_resolved[i] = TRUE]
  PROVE  Flux(t, p) /\ Effect(s, t) /\ Nums(t) = Nums(s)
<1>1. Shape(s) /\ DOMAIN s = {"promise", "queue", "gen"} /\ IsSeq(s.promise)
  BY DEF Good, Shape
<1>2. p \in Nums(s) /\ i \in DOMAIN s.promise[p].already_resolved /\ DOMAIN s.promise = Nums(s)
  BY <1>1, Numbered DEF PairOK
<1>3. PromiseShape(s.promise[p]) /\ DOMAIN s.promise[p] = PromiseFields
  BY <1>1, <1>2 DEF Shape, PromiseShape
<1>4. PICK a : a = [s.promise[p].already_resolved EXCEPT ![i] = TRUE]
  OBVIOUS
<1>5. PICK r : r = [s.promise[p] EXCEPT !.already_resolved = a]
  OBVIOUS
<1>6. t.promise = [s.promise EXCEPT ![p] = r] /\ t.queue = s.queue /\ t.gen = s.gen /\ DOMAIN t = DOMAIN s
  BY <1>1, <1>4, <1>5
<1>7. /\ IsSeq(t.promise) /\ Len(t.promise) = Len(s.promise) /\ t.promise[p] = r
      /\ \A q \in Nums(s) : q # p => t.promise[q] = s.promise[q]
  BY <1>1, <1>2, <1>6, SeqExcept
<1>8. Nums(t) = Nums(s)
  BY <1>7 DEF Nums
<1>9. /\ DOMAIN r = PromiseFields /\ r.already_resolved = a
      /\ r.state = s.promise[p].state /\ r.result = s.promise[p].result
      /\ r.reactions = s.promise[p].reactions /\ r.open = s.promise[p].open
      /\ r.frame = s.promise[p].frame
      /\ r.thens = s.promise[p].thens /\ r.ran = s.promise[p].ran
  BY <1>3, <1>5 DEF PromiseFields
<1>10. /\ a \in Seq(BOOLEAN) /\ DOMAIN a = DOMAIN s.promise[p].already_resolved
       /\ a[i] = TRUE
       /\ \A m \in DOMAIN a : m # i => a[m] = s.promise[p].already_resolved[m]
  <2>1. s.promise[p].already_resolved \in Seq(BOOLEAN)
    BY <1>3 DEF PromiseShape
  <2>. QED  BY <1>2, <1>4, <2>1
<1>11. PromiseShape(r)
  BY <1>3, <1>9, <1>10 DEF PromiseShape
<1>12. Shape(t)
  BY <1>1, <1>6, <1>7, <1>8, <1>11 DEF Shape
<1>13. Larger(s, t)
  <2>1. Len(s.promise) <= Len(t.promise)
    BY <1>1, <1>7, Numbered
  <2>. QED  BY <1>7, <1>9, <1>10, <2>1 DEF Larger
<1>14. \A q \in Nums(s) : /\ t.promise[q].state = s.promise[q].state
                          /\ t.promise[q].result = s.promise[q].result
                          /\ t.promise[q].reactions = s.promise[q].reactions
                          /\ t.promise[q].frame = s.promise[q].frame
  BY <1>7, <1>9
<1>15. Refs(t)
  <2>1. \A q \in Nums(t) : \/ q \in Nums(s) /\ t.promise[q].result = s.promise[q].result
                           \/ ValueOK(t, t.promise[q].result)
    BY <1>8, <1>14
  <2>2. \A q \in Nums(t) : \A m \in DOMAIN t.promise[q].reactions :
          \/ q \in Nums(s) /\ \E l \in DOMAIN s.promise[q].reactions :
                              t.promise[q].reactions[m] = s.promise[q].reactions[l]
          \/ ReactionOK(t, t.promise[q].reactions[m])
    BY <1>8, <1>14
  <2>3. \A j \in DOMAIN t.queue : \/ \E m \in DOMAIN s.queue : t.queue[j] = s.queue[m]
                                  \/ JobOK(t, t.queue[j])
    BY <1>6
  <2>4. \A m \in DOMAIN t.gen.queue :
          \/ \E l \in DOMAIN s.gen.queue : t.gen.queue[m] = s.gen.queue[l]
          \/ RequestOK(t, t.gen.queue[m])
    BY <1>6
  <2>5. Refs(s) /\ Shape(s)
    BY DEF Good
  <2>. QED  BY <1>12, <1>13, <2>1, <2>2, <2>3, <2>4, <2>5, RefsKept
<1>16. \A q : Adopting(t, q) = Adopting(s, q)
  BY <1>6 DEF Adopting
<1>17. s.promise[p].state = "pending" /\ Open(s, p) = {i} /\ Adopting(s, p) = {}
  <2>1. i \in Open(s, p)
    BY <1>2 DEF Open
  <2>2. ResolverOK(s, p)
    BY <1>2 DEF Good
  <2>. QED  BY <2>1, <2>2 DEF ResolverOK, NoResolver, OneResolver, One
<1>18. NoResolver(t, p)
  <2>1. Open(t, p) = {}
    BY <1>7, <1>9, <1>10, <1>17 DEF Open
  <2>. QED  BY <1>16, <1>17, <2>1 DEF NoResolver
<1>19. \A q \in Nums(s) \ {p} : ResolverOK(t, q)
  <2>1. \A q \in Nums(s) \ {p} : Open(t, q) = Open(s, q)
    BY <1>7 DEF Open
  <2>. QED  BY <1>14, <1>16, <2>1 DEF Good, ResolverOK, NoResolver, OneResolver
<1>20. Flux(t, p)
  BY <1>2, <1>8, <1>12, <1>14, <1>15, <1>17, <1>18, <1>19 DEF Flux
<1>21. ASSUME NEW k, NEW f PROVE SameSpots(s, t, k, f)
  <2>1. JobSpots(t, k, f) = JobSpots(s, k, f)
    BY <1>6 DEF JobSpots
  <2>2. \A q \in Nums(s) : ReactionSpots(t, q, k, f) = ReactionSpots(s, q, k, f)
    BY <1>14 DEF ReactionSpots
  <2>. QED  BY <1>8, <2>1, <2>2, SpotsEqual
<1>22. SameFrames(s, t)
  BY <1>8, <1>14 DEF SameFrames
<1>23. InOrder(s) => InOrder(t)
  <2>1. \A q \in Nums(s) : Recorded(s, t, q)
    BY <1>7, <1>9 DEF Recorded
  <2>. QED  BY <1>6, <1>8, <2>1, SameOrder
<1>. QED  BY <1>6, <1>8, <1>13, <1>20, <1>21, <1>22, <1>23 DEF Effect, Grows

LEMMA FulfillGood ==
  ASSUME NEW s, NEW p, Flux(s, p), NEW v, ValueOK(s, v), NEW rej \in BOOLEAN,
         NEW t, t = FulfillOrReject(s, p, v, rej)
  PROVE  Good(t) /\ Effect(s, t) /\ Nums(t) = Nums(s)
<1>1. /\ Shape(s) /\ DOMAIN s = {"promise", "queue", "gen"} /\ IsSeq(s.promise) /\ IsSeq(s.queue)
      /\ p \in Nums(s) /\ Refs(s)
  BY DEF Flux, Shape
<1>2. DOMAIN s.promise = Nums(s) /\ p # 0 /\ DOMAIN s.promise[p] = PromiseFields
      /\ IsSeq(s.promise[p].reactions)
  BY <1>1, Numbered DEF Shape, PromiseShape, Nums
<1>3. PICK rs : rs = s.promise[p].reactions
  OBVIOUS
<1>4. PICK z : z = [i \in DOMAIN rs |-> ReactionJob(p, rs[i], rej, v)]
  OBVIOUS
<1>5. PICK L \in Nat : L = Len(s.queue)
  BY <1>1, SeqBasics
<1>6. PICK M \in Nat : M = Len(rs) /\ DOMAIN rs = 1..M
  BY <1>2, <1>3, SeqBasics
<1>7. IsSeq(z) /\ Len(z) = M /\ DOMAIN z = 1..M
  <2>1. z = [i \in 1..M |-> z[i]]
    BY <1>4, <1>6
  <2>. QED  BY <2>1, SeqOfFunction
<1>8. \A i \in 1..M : /\ z[i].k = "reaction" /\ z[i].pair = rs[i].pair /\ z[i].from = p /\ z[i].arg = v
                      /\ z[i].h = IF rej THEN rs[i].onRejected ELSE rs[i].onFulfilled
                      /\ z[i].rej \in BOOLEAN /\ z[i].id = rs[i].id
  BY <1>4, <1>6 DEF ReactionJob, Job
<1>. DEFINE st == IF rej THEN "rejected" ELSE "fulfilled"
<1>9. PICK r : r = [s.promise[p] EXCEPT !.state = st, !.result = v, !.reactions = <<>>]
  OBVIOUS
<1>10. /\ t.promise = [s.promise EXCEPT ![p] = r] /\ t.queue = s.queue \o z /\ t.gen = s.gen
       /\ DOMAIN t = DOMAIN s
  <2>1. t = [s EXCEPT !.promise[p].state = st, !.promise[p].result = v,
                      !.promise[p].reactions = <<>>, !.queue = @ \o z]
    BY <1>3, <1>4 DEF FulfillOrReject, Flux
  <2>. HIDE DEF st
  <2>2. PICK s1 : s1 = [s EXCEPT !.promise = [s.promise EXCEPT ![p] = [s.promise[p] EXCEPT !.state = st]]]
    OBVIOUS
  <2>3. /\ DOMAIN s1 = DOMAIN s /\ s1.queue = s.queue /\ s1.gen = s.gen
        /\ s1.promise = [s.promise EXCEPT ![p] = [s.promise[p] EXCEPT !.state = st]]
    BY <1>1, <2>2
  <2>4. PICK s2 : s2 = [s1 EXCEPT !.promise[p].result = v]
    OBVIOUS
  <2>5. /\ DOMAIN s2 = DOMAIN s /\ s2.queue = s.queue /\ s2.gen = s.gen
        /\ s2.promise = [s.promise EXCEPT ![p] = [s.promise[p] EXCEPT !.state = st, !.result = v]]
    BY <1>1, <1>2, <2>3, <2>4
  <2>6. PICK s3 : s3 = [s2 EXCEPT !.promise[p].reactions = <<>>]
    OBVIOUS
  <2>7. /\ DOMAIN s3 = DOMAIN s /\ s3.queue = s.queue /\ s3.gen = s.gen
        /\ s3.promise = [s.promise EXCEPT ![p] = r]
    BY <1>1, <1>2, <1>9, <2>5, <2>6
  <2>8. t = [s3 EXCEPT !.queue = @ \o z]
    BY <2>1, <2>2, <2>4, <2>6
  <2>. QED  BY <1>1, <2>7, <2>8
<1>11. /\ IsSeq(t.promise) /\ Len(t.promise) = Len(s.promise) /\ t.promise[p] = r
       /\ \A q \in Nums(s) : q # p => t.promise[q] = s.promise[q]
  BY <1>1, <1>2, <1>10, SeqExcept
<1>12. Nums(t) = Nums(s)
  BY <1>11 DEF Nums
<1>13. /\ DOMAIN r = PromiseFields /\ r.already_resolved = s.promise[p].already_resolved
       /\ r.state # "pending" /\ r.result = v /\ r.reactions = <<>>
       /\ r.open = s.promise[p].open /\ r.frame = s.promise[p].frame
       /\ r.thens = s.promise[p].thens /\ r.ran = s.promise[p].ran
  BY <1>2, <1>9 DEF PromiseFields
<1>. HIDE DEF st
<1>14. /\ IsSeq(t.queue) /\ DOMAIN t.queue = 1..(L + M) /\ DOMAIN s.queue = 1..L
       /\ \A j \in 1..L : t.queue[j] = s.queue[j]
       /\ \A i \in 1..M : t.queue[L + i] = z[i]
  <2>1. /\ IsSeq(s.queue \o z) /\ DOMAIN (s.queue \o z) = 1..(Len(s.queue) + Len(z))
        /\ \A j \in 1..Len(s.queue) : (s.queue \o z)[j] = s.queue[j]
        /\ \A i \in 1..Len(z) : (s.queue \o z)[Len(s.queue) + i] = z[i]
    <3>1. PICK sq : sq = s.queue /\ IsSeq(sq)
      BY <1>1
    <3>2. IsSeq(z)
      BY <1>7
    <3>3. /\ IsSeq(sq \o z) /\ DOMAIN (sq \o z) = 1..(Len(sq) + Len(z))
          /\ \A j \in 1..Len(sq) : (sq \o z)[j] = sq[j]
          /\ \A i \in 1..Len(z) : (sq \o z)[Len(sq) + i] = z[i]
      BY <3>1, <3>2, SeqConcat
    <3>. QED  BY <3>1, <3>3
  <2>2. DOMAIN s.queue = 1..L
    BY <1>1, <1>5, SeqBasics
  <2>. QED  BY <1>5, <1>7, <1>10, <2>1, <2>2
<1>15. \A j \in 1..(L + M) : j \in 1..L \/ \E i \in 1..M : j = L + i
  <2>. SUFFICES ASSUME NEW j \in 1..(L + M), j \notin 1..L
                PROVE  \E i \in 1..M : j = L + i
    OBVIOUS
  <2>1. j - L \in 1..M /\ j = L + (j - L)
    OBVIOUS
  <2>. QED  BY <2>1
<1>16. Shape(t)
  <2>1. <<>> \in Seq({})
    OBVIOUS
  <2>2. PromiseShape(r)
    BY <1>1, <1>13, <2>1 DEF Shape, PromiseShape, IsSeq
  <2>. QED  BY <1>1, <1>10, <1>11, <1>12, <1>14, <2>2 DEF Shape
<1>17. Larger(s, t)
  <2>1. Len(s.promise) <= Len(t.promise)
    BY <1>1, <1>11, Numbered
  <2>. QED  BY <1>11, <1>13, <2>1 DEF Larger
<1>18. \A i \in 1..M : ReactionOK(s, rs[i])
  BY <1>1, <1>3, <1>6 DEF Refs
<1>19. Refs(t)
  <2>1. ValueOK(t, v)
    BY <1>1, <1>16, <1>17, LargerRefs
  <2>2. \A q \in Nums(t) : \/ q \in Nums(s) /\ t.promise[q].result = s.promise[q].result
                           \/ ValueOK(t, t.promise[q].result)
    BY <1>11, <1>12, <1>13, <2>1
  <2>3. \A q \in Nums(t) : \A i \in DOMAIN t.promise[q].reactions :
          q \in Nums(s) /\ \E m \in DOMAIN s.promise[q].reactions :
                              t.promise[q].reactions[i] = s.promise[q].reactions[m]
    <3>1. DOMAIN <<>> = {}
      OBVIOUS
    <3>. QED  BY <1>11, <1>12, <1>13, <3>1
  <2>4. \A i \in 1..M : JobOK(t, z[i])
    <3>. SUFFICES ASSUME NEW i \in 1..M
                  PROVE  JobOK(t, z[i])
      OBVIOUS
    <3>1. ReactionOK(t, rs[i])
      BY <1>1, <1>16, <1>17, <1>18, LargerRefs
    <3>. QED  BY <1>1, <1>8, <1>12, <2>1, <3>1 DEF JobOK, ReactionOK
  <2>5. \A j \in DOMAIN t.queue : \/ \E m \in DOMAIN s.queue : t.queue[j] = s.queue[m]
                                  \/ JobOK(t, t.queue[j])
    BY <1>14, <1>15, <2>4
  <2>6. \A i \in DOMAIN t.gen.queue : \E m \in DOMAIN s.gen.queue : t.gen.queue[i] = s.gen.queue[m]
    BY <1>10
  <2>. QED  BY <1>1, <1>16, <1>17, <2>2, <2>3, <2>5, <2>6, RefsKept
<1>20. \A q : Adopting(t, q) = Adopting(s, q)
  <2>1. \A i \in 1..M : t.queue[L + i].k # "thenable"
    BY <1>8, <1>14
  <2>2. 1..L \subseteq 1..(L + M)
    OBVIOUS
  <2>. QED  BY <1>14, <1>15, <2>1, <2>2 DEF Adopting
<1>21. \A q \in Nums(s) : Open(t, q) = Open(s, q)
  BY <1>11, <1>13 DEF Open
<1>22. \A q \in Nums(t) : ResolverOK(t, q)
  <2>1. \A q \in Nums(s) \ {p} : ResolverOK(t, q)
    BY <1>11, <1>20, <1>21 DEF Flux, ResolverOK, NoResolver, OneResolver
  <2>2. ResolverOK(t, p)
    BY <1>1, <1>11, <1>13, <1>20, <1>21 DEF Flux, ResolverOK, NoResolver
  <2>. QED  BY <1>12, <2>1, <2>2
<1>23. ASSUME NEW k \in Wakers, NEW f \in Nat PROVE SameSpots(s, t, k, f)
  <2>1. \A i \in 1..M : i \in ReactionSpots(s, p, k, f) <=> L + i \in JobSpots(t, k, f)
    <3>. TAKE i \in 1..M
    <3>1. L + i \in DOMAIN t.queue /\ t.queue[L + i] = z[i]
      BY <1>14
    <3>2. IsFor(rs[i].onFulfilled, k, f) <=> IsFor(z[i].h, k, f)
      BY <1>8, <1>18, <1>23 DEF ReactionOK, IsFor
    <3>. QED  BY <1>3, <1>6, <3>1, <3>2 DEF ReactionSpots, JobSpots
  <2>2. \A j \in 1..L : j \in JobSpots(s, k, f) <=> j \in JobSpots(t, k, f)
    <3>1. 1..L \subseteq 1..(L + M)
      OBVIOUS
    <3>. QED  BY <1>14, <3>1 DEF JobSpots
  <2>3. ReactionSpots(t, p, k, f) = {}
    BY <1>11, <1>13 DEF ReactionSpots
  <2>4. \A q \in Nums(s) : q # p => ReactionSpots(t, q, k, f) = ReactionSpots(s, q, k, f)
    BY <1>11 DEF ReactionSpots
  <2>5. JobSpots(s, k, f) \subseteq 1..L /\ JobSpots(t, k, f) \subseteq 1..(L + M)
        /\ ReactionSpots(s, p, k, f) \subseteq 1..M
    BY <1>3, <1>6, <1>14 DEF JobSpots, ReactionSpots
  <2>. DEFINE A == Spots(s, k, f)
              B == Spots(t, k, f)
              g == [x \in A |-> IF x[1] = p THEN <<0, L + x[2]>> ELSE x]
  <2>6. \A x \in A : g[x] \in B
    <3>. SUFFICES ASSUME NEW x \in A
                  PROVE  g[x] \in B
      OBVIOUS
    <3>1. x = <<x[1], x[2]>>
      BY SpotsPairs
    <3>2. PICK a, b : x = <<a, b>>
      BY <3>1
    <3>3. \/ a = 0 /\ b \in JobSpots(s, k, f)
          \/ a \in Nums(s) /\ b \in ReactionSpots(s, a, k, f)
      BY <3>2, InSpots
    <3>4. CASE a = p
      <4>1. b \in ReactionSpots(s, p, k, f)
        BY <1>2, <3>3, <3>4
      <4>2. L + b \in JobSpots(t, k, f)
        BY <2>1, <2>5, <4>1
      <4>3. g[x] = <<0, L + b>>
        BY <3>2, <3>4
      <4>4. <<0, L + b>> \in B
        BY <4>2, InSpots
      <4>. QED  BY <4>3, <4>4
    <3>5. CASE a # p
      <4>1. g[x] = <<a, b>>
        BY <3>2, <3>5
      <4>2. <<a, b>> \in B
        BY <1>12, <2>2, <2>4, <2>5, <3>3, <3>5, InSpots
      <4>. QED  BY <4>1, <4>2
    <3>. QED  BY <3>4, <3>5
  <2>7. \A y \in B : \E x \in A : y = g[x]
    <3>. SUFFICES ASSUME NEW y \in B
                  PROVE  \E x \in A : y = g[x]
      OBVIOUS
    <3>1. y = <<y[1], y[2]>>
      BY SpotsPairs
    <3>2. PICK a, b : y = <<a, b>>
      BY <3>1
    <3>3. \/ a = 0 /\ b \in JobSpots(t, k, f)
          \/ a \in Nums(s) /\ b \in ReactionSpots(t, a, k, f)
      BY <1>12, <3>2, InSpots
    <3>4. CASE a = 0 /\ b \in JobSpots(t, k, f) /\ b \in 1..L
      <4>1. <<0, b>> \in A
        BY <2>2, <3>4, InSpots
      <4>2. g[<<0, b>>] = <<0, b>>
        BY <1>2, <4>1
      <4>. QED  BY <3>2, <3>4, <4>1, <4>2
    <3>5. ASSUME a = 0, NEW i \in 1..M, b = L + i, b \in JobSpots(t, k, f)
          PROVE  \E x \in A : y = g[x]
      <4>1. i \in ReactionSpots(s, p, k, f)
        BY <2>1, <3>5
      <4>2. <<p, i>> \in A
        BY <1>1, <4>1, InSpots
      <4>3. g[<<p, i>>] = <<0, L + i>>
        BY <4>2
      <4>. QED  BY <3>2, <3>5, <4>2, <4>3
    <3>6. CASE a \in Nums(s) /\ b \in ReactionSpots(t, a, k, f)
      <4>1. a # p
        BY <2>3, <3>6
      <4>2. <<a, b>> \in A
        BY <2>4, <3>6, <4>1, InSpots
      <4>3. g[<<a, b>>] = <<a, b>>
        BY <4>1, <4>2
      <4>. QED  BY <3>2, <4>2, <4>3
    <3>7. b \in JobSpots(t, k, f) => (b \in 1..L \/ \E i \in 1..M : b = L + i)
      BY <1>15, <2>5
    <3>. QED  BY <3>3, <3>4, <3>5, <3>6, <3>7
  <2>. HIDE DEF A, B, g
  <2>8. B = {g[x] : x \in A}
    BY <2>6, <2>7
  <2>. QED  BY <2>8, SpotsImage DEF A, B
<1>24. SameFrames(s, t)
  BY <1>11, <1>12, <1>13 DEF SameFrames
<1>26. InOrder(s) => InOrder(t)
  <2>. SUFFICES ASSUME InOrder(s), NEW q \in Nums(s)
                PROVE  Lined(t, q)
    BY <1>12 DEF InOrder
  <2>1. Lined(s, q) /\ 1..L \subseteq 1..(L + M)
    BY DEF InOrder
  <2>2. CASE q # p
    <3>1. \A i \in 1..M : t.queue[L + i].from # q
      BY <1>8, <1>14, <2>2
    <3>2. JobsOf(t, q) = JobsOf(s, q)
      <4>1. \A j \in JobsOf(t, q) : j \in 1..L
        <5>. SUFFICES ASSUME NEW j \in JobsOf(t, q), j \notin 1..L PROVE FALSE
          OBVIOUS
        <5>1. j \in 1..(L + M) /\ t.queue[j].from = q
          BY <1>14 DEF JobsOf
        <5>2. PICK i \in 1..M : j = L + i
          BY <1>15, <5>1
        <5>. QED  BY <3>1, <5>1, <5>2
      <4>2. \A j \in 1..L : j \in JobsOf(t, q) <=> j \in JobsOf(s, q)
        BY <1>14, <2>1 DEF JobsOf
      <4>3. \A j \in JobsOf(s, q) : j \in 1..L
        BY <1>14 DEF JobsOf
      <4>. QED  BY <4>1, <4>2, <4>3
    <3>3. \A j \in JobsOf(s, q) : t.queue[j].id = s.queue[j].id
      BY <1>14 DEF JobsOf
    <3>4. Recorded(s, t, q)
      BY <1>11, <2>2 DEF Recorded
    <3>. QED  BY <2>1, <3>2, <3>3, <3>4, LinedKept
  <2>3. CASE q = p
    <3>1. PICK n \in Nat, x \in Nat : n = s.promise[p].thens /\ x = s.promise[p].ran
      BY <2>1, <2>3 DEF Lined
    <3>2. /\ x <= n - M /\ \A i \in 1..M : rs[i].id = (n - M) + i
          /\ \A j \in JobsOf(s, p) : s.queue[j].id \in (x + 1)..(n - M)
          /\ \A m \in (x + 1)..(n - M) : \E j \in JobsOf(s, p) : s.queue[j].id = m
          /\ \A i, j \in JobsOf(s, p) : i < j => s.queue[i].id < s.queue[j].id
      BY <1>3, <1>6, <2>1, <2>3, <3>1 DEF Lined, Queued
    <3>3. \A j \in 1..L : j \in JobsOf(t, p) <=> j \in JobsOf(s, p)
      BY <1>14, <2>1 DEF JobsOf
    <3>4. \A i \in 1..M : /\ L + i \in 1..(L + M) /\ L + i \in JobsOf(t, p)
                           /\ t.queue[L + i].id = (n - M) + i
      <4>. TAKE i \in 1..M
      <4>1. L + i \in 1..(L + M) /\ t.queue[L + i] = z[i]
        BY <1>14
      <4>. QED  BY <1>8, <1>14, <3>2, <4>1 DEF JobsOf
    <3>5. JobsOf(s, p) \subseteq 1..L /\ JobsOf(t, p) \subseteq 1..(L + M)
      BY <1>14 DEF JobsOf
    <3>6. ASSUME NEW j \in JobsOf(t, p)
          PROVE  \/ j \in 1..L /\ j \in JobsOf(s, p) /\ t.queue[j].id = s.queue[j].id
                 \/ \E i \in 1..M : j = L + i /\ t.queue[j].id = (n - M) + i
      <4>1. j \in 1..L \/ \E i \in 1..M : j = L + i
        BY <1>15, <3>5
      <4>2. j \in 1..L => t.queue[j] = s.queue[j]
        BY <1>14
      <4>. QED  BY <3>3, <3>4, <4>1, <4>2
    <3>7. \A j \in JobsOf(t, p) : t.queue[j].id \in (x + 1)..n
      <4>. TAKE j \in JobsOf(t, p)
      <4>1. CASE j \in JobsOf(s, p) /\ t.queue[j].id = s.queue[j].id
        BY <3>2, <4>1
      <4>2. CASE \E i \in 1..M : t.queue[j].id = (n - M) + i
        BY <3>2, <4>2
      <4>. QED  BY <3>6, <4>1, <4>2
    <3>8. \A m \in (x + 1)..n : \E j \in JobsOf(t, p) : t.queue[j].id = m
      <4>. TAKE m \in (x + 1)..n
      <4>1. CASE m <= n - M
        <5>1. PICK j \in JobsOf(s, p) : s.queue[j].id = m
          BY <3>2, <4>1
        <5>2. j \in JobsOf(t, p) /\ t.queue[j] = s.queue[j]
          BY <1>14, <3>3, <3>5
        <5>. QED  BY <5>1, <5>2
      <4>2. CASE m > n - M
        <5>1. PICK i \in 1..M : m = (n - M) + i
          <6>1. m - (n - M) \in 1..M /\ m = (n - M) + (m - (n - M))
            BY <4>2
          <6>. QED  BY <6>1
        <5>. QED  BY <3>4, <5>1
      <4>. QED  BY <4>1, <4>2
    <3>9. \A i, j \in JobsOf(t, p) : i < j => t.queue[i].id < t.queue[j].id
      <4>. SUFFICES ASSUME NEW i \in JobsOf(t, p), NEW j \in JobsOf(t, p), i < j
                    PROVE  t.queue[i].id < t.queue[j].id
        OBVIOUS
      <4>1. CASE j \in 1..L
        <5>1. i \in 1..L
          BY <3>5, <4>1
        <5>2. i \in JobsOf(s, p) /\ j \in JobsOf(s, p)
          BY <3>3, <4>1, <5>1
        <5>3. t.queue[i] = s.queue[i] /\ t.queue[j] = s.queue[j]
          BY <1>14, <4>1, <5>1
        <5>. QED  BY <3>2, <5>2, <5>3
      <4>2. ASSUME NEW b \in 1..M, j = L + b, t.queue[j].id = (n - M) + b
            PROVE  t.queue[i].id < t.queue[j].id
        <5>1. CASE i \in JobsOf(s, p) /\ t.queue[i].id = s.queue[i].id
          <6>1. s.queue[i].id \in (x + 1)..(n - M)
            BY <3>2, <5>1
          <6>. QED  BY <4>2, <5>1, <6>1
        <5>2. ASSUME NEW a \in 1..M, i = L + a, t.queue[i].id = (n - M) + a
              PROVE  t.queue[i].id < t.queue[j].id
          BY <4>2, <5>2
        <5>. QED  BY <3>6, <5>1, <5>2
      <4>. QED  BY <3>6, <4>1, <4>2
    <3>10. t.promise[q].thens = n /\ t.promise[q].ran = x /\ t.promise[q].reactions = <<>>
      BY <1>11, <1>13, <2>3, <3>1
    <3>11. Queued(t.promise[q]) = n /\ DOMAIN <<>> = {}
      BY <3>10 DEF Queued
    <3>12. x <= n
      BY <3>2
    <3>. QED  BY <2>3, <3>7, <3>8, <3>9, <3>10, <3>11, <3>12 DEF Lined
  <2>. QED  BY <2>2, <2>3
<1>25. Effect(s, t)
  BY <1>10, <1>17, <1>23, <1>24, <1>26 DEF Effect, Grows
<1>. QED  BY <1>12, <1>16, <1>19, <1>22, <1>25 DEF Good

LEMMA BuiltinHandlers ==
  ASSUME NEW s
  PROVE  /\ ValueOK(s, Undefined) /\ ValueOK(s, TypeError) /\ ValueOK(s, Thrown)
         /\ HandlerOK(s, NoHandler) /\ HandlerOK(s, ByScript) /\ HandlerOK(s, Handler("finally", 0, 0))
         /\ HandlerOK(s, Handler("generator", 0, 0)) /\ HandlerOK(s, Handler("return", 0, 0))
<1>1. ValueOK(s, Undefined) /\ ValueOK(s, TypeError) /\ ValueOK(s, Thrown)
  BY DEF ValueOK, Undefined, TypeError, Thrown
<1>. QED  BY <1>1 DEF HandlerOK, NoHandler, ByScript, Handler, Wakers

\* In t the handler is stored at one more spot, if it resumes a body.
AddsSpot(s, t, h, x) ==
  \A k \in Wakers, f \in Nat :
    Spots(t, k, f) = IF IsFor(h, k, f) THEN Spots(s, k, f) \cup {x} ELSE Spots(s, k, f)

\* In t the job is stored at n, and the rest of the queue is that of s.
StoredAt(s, t, job, n) ==
  /\ n \notin DOMAIN s.queue /\ DOMAIN t.queue = DOMAIN s.queue \cup {n}
  /\ t.queue[n] = job /\ \A j \in DOMAIN s.queue : t.queue[j] = s.queue[j]
  /\ AddsSpot(s, t, job.h, <<0, n>>)

\* JS_EnqueueJob.
LEMMA Enqueued ==
  ASSUME NEW s, Shape(s), Refs(s), NEW job, JobOK(s, job), NEW t, t = EnqueueJob(s, job)
  PROVE  /\ Shape(t) /\ Refs(t) /\ Larger(s, t) /\ SameFrames(s, t)
         /\ t.gen = s.gen /\ t.promise = s.promise /\ Nums(t) = Nums(s)
         /\ \E n \in Nat : StoredAt(s, t, job, n) /\ \A j \in DOMAIN s.queue : j < n
<1>1. DOMAIN s = {"promise", "queue", "gen"} /\ IsSeq(s.queue)
  BY DEF Shape
<1>2. t.promise = s.promise /\ t.gen = s.gen /\ t.queue = Append(s.queue, job) /\ DOMAIN t = DOMAIN s
  BY <1>1 DEF EnqueueJob
<1>3. PICK sq : sq = s.queue /\ IsSeq(sq)
  BY <1>1
<1>4. PICK n \in Nat : n = Len(sq) + 1
  BY <1>3, SeqBasics
<1>5. /\ IsSeq(t.queue) /\ DOMAIN t.queue = 1..n /\ t.queue[n] = job
      /\ \A j \in 1..Len(sq) : t.queue[j] = s.queue[j]
  BY <1>2, <1>3, <1>4, SeqAppend
<1>6. DOMAIN s.queue = 1..Len(sq) /\ Len(sq) \in Nat
  BY <1>3, SeqBasics
<1>7. /\ n \notin DOMAIN s.queue /\ DOMAIN t.queue = DOMAIN s.queue \cup {n}
      /\ \A j \in DOMAIN s.queue : t.queue[j] = s.queue[j]
  <2>1. 1..n = 1..Len(sq) \cup {n} /\ n \notin 1..Len(sq)
    BY <1>4, <1>6
  <2>. QED  BY <1>5, <1>6, <2>1
<1>8. Nums(t) = Nums(s)
  BY <1>2 DEF Nums
<1>9. Shape(t)
  BY <1>2, <1>5, <1>8 DEF Shape
<1>10. Larger(s, t)
  BY <1>2, Numbered DEF Larger
<1>11. SameFrames(s, t)
  BY <1>2, <1>8 DEF SameFrames
<1>12. Refs(t)
  <2>1. JobOK(t, job)
    BY <1>9, <1>10, LargerRefs
  <2>2. \A q \in Nums(t) : \/ q \in Nums(s) /\ t.promise[q].result = s.promise[q].result
                           \/ ValueOK(t, t.promise[q].result)
    BY <1>2, <1>8
  <2>3. \A q \in Nums(t) : \A m \in DOMAIN t.promise[q].reactions :
          \/ q \in Nums(s) /\ \E l \in DOMAIN s.promise[q].reactions :
                              t.promise[q].reactions[m] = s.promise[q].reactions[l]
          \/ ReactionOK(t, t.promise[q].reactions[m])
    BY <1>2, <1>8
  <2>4. \A j \in DOMAIN t.queue : \/ \E m \in DOMAIN s.queue : t.queue[j] = s.queue[m]
                                  \/ JobOK(t, t.queue[j])
    BY <1>5, <1>7, <2>1
  <2>5. \A m \in DOMAIN t.gen.queue :
          \/ \E l \in DOMAIN s.gen.queue : t.gen.queue[m] = s.gen.queue[l]
          \/ RequestOK(t, t.gen.queue[m])
    BY <1>2
  <2>. QED  BY <1>9, <1>10, <2>2, <2>3, <2>4, <2>5, RefsKept
<1>13. ASSUME NEW k, NEW f
       PROVE  Spots(t, k, f) = IF IsFor(job.h, k, f) THEN Spots(s, k, f) \cup {<<0, n>>}
                                                     ELSE Spots(s, k, f)
  <2>1. JobSpots(t, k, f) = IF IsFor(job.h, k, f) THEN JobSpots(s, k, f) \cup {n} ELSE JobSpots(s, k, f)
    BY <1>5, <1>7 DEF JobSpots
  <2>2. \A q \in Nums(s) : ReactionSpots(t, q, k, f) = ReactionSpots(s, q, k, f)
    BY <1>2 DEF ReactionSpots
  <2>. QED  BY <1>8, <2>1, <2>2 DEF Spots
<1>14. StoredAt(s, t, job, n)
  BY <1>5, <1>7, <1>13 DEF StoredAt, AddsSpot
<1>15. \A j \in DOMAIN s.queue : j < n
  BY <1>4, <1>6
<1>. QED  BY <1>2, <1>8, <1>9, <1>10, <1>11, <1>12, <1>14, <1>15

\* The reactions of the other promises are not disturbed by a new job.
LEMMA LinedOthers ==
  ASSUME NEW s, NEW t, NEW job, NEW n, StoredAt(s, t, job, n), NEW q, q # job.from,
         Recorded(s, t, q), Lined(s, q)
  PROVE  Lined(t, q)
<1>1. /\ n \notin DOMAIN s.queue /\ DOMAIN t.queue = DOMAIN s.queue \cup {n}
      /\ t.queue[n] = job /\ \A j \in DOMAIN s.queue : t.queue[j] = s.queue[j]
  BY DEF StoredAt
<1>2. JobsOf(t, q) = JobsOf(s, q) /\ \A j \in JobsOf(s, q) : t.queue[j] = s.queue[j]
  BY <1>1 DEF JobsOf
<1>. QED  BY <1>2, LinedKept

LEMMA SpotsKept ==
  ASSUME NEW s, NEW t, \A k \in Wakers, f \in Nat : Spots(t, k, f) = Spots(s, k, f)
  PROVE  \A k \in Wakers, f \in Nat : SameSpots(s, t, k, f)
BY DEF SameSpots

\* A job with an object that has a then method is the new resolver.
LEMMA AdoptGood ==
  ASSUME NEW s, NEW p, Flux(s, p), NEW v, ValueOK(s, v), v[1] \in {"promise", "thenable"},
         NEW t, t = EnqueueJob(s, Job("thenable", NoHandler, FALSE, v, <<p, 0>>, 0, 0))
  PROVE  Good(t) /\ Effect(s, t) /\ Nums(t) = Nums(s)
<1>1. PICK job : job = Job("thenable", NoHandler, FALSE, v, <<p, 0>>, 0, 0)
  OBVIOUS
<1>2. job.k = "thenable" /\ job.h = NoHandler /\ job.pair[1] = p /\ job.arg = v
      /\ job.rej \in BOOLEAN /\ job.from = 0
  BY <1>1 DEF Job
<1>3. Shape(s) /\ Refs(s)
  BY DEF Flux
<1>4. JobOK(s, job)
  BY <1>2, BuiltinHandlers DEF JobOK, Flux
<1>5. t = EnqueueJob(s, job)
  BY <1>1
<1>6. /\ Shape(t) /\ Refs(t) /\ Larger(s, t) /\ SameFrames(s, t)
      /\ t.gen = s.gen /\ t.promise = s.promise /\ Nums(t) = Nums(s)
      /\ \E n \in Nat : StoredAt(s, t, job, n) /\ \A j \in DOMAIN s.queue : j < n
  BY <1>3, <1>4, <1>5, Enqueued
<1>7. PICK n : StoredAt(s, t, job, n)
  BY <1>6
<1>8. \A k \in Wakers, f \in Nat : Spots(t, k, f) = Spots(s, k, f)
  <2>. TAKE k \in Wakers, f \in Nat
  <2>1. ~IsFor(job.h, k, f)
    BY <1>2 DEF IsFor, Wakers, NoHandler, Handler
  <2>. QED  BY <1>7, <2>1 DEF StoredAt, AddsSpot
<1>15. InOrder(s) => InOrder(t)
  <2>. SUFFICES ASSUME InOrder(s), NEW q \in Nums(s)
                PROVE  Lined(t, q)
    BY <1>6 DEF InOrder
  <2>1. Recorded(s, t, q) /\ Lined(s, q)
    BY <1>6 DEF Recorded, InOrder
  <2>2. q # job.from
    BY <1>2 DEF Nums
  <2>. QED  BY <1>7, <2>1, <2>2, LinedOthers
<1>9. Effect(s, t)
  BY <1>6, <1>8, <1>15, SpotsKept DEF Effect, Grows
<1>10. \A q : Open(t, q) = Open(s, q)
  BY <1>6 DEF Open
<1>11. \A q : q # p => Adopting(t, q) = Adopting(s, q)
  <2>. SUFFICES ASSUME NEW q, q # p PROVE Adopting(t, q) = Adopting(s, q)
    OBVIOUS
  <2>1. /\ n \notin DOMAIN s.queue /\ DOMAIN t.queue = DOMAIN s.queue \cup {n}
        /\ \A j \in DOMAIN s.queue : t.queue[j] = s.queue[j]
        /\ t.queue[n].pair[1] # q
    BY <1>2, <1>7 DEF StoredAt
  <2>. QED  BY <2>1 DEF Adopting
<1>12. Adopting(t, p) = Adopting(s, p) \cup {n}
  <2>1. /\ n \notin DOMAIN s.queue /\ DOMAIN t.queue = DOMAIN s.queue \cup {n}
        /\ \A j \in DOMAIN s.queue : t.queue[j] = s.queue[j]
        /\ t.queue[n].k = "thenable" /\ t.queue[n].pair[1] = p
    BY <1>2, <1>7 DEF StoredAt
  <2>. QED  BY <2>1 DEF Adopting
<1>13. ResolverOK(t, p)
  BY <1>6, <1>10, <1>12 DEF Flux, ResolverOK, NoResolver, OneResolver, One
<1>14. \A q \in Nums(s) \ {p} : ResolverOK(t, q)
  BY <1>6, <1>10, <1>11 DEF Flux, ResolverOK, NoResolver, OneResolver
<1>. QED  BY <1>6, <1>9, <1>13, <1>14 DEF Good

\* js_promise_resolve_function_call.
LEMMA ResolveGood ==
  ASSUME NEW s, Good(s), NEW a, PairOK(s, a), NEW v, ValueOK(s, v), NEW rej \in BOOLEAN,
         NEW t, t = Resolve(s, a, v, rej)
  PROVE  Good(t) /\ Effect(s, t) /\ Nums(t) = Nums(s)
<1>1. PICK p, i : p = a[1] /\ i = a[2]
  OBVIOUS
<1>2. PairOK(s, <<p, i>>) /\ Shape(s)
  BY <1>1 DEF PairOK, Good
<1>3. CASE s.promise[p].already_resolved[i]
  <2>1. t = s
    BY <1>1, <1>3 DEF Resolve
  <2>2. Effect(s, s)
    BY <1>2, Numbered DEF Effect, Grows, Larger, SameFrames, SameSpots
  <2>. QED  BY <2>1, <2>2
<1>4. CASE ~s.promise[p].already_resolved[i]
  <2>1. PICK s1 : s1 = [s EXCEPT !.promise[p].already_resolved[i] = TRUE]
    OBVIOUS
  <2>2. Flux(s1, p) /\ Effect(s, s1) /\ Nums(s1) = Nums(s)
    BY <1>2, <1>4, <2>1, CallPair
  <2>3. Shape(s1) /\ ValueOK(s1, v)
    BY <2>2 DEF Flux, ValueOK
  <2>4. ASSUME NEW w, ValueOK(s1, w), NEW r \in BOOLEAN, t = FulfillOrReject(s1, p, w, r)
        PROVE  Good(t) /\ Effect(s, t) /\ Nums(t) = Nums(s)
    <3>1. Good(t) /\ Effect(s1, t) /\ Nums(t) = Nums(s1)
      BY <2>2, <2>4, FulfillGood
    <3>2. Shape(t)
      BY <3>1 DEF Good
    <3>. QED  BY <1>2, <2>2, <2>3, <3>1, <3>2, EffectTrans
  <2>5. CASE ~rej /\ v = Promise(p)
    <3>1. t = FulfillOrReject(s1, p, TypeError, TRUE)
      BY <1>1, <1>4, <2>1, <2>5 DEF Resolve
    <3>. QED  BY <2>4, <3>1, BuiltinHandlers
  <2>6. CASE ~(~rej /\ v = Promise(p)) /\ (~rej /\ v = Poisoned)
    <3>1. t = FulfillOrReject(s1, p, Thrown, TRUE)
      BY <1>1, <1>4, <2>1, <2>6 DEF Resolve
    <3>. QED  BY <2>4, <3>1, BuiltinHandlers
  <2>7. CASE /\ ~(~rej /\ v = Promise(p)) /\ ~(~rej /\ v = Poisoned)
             /\ rej \/ v[1] \notin {"promise", "thenable"}
    <3>1. t = FulfillOrReject(s1, p, v, rej)
      BY <1>1, <1>4, <2>1, <2>7 DEF Resolve
    <3>. QED  BY <2>3, <2>4, <3>1
  <2>8. CASE /\ ~(~rej /\ v = Promise(p)) /\ ~(~rej /\ v = Poisoned)
             /\ ~(rej \/ v[1] \notin {"promise", "thenable"})
    <3>1. PICK s2 : s2 = [s1 EXCEPT !.promise[p].to = v]
      OBVIOUS
    <3>2. t = EnqueueJob(s2, Job("thenable", NoHandler, FALSE, v, <<p, 0>>, 0, 0))
      BY <1>1, <1>4, <2>1, <2>8, <3>1 DEF Resolve
    <3>3. PICK r : r = [s1.promise[p] EXCEPT !.to = v]
      OBVIOUS
    <3>4. /\ DOMAIN s1 = {"promise", "queue", "gen"} /\ IsSeq(s1.promise)
          /\ p \in DOMAIN s1.promise /\ DOMAIN s1.promise[p] = PromiseFields
          /\ IsSeq(s1.gen.queue) /\ DOMAIN s1.promise = Nums(s1)
          /\ \A q \in Nums(s1) : s1.promise[q].open \subseteq DOMAIN s1.promise[q].already_resolved
      BY <2>2, <2>3, Numbered DEF Shape, PromiseShape, Flux
    <3>5. /\ DOMAIN s2 = DOMAIN s1 /\ s2.queue = s1.queue /\ s2.gen = s1.gen
          /\ s2.promise = [s1.promise EXCEPT ![p] = r]
      BY <3>1, <3>3, <3>4
    <3>6. /\ IsSeq(s2.promise) /\ Len(s2.promise) = Len(s1.promise) /\ s2.promise[p] = r
          /\ \A q \in Nums(s1) : q # p => s2.promise[q] = s1.promise[q]
      BY <3>4, <3>5, SeqExcept
    <3>7. /\ DOMAIN r = PromiseFields /\ r.state = s1.promise[p].state /\ r.result = s1.promise[p].result
          /\ r.reactions = s1.promise[p].reactions /\ r.frame = s1.promise[p].frame
          /\ r.already_resolved = s1.promise[p].already_resolved /\ r.open = s1.promise[p].open
          /\ r.thens = s1.promise[p].thens /\ r.ran = s1.promise[p].ran
      BY <3>3, <3>4 DEF PromiseFields
    <3>8. Tweaked(s1, s2) /\ SameCounts(s1, s2)
      BY <3>4, <3>5, <3>6, <3>7 DEF Tweaked, SameCounts
    <3>9. Flux(s2, p) /\ Nums(s2) = Nums(s1) /\ Grows(s1, s2)
          /\ \A k, f : Spots(s2, k, f) = Spots(s1, k, f)
      BY <2>2, <3>8, TweakedFlux
    <3>10. SameFrames(s1, s2)
      BY <3>6, <3>7, <3>9 DEF SameFrames
    <3>11. Effect(s1, s2)
      BY <3>5, <3>9, <3>10, SpotsKept DEF Effect
    <3>12. ValueOK(s2, v) /\ Shape(s2)
      BY <2>3, <3>9 DEF Flux, ValueOK
    <3>13. Good(t) /\ Effect(s2, t) /\ Nums(t) = Nums(s2)
      <4>1. Flux(s2, p) /\ v[1] \in {"promise", "thenable"}
        BY <2>8, <3>9
      <4>. QED  BY <3>2, <3>12, <4>1, AdoptGood
    <3>14. Shape(t)
      BY <3>13 DEF Good
    <3>15. Effect(s1, t)
      BY <2>3, <3>11, <3>12, <3>13, <3>14, EffectTrans
    <3>16. Effect(s, t)
      BY <1>2, <2>2, <2>3, <3>14, <3>15, EffectTrans
    <3>. QED  BY <2>2, <3>9, <3>13, <3>16
  <2>. QED  BY <2>5, <2>6, <2>7, <2>8
<1>. QED  BY <1>3, <1>4

(***************************************************************************)
(* PerformThen.                                                            *)
(***************************************************************************)
\* Only bookkeeping of one promise changes.
LEMMA TweakPromise ==
  ASSUME NEW s, Shape(s), NEW p \in Nums(s), NEW r, NEW t,
         DOMAIN r = PromiseFields, r.state = s.promise[p].state, r.result = s.promise[p].result,
         r.reactions = s.promise[p].reactions, r.open = s.promise[p].open,
         r.already_resolved = s.promise[p].already_resolved,
         DOMAIN t = DOMAIN s, t.queue = s.queue, t.gen = s.gen,
         t.promise = [s.promise EXCEPT ![p] = r]
  PROVE  /\ Tweaked(s, t) /\ t.promise[p] = r
         /\ \A q \in Nums(s) : q # p => t.promise[q] = s.promise[q]
         /\ r.thens = s.promise[p].thens /\ r.ran = s.promise[p].ran => SameCounts(s, t)
<1>1. /\ IsSeq(s.promise) /\ p \in DOMAIN s.promise /\ DOMAIN s.promise = Nums(s)
      /\ IsSeq(s.gen.queue) /\ DOMAIN s.promise[p] = PromiseFields
  BY Numbered DEF Shape, PromiseShape
<1>2. /\ IsSeq(t.promise) /\ Len(t.promise) = Len(s.promise) /\ t.promise[p] = r
      /\ \A q \in Nums(s) : q # p => t.promise[q] = s.promise[q]
  BY <1>1, SeqExcept
<1>3. \A q \in Nums(s) : s.promise[q].open \subseteq DOMAIN s.promise[q].already_resolved
  BY DEF Shape, PromiseShape
<1>4. Tweaked(s, t)
  BY <1>1, <1>2, <1>3 DEF Tweaked
<1>5. r.thens = s.promise[p].thens /\ r.ran = s.promise[p].ran => SameCounts(s, t)
  BY <1>2 DEF SameCounts
<1>. QED  BY <1>2, <1>4, <1>5

\* The reaction r is the last one of p, and no count changed.
Reacted(s, t, p, r) ==
  /\ t.queue = s.queue /\ \A q \in Nums(s) : q # p => t.promise[q] = s.promise[q]
  /\ t.promise[p].reactions = Append(s.promise[p].reactions, r)
  /\ t.promise[p].state = s.promise[p].state
  /\ t.promise[p].thens = s.promise[p].thens /\ t.promise[p].ran = s.promise[p].ran

LEMMA AddReaction ==
  ASSUME NEW s, Good(s), NEW p \in Nums(s), NEW r, ReactionOK(s, r),
         NEW t, t = [s EXCEPT !.promise[p].reactions = Append(@, r)]
  PROVE  /\ Good(t) /\ Larger(s, t) /\ SameFrames(s, t) /\ t.gen = s.gen /\ Nums(t) = Nums(s)
         /\ \E x : AddsSpot(s, t, r.onFulfilled, x)
         /\ Reacted(s, t, p, r)
<1>1. /\ Shape(s) /\ DOMAIN s = {"promise", "queue", "gen"} /\ IsSeq(s.promise)
      /\ DOMAIN s.promise = Nums(s)
  BY Numbered DEF Good, Shape
<1>2. DOMAIN s.promise[p] = PromiseFields /\ IsSeq(s.promise[p].reactions) /\ PromiseShape(s.promise[p])
  BY <1>1 DEF Shape, PromiseShape
<1>3. PICK rs : rs = s.promise[p].reactions /\ IsSeq(rs)
  BY <1>2
<1>4. PICK us : us = Append(rs, r)
  OBVIOUS
<1>5. PICK n \in Nat : n = Len(rs) + 1
  BY <1>3, SeqBasics
<1>6. IsSeq(us) /\ DOMAIN us = 1..n /\ us[n] = r /\ \A i \in 1..Len(rs) : us[i] = rs[i]
  BY <1>3, <1>4, <1>5, SeqAppend
<1>7. /\ n \notin DOMAIN rs /\ DOMAIN us = DOMAIN rs \cup {n}
      /\ \A i \in DOMAIN rs : us[i] = rs[i]
  <2>1. DOMAIN rs = 1..Len(rs) /\ Len(rs) \in Nat
    BY <1>3, SeqBasics
  <2>2. 1..n = 1..Len(rs) \cup {n} /\ n \notin 1..Len(rs)
    BY <1>5, <2>1
  <2>. QED  BY <1>6, <2>1, <2>2
<1>8. PICK q : q = [s.promise[p] EXCEPT !.reactions = us]
  OBVIOUS
<1>9. /\ t.promise = [s.promise EXCEPT ![p] = q] /\ t.queue = s.queue /\ t.gen = s.gen
      /\ DOMAIN t = DOMAIN s
  BY <1>1, <1>3, <1>4, <1>8
<1>10. /\ IsSeq(t.promise) /\ Len(t.promise) = Len(s.promise) /\ t.promise[p] = q
       /\ \A m \in Nums(s) : m # p => t.promise[m] = s.promise[m]
  BY <1>1, <1>9, SeqExcept
<1>11. Nums(t) = Nums(s)
  BY <1>10 DEF Nums
<1>12. /\ DOMAIN q = PromiseFields /\ q.already_resolved = s.promise[p].already_resolved
       /\ q.state = s.promise[p].state /\ q.result = s.promise[p].result /\ q.reactions = us
       /\ q.open = s.promise[p].open /\ q.frame = s.promise[p].frame
       /\ q.thens = s.promise[p].thens /\ q.ran = s.promise[p].ran
  BY <1>2, <1>8 DEF PromiseFields
<1>13. Shape(t)
  <2>1. PromiseShape(q)
    BY <1>2, <1>6, <1>12 DEF PromiseShape
  <2>. QED  BY <1>1, <1>9, <1>10, <1>11, <2>1 DEF Shape
<1>14. Larger(s, t)
  <2>1. Len(s.promise) <= Len(t.promise)
    BY <1>1, <1>10, Numbered
  <2>. QED  BY <1>10, <1>12, <2>1 DEF Larger
<1>15. Refs(t)
  <2>1. ReactionOK(t, r)
    BY <1>1, <1>13, <1>14, LargerRefs
  <2>2. \A m \in Nums(t) : \/ m \in Nums(s) /\ t.promise[m].result = s.promise[m].result
                           \/ ValueOK(t, t.promise[m].result)
    BY <1>10, <1>11, <1>12
  <2>3. \A m \in Nums(t) : \A i \in DOMAIN t.promise[m].reactions :
          \/ m \in Nums(s) /\ \E l \in DOMAIN s.promise[m].reactions :
                              t.promise[m].reactions[i] = s.promise[m].reactions[l]
          \/ ReactionOK(t, t.promise[m].reactions[i])
    <3>. SUFFICES ASSUME NEW m \in Nums(t), NEW i \in DOMAIN t.promise[m].reactions
                  PROVE  \/ m \in Nums(s) /\ \E l \in DOMAIN s.promise[m].reactions :
                              t.promise[m].reactions[i] = s.promise[m].reactions[l]
                         \/ ReactionOK(t, t.promise[m].reactions[i])
      OBVIOUS
    <3>1. CASE m # p
      BY <1>10, <1>11, <3>1
    <3>2. CASE m = p
      BY <1>3, <1>6, <1>7, <1>10, <1>12, <2>1, <3>2
    <3>. QED  BY <3>1, <3>2
  <2>4. \A j \in DOMAIN t.queue : \/ \E m \in DOMAIN s.queue : t.queue[j] = s.queue[m]
                                  \/ JobOK(t, t.queue[j])
    BY <1>9
  <2>5. \A m \in DOMAIN t.gen.queue :
          \/ \E l \in DOMAIN s.gen.queue : t.gen.queue[m] = s.gen.queue[l]
          \/ RequestOK(t, t.gen.queue[m])
    BY <1>9
  <2>6. Refs(s) /\ Shape(s)
    BY DEF Good
  <2>. QED  BY <1>13, <1>14, <2>2, <2>3, <2>4, <2>5, <2>6, RefsKept
<1>16. \A m \in Nums(s) : ResolverOK(t, m)
  <2>1. \A m \in Nums(s) : Open(t, m) = Open(s, m) /\ t.promise[m].state = s.promise[m].state
    BY <1>10, <1>12 DEF Open
  <2>2. \A m : Adopting(t, m) = Adopting(s, m)
    BY <1>9 DEF Adopting
  <2>. QED  BY <2>1, <2>2 DEF Good, ResolverOK, NoResolver, OneResolver
<1>17. SameFrames(s, t)
  BY <1>10, <1>11, <1>12 DEF SameFrames
<1>18. ASSUME NEW k, NEW f
       PROVE  Spots(t, k, f) = IF IsFor(r.onFulfilled, k, f)
                               THEN Spots(s, k, f) \cup {<<p, n>>} ELSE Spots(s, k, f)
  <2>1. JobSpots(t, k, f) = JobSpots(s, k, f)
    BY <1>9 DEF JobSpots
  <2>2. \A m \in Nums(s) : m # p => ReactionSpots(t, m, k, f) = ReactionSpots(s, m, k, f)
    BY <1>10 DEF ReactionSpots
  <2>3. ReactionSpots(t, p, k, f) =
          IF IsFor(r.onFulfilled, k, f) THEN ReactionSpots(s, p, k, f) \cup {n}
                                        ELSE ReactionSpots(s, p, k, f)
    <3>1. t.promise[p].reactions = us /\ s.promise[p].reactions = rs
      BY <1>3, <1>10, <1>12
    <3>2. ReactionSpots(t, p, k, f) = {i \in DOMAIN us : IsFor(us[i].onFulfilled, k, f)}
      BY <3>1 DEF ReactionSpots
    <3>3. ReactionSpots(s, p, k, f) = {i \in DOMAIN rs : IsFor(rs[i].onFulfilled, k, f)}
      BY <3>1 DEF ReactionSpots
    <3>. QED  BY <1>6, <1>7, <3>2, <3>3
  <2>4. CASE ~IsFor(r.onFulfilled, k, f)
    <3>1. \A m \in Nums(s) : ReactionSpots(t, m, k, f) = ReactionSpots(s, m, k, f)
      BY <2>2, <2>3, <2>4
    <3>. QED  BY <1>11, <2>1, <2>4, <3>1 DEF Spots
  <2>5. CASE IsFor(r.onFulfilled, k, f)
    <3>1. ReactionSpots(t, p, k, f) = ReactionSpots(s, p, k, f) \cup {n}
      BY <2>3, <2>5
    <3>2. ASSUME NEW a, NEW b
          PROVE  <<a, b>> \in Spots(t, k, f) <=> (<<a, b>> \in Spots(s, k, f) \/ (a = p /\ b = n))
      <4>1. CASE a = p
        <5>1. b \in ReactionSpots(t, p, k, f) <=> (b \in ReactionSpots(s, p, k, f) \/ b = n)
          BY <3>1
        <5>2. p # 0
          BY DEF Nums
        <5>. QED  BY <1>11, <4>1, <5>1, <5>2, InSpots
      <4>2. CASE a # p
        <5>1. a \in Nums(s) => ReactionSpots(t, a, k, f) = ReactionSpots(s, a, k, f)
          BY <2>2, <4>2
        <5>2. <<a, b>> \in Spots(t, k, f) <=>
                ((a = 0 /\ b \in JobSpots(t, k, f)) \/ (a \in Nums(t) /\ b \in ReactionSpots(t, a, k, f)))
          BY InSpots
        <5>3. <<a, b>> \in Spots(s, k, f) <=>
                ((a = 0 /\ b \in JobSpots(s, k, f)) \/ (a \in Nums(s) /\ b \in ReactionSpots(s, a, k, f)))
          BY InSpots
        <5>. QED  BY <1>11, <2>1, <4>2, <5>1, <5>2, <5>3
      <4>. QED  BY <4>1, <4>2
    <3>3. Spots(t, k, f) = Spots(s, k, f) \cup {<<p, n>>}
      <4>1. ASSUME NEW x \in Spots(t, k, f) PROVE x \in Spots(s, k, f) \cup {<<p, n>>}
        <5>1. PICK a, b : x = <<a, b>>
          BY <4>1, SpotsPairs
        <5>. QED  BY <3>2, <4>1, <5>1
      <4>2. ASSUME NEW x \in Spots(s, k, f) PROVE x \in Spots(t, k, f)
        <5>1. PICK a, b : x = <<a, b>>
          BY <4>2, SpotsPairs
        <5>. QED  BY <3>2, <4>2, <5>1
      <4>3. <<p, n>> \in Spots(t, k, f)
        BY <3>2
      <4>. QED  BY <4>1, <4>2, <4>3
    <3>. QED  BY <2>5, <3>3
  <2>. QED  BY <2>4, <2>5
<1>19. AddsSpot(s, t, r.onFulfilled, <<p, n>>)
  BY <1>18 DEF AddsSpot
<1>20. Reacted(s, t, p, r)
  BY <1>3, <1>4, <1>9, <1>10, <1>12 DEF Reacted
<1>. QED  BY <1>9, <1>11, <1>13, <1>14, <1>15, <1>16, <1>17, <1>19, <1>20 DEF Good

\* then() of a pending promise: the reaction is the last one.
LEMMA LinedReaction ==
  ASSUME NEW s, NEW t, NEW p, Lined(s, p), IsSeq(s.promise[p].reactions),
         t.queue = s.queue, t.promise[p].state = "pending",
         NEW r, r.id = s.promise[p].thens + 1,
         t.promise[p].reactions = Append(s.promise[p].reactions, r),
         t.promise[p].thens = s.promise[p].thens + 1, t.promise[p].ran = s.promise[p].ran
  PROVE  Lined(t, p)
<1>1. PICK rs : rs = s.promise[p].reactions
  OBVIOUS
<1>2. /\ Len(rs) \in Nat /\ DOMAIN rs = 1..Len(rs) /\ Len(Append(rs, r)) = Len(rs) + 1
      /\ DOMAIN Append(rs, r) = 1..(Len(rs) + 1)
      /\ \A i \in 1..Len(rs) : Append(rs, r)[i] = rs[i]
      /\ Append(rs, r)[Len(rs) + 1] = r
  BY <1>1, SeqBasics, SeqAppend
<1>3. s.promise[p].thens \in Nat /\ Queued(s.promise[p]) = s.promise[p].thens - Len(rs)
      /\ \A i \in DOMAIN rs : rs[i].id = Queued(s.promise[p]) + i
  BY <1>1 DEF Lined, Queued
<1>4. Queued(t.promise[p]) = Queued(s.promise[p])
  <2>1. Len(t.promise[p].reactions) = Len(rs) + 1
    BY <1>1, <1>2
  <2>2. Queued(t.promise[p]) = (s.promise[p].thens + 1) - (Len(rs) + 1)
    BY <2>1 DEF Queued
  <2>3. PICK c \in Nat, l \in Nat : c = s.promise[p].thens /\ l = Len(rs)
    BY <1>2, <1>3
  <2>4. (c + 1) - (l + 1) = c - l
    OBVIOUS
  <2>. QED  BY <1>3, <2>2, <2>3, <2>4
<1>5. \A i \in DOMAIN t.promise[p].reactions : t.promise[p].reactions[i].id = Queued(t.promise[p]) + i
  <2>. SUFFICES ASSUME NEW i \in 1..(Len(rs) + 1)
                PROVE  Append(rs, r)[i].id = Queued(s.promise[p]) + i
    BY <1>1, <1>2, <1>4
  <2>1. CASE i \in 1..Len(rs)
    BY <1>2, <1>3, <2>1
  <2>2. CASE i = Len(rs) + 1
    BY <1>2, <1>3, <2>2
  <2>. QED  BY <1>2, <2>1, <2>2
<1>6. JobsOf(t, p) = JobsOf(s, p)
  BY DEF JobsOf
<1>7. t.promise[p].thens \in Nat /\ t.promise[p].ran \in Nat
  BY DEF Lined
<1>8. t.promise[p].ran <= Queued(t.promise[p])
  BY <1>4 DEF Lined
<1>9. /\ \A j \in JobsOf(t, p) : t.queue[j].id \in (t.promise[p].ran + 1)..Queued(t.promise[p])
      /\ \A m \in (t.promise[p].ran + 1)..Queued(t.promise[p]) : \E j \in JobsOf(t, p) : t.queue[j].id = m
      /\ \A i, j \in JobsOf(t, p) : i < j => t.queue[i].id < t.queue[j].id
  BY <1>4, <1>6 DEF Lined
<1>. QED  BY <1>5, <1>7, <1>8, <1>9 DEF Lined

\* then() of a settled promise: the job is the last one.
LEMMA LinedJob ==
  ASSUME NEW s, NEW t, NEW p, Lined(s, p), s.promise[p].state # "pending",
         DOMAIN s.queue \subseteq Nat, NEW n \in Nat,
         NEW job, job.from = p, job.id = s.promise[p].thens + 1,
         n \notin DOMAIN s.queue, DOMAIN t.queue = DOMAIN s.queue \cup {n}, t.queue[n] = job,
         \A j \in DOMAIN s.queue : t.queue[j] = s.queue[j] /\ j < n,
         t.promise[p].state = s.promise[p].state, t.promise[p].reactions = s.promise[p].reactions,
         t.promise[p].thens = s.promise[p].thens + 1, t.promise[p].ran = s.promise[p].ran
  PROVE  Lined(t, p)
<1>1. PICK c \in Nat, x \in Nat : c = s.promise[p].thens /\ x = s.promise[p].ran
  BY DEF Lined
<1>2. Len(<<>>) = 0 /\ DOMAIN <<>> = {}
  OBVIOUS
<1>3. s.promise[p].reactions = <<>> /\ Queued(s.promise[p]) = c /\ Queued(t.promise[p]) = c + 1
  BY <1>1, <1>2 DEF Lined, Queued
<1>4. JobsOf(t, p) = JobsOf(s, p) \cup {n} /\ JobsOf(s, p) \subseteq DOMAIN s.queue
  BY DEF JobsOf
<1>5. /\ x <= c /\ \A j \in JobsOf(s, p) : t.queue[j].id \in (x + 1)..c
      /\ \A m \in (x + 1)..c : \E j \in JobsOf(s, p) : t.queue[j].id = m
      /\ \A i, j \in JobsOf(s, p) : i < j => t.queue[i].id < t.queue[j].id
      /\ t.queue[n].id = c + 1
  BY <1>1, <1>3, <1>4 DEF Lined
<1>6. \A j \in JobsOf(t, p) : t.queue[j].id \in (x + 1)..(c + 1)
  BY <1>4, <1>5
<1>7. \A m \in (x + 1)..(c + 1) : \E j \in JobsOf(t, p) : t.queue[j].id = m
  <2>. TAKE m \in (x + 1)..(c + 1)
  <2>1. m = c + 1 \/ m \in (x + 1)..c
    OBVIOUS
  <2>. QED  BY <1>4, <1>5, <2>1
<1>8. \A i, j \in JobsOf(t, p) : i < j => t.queue[i].id < t.queue[j].id
  <2>. SUFFICES ASSUME NEW i \in JobsOf(t, p), NEW j \in JobsOf(t, p), i < j
                PROVE  t.queue[i].id < t.queue[j].id
    OBVIOUS
  <2>1. CASE i \in JobsOf(s, p) /\ j \in JobsOf(s, p)
    BY <1>5, <2>1
  <2>2. CASE i \in JobsOf(s, p) /\ j = n
    <3>1. t.queue[i].id \in (x + 1)..c /\ t.queue[j].id = c + 1
      BY <1>5, <2>2
    <3>. QED  BY <3>1
  <2>3. CASE i = n
    <3>1. j = n \/ (j \in Nat /\ j < n)
      BY <1>4
    <3>. QED  BY <2>3, <3>1
  <2>. QED  BY <1>4, <2>1, <2>2, <2>3
<1>. QED  BY <1>1, <1>2, <1>3, <1>5, <1>6, <1>7, <1>8 DEF Lined

\* The handler is stored in one place if it is one that resumes a body.
LEMMA PerformThenGood ==
  ASSUME NEW s, Good(s), NEW p \in Nums(s), NEW h, NEW g, HandlerOK(s, h), HandlerOK(s, g),
         h.k \in Wakers \/ g.k \in Wakers => h = g,
         NEW pair, pair = NoPair \/ PairOK(s, pair), NEW t, t = PerformThen(s, p, h, g, pair)
  PROVE  /\ Good(t) /\ Grows(s, t) /\ SameFrames(s, t) /\ t.gen = s.gen /\ Nums(t) = Nums(s)
         /\ \E x : AddsSpot(s, t, h, x)
<1>1. /\ Shape(s) /\ Refs(s) /\ DOMAIN s = {"promise", "queue", "gen"}
      /\ DOMAIN s.promise = Nums(s)
  BY Numbered DEF Good, Shape
<1>2. DOMAIN s.promise[p] = PromiseFields /\ ValueOK(s, s.promise[p].result)
  BY <1>1 DEF Shape, PromiseShape, Refs
<1>3. PICK r : r = [onFulfilled |-> h, onRejected |-> g, pair |-> pair, id |-> s.promise[p].thens + 1]
  OBVIOUS
<1>4. r.onFulfilled = h /\ r.onRejected = g /\ r.pair = pair /\ r.id = s.promise[p].thens + 1
  BY <1>3
<1>5. PICK s1 : s1 = [s EXCEPT !.promise[p].thens = @ + 1, !.promise[p].handled = TRUE]
  OBVIOUS
<1>6. PICK q : q = [s.promise[p] EXCEPT !.thens = @ + 1, !.handled = TRUE]
  OBVIOUS
<1>7. /\ DOMAIN q = PromiseFields /\ q.state = s.promise[p].state /\ q.result = s.promise[p].result
      /\ q.reactions = s.promise[p].reactions /\ q.open = s.promise[p].open
      /\ q.already_resolved = s.promise[p].already_resolved /\ q.frame = s.promise[p].frame
      /\ q.thens = s.promise[p].thens + 1 /\ q.ran = s.promise[p].ran
  BY <1>2, <1>6 DEF PromiseFields
<1>8. /\ DOMAIN s1 = DOMAIN s /\ s1.queue = s.queue /\ s1.gen = s.gen
      /\ s1.promise = [s.promise EXCEPT ![p] = q]
  BY <1>1, <1>2, <1>5, <1>6 DEF PromiseFields
<1>9. Tweaked(s, s1) /\ s1.promise[p] = q /\ \A m \in Nums(s) : m # p => s1.promise[m] = s.promise[m]
  BY <1>1, <1>7, <1>8, TweakPromise
<1>10. /\ Good(s1) /\ Nums(s1) = Nums(s) /\ Larger(s, s1)
       /\ \A k, f : Spots(s1, k, f) = Spots(s, k, f)
  BY <1>1, <1>9, TweakedShape DEF Good
<1>11. SameFrames(s, s1)
  BY <1>7, <1>9, <1>10 DEF SameFrames
<1>12. Shape(s1) /\ Refs(s1)
  BY <1>10 DEF Good
<1>13. ReactionOK(s1, r)
  <2>1. ReactionOK(s, r)
    BY <1>4 DEF ReactionOK
  <2>. QED  BY <1>1, <1>10, <1>12, <2>1, LargerRefs
<1>14. CASE s.promise[p].state = "pending"
  <2>1. t = [s1 EXCEPT !.promise[p].reactions = Append(@, r)]
    BY <1>3, <1>5, <1>14 DEF PerformThen
  <2>2. /\ Good(t) /\ Larger(s1, t) /\ SameFrames(s1, t) /\ t.gen = s1.gen /\ Nums(t) = Nums(s1)
        /\ \E x : AddsSpot(s1, t, r.onFulfilled, x)
        /\ Reacted(s1, t, p, r)
    <3>1. Good(s1) /\ p \in Nums(s1)
      BY <1>10
    <3>. QED  BY <1>13, <2>1, <3>1, AddReaction
  <2>3. Shape(t)
    BY <2>2 DEF Good
  <2>8. InOrder(s) => InOrder(t)
    <3>. SUFFICES ASSUME InOrder(s), NEW m \in Nums(s)
                  PROVE  Lined(t, m)
      BY <1>10, <2>2 DEF InOrder
    <3>1. Lined(s, m) /\ JobsOf(t, m) = JobsOf(s, m) /\ t.queue = s.queue
      BY <1>8, <2>2 DEF InOrder, JobsOf, Reacted
    <3>2. CASE m # p
      <4>1. Recorded(s, t, m)
        BY <1>9, <1>10, <2>2, <3>2 DEF Recorded, Reacted
      <4>. QED  BY <3>1, <4>1, LinedKept
    <3>3. CASE m = p
      <4>1. /\ t.promise[p].reactions = Append(s.promise[p].reactions, r)
            /\ t.promise[p].state = "pending"
            /\ t.promise[p].thens = s.promise[p].thens + 1 /\ t.promise[p].ran = s.promise[p].ran
        BY <1>7, <1>9, <1>14, <2>2 DEF Reacted
      <4>. QED  BY <1>1, <1>4, <3>1, <3>3, <4>1, LinedReaction DEF Shape, PromiseShape
    <3>. QED  BY <3>2, <3>3
  <2>4. Grows(s, t)
    BY <1>1, <1>10, <1>12, <2>2, <2>3, <2>8, LargerTrans DEF Grows
  <2>5. SameFrames(s, t)
    BY <1>10, <1>11, <2>2 DEF SameFrames
  <2>6. PICK x : AddsSpot(s1, t, r.onFulfilled, x)
    BY <2>2
  <2>7. AddsSpot(s, t, h, x)
    BY <1>4, <1>10, <2>6 DEF AddsSpot
  <2>. QED  BY <1>8, <1>10, <2>2, <2>4, <2>5, <2>7
<1>15. CASE s.promise[p].state # "pending"
  <2>1. PICK rej \in BOOLEAN : rej = (s.promise[p].state = "rejected")
    OBVIOUS
  <2>2. PICK job : job = ReactionJob(p, r, rej, s.promise[p].result)
    OBVIOUS
  <2>3. /\ job.k = "reaction" /\ job.pair = pair /\ job.from = p /\ job.arg = s.promise[p].result
        /\ job.h = (IF rej THEN g ELSE h) /\ job.rej \in BOOLEAN
        /\ job.id = s.promise[p].thens + 1
    BY <1>4, <2>2 DEF ReactionJob, Job
  <2>4. t = EnqueueJob(s1, job)
    BY <1>3, <1>5, <1>15, <2>1, <2>2 DEF PerformThen
  <2>5. JobOK(s1, job)
    <3>1. JobOK(s, job)
      BY <1>2, <2>3 DEF JobOK
    <3>. QED  BY <1>1, <1>10, <1>12, <3>1, LargerRefs
  <2>6. /\ Shape(t) /\ Refs(t) /\ Larger(s1, t) /\ SameFrames(s1, t)
        /\ t.gen = s1.gen /\ t.promise = s1.promise /\ Nums(t) = Nums(s1)
        /\ \E n \in Nat : StoredAt(s1, t, job, n) /\ \A j \in DOMAIN s1.queue : j < n
    BY <1>12, <2>4, <2>5, Enqueued
  <2>7. PICK n \in Nat : StoredAt(s1, t, job, n) /\ \A j \in DOMAIN s1.queue : j < n
    BY <2>6
  <2>14. InOrder(s) => InOrder(t)
    <3>. SUFFICES ASSUME InOrder(s), NEW m \in Nums(s)
                  PROVE  Lined(t, m)
      BY <1>10, <2>6 DEF InOrder
    <3>1. Lined(s, m) /\ JobsOf(s1, m) = JobsOf(s, m) /\ s1.queue = s.queue
      BY <1>8 DEF InOrder, JobsOf
    <3>2. CASE m # p
      <4>1. Recorded(s, s1, m) /\ Recorded(s1, t, m)
        BY <1>9, <2>6, <3>2 DEF Recorded
      <4>2. Lined(s1, m)
        BY <3>1, <4>1, LinedKept
      <4>. QED  BY <2>3, <2>7, <3>2, <4>1, <4>2, LinedOthers
    <3>3. CASE m = p
      <4>1. /\ t.promise[p].reactions = s.promise[p].reactions
            /\ t.promise[p].state = s.promise[p].state
            /\ t.promise[p].thens = s.promise[p].thens + 1 /\ t.promise[p].ran = s.promise[p].ran
        BY <1>7, <1>9, <2>6
      <4>2. /\ n \notin DOMAIN s.queue /\ DOMAIN t.queue = DOMAIN s.queue \cup {n}
            /\ t.queue[n] = job /\ \A j \in DOMAIN s.queue : t.queue[j] = s.queue[j] /\ j < n
        BY <2>7, <3>1 DEF StoredAt
      <4>3. DOMAIN s.queue \subseteq Nat
        BY <1>1, SeqBasics DEF Shape
      <4>. QED  BY <1>15, <2>3, <3>1, <3>3, <4>1, <4>2, <4>3, LinedJob
    <3>. QED  BY <3>2, <3>3
  <2>8. Grows(s, t)
    BY <1>1, <1>10, <1>12, <2>6, <2>14, LargerTrans DEF Grows
  <2>9. SameFrames(s, t)
    BY <1>10, <1>11, <2>6 DEF SameFrames
  <2>10. \A m : Open(t, m) = Open(s1, m) /\ Adopting(t, m) = Adopting(s1, m)
    <3>. TAKE m
    <3>1. Open(t, m) = Open(s1, m)
      BY <2>6 DEF Open
    <3>2. /\ DOMAIN t.queue = DOMAIN s1.queue \cup {n} /\ n \notin DOMAIN s1.queue
          /\ \A j \in DOMAIN s1.queue : t.queue[j] = s1.queue[j]
          /\ t.queue[n].k # "thenable"
      BY <2>3, <2>7 DEF StoredAt
    <3>3. Adopting(t, m) = Adopting(s1, m)
      BY <3>2 DEF Adopting
    <3>. QED  BY <3>1, <3>3
  <2>11. \A m \in Nums(t) : ResolverOK(t, m)
    BY <1>10, <2>6, <2>10 DEF Good, ResolverOK, NoResolver, OneResolver
  <2>12. ASSUME NEW k \in Wakers, NEW f \in Nat
         PROVE  Spots(t, k, f) = IF IsFor(h, k, f) THEN Spots(s, k, f) \cup {<<0, n>>}
                                                   ELSE Spots(s, k, f)
    <3>1. IsFor(job.h, k, f) <=> IsFor(h, k, f)
      BY <2>3, <2>12 DEF IsFor
    <3>2. Spots(t, k, f) = IF IsFor(job.h, k, f) THEN Spots(s1, k, f) \cup {<<0, n>>}
                                                 ELSE Spots(s1, k, f)
      BY <2>7 DEF StoredAt, AddsSpot
    <3>. QED  BY <1>10, <3>1, <3>2
  <2>13. AddsSpot(s, t, h, <<0, n>>)
    BY <2>12 DEF AddsSpot
  <2>. QED  BY <1>8, <1>10, <2>6, <2>8, <2>9, <2>11, <2>13 DEF Good
<1>. QED  BY <1>14, <1>15

(***************************************************************************)
(* Compositions that nobody is woken or suspended by.                      *)
(***************************************************************************)
LEMMA EffectRefl ==
  ASSUME NEW s, Shape(s)
  PROVE  Effect(s, s)
BY Numbered DEF Effect, Grows, Larger, SameFrames, SameSpots

LEMMA QuietThen ==
  ASSUME NEW s, Good(s), NEW p \in Nums(s), NEW h, NEW g, HandlerOK(s, h), HandlerOK(s, g),
         h.k \notin Wakers, g.k \notin Wakers,
         NEW pair, pair = NoPair \/ PairOK(s, pair), NEW t, t = PerformThen(s, p, h, g, pair)
  PROVE  Good(t) /\ Effect(s, t) /\ Nums(t) = Nums(s)
<1>1. h.k \in Wakers \/ g.k \in Wakers => h = g
  OBVIOUS
<1>2. /\ Good(t) /\ Grows(s, t) /\ SameFrames(s, t) /\ t.gen = s.gen /\ Nums(t) = Nums(s)
      /\ \E x : AddsSpot(s, t, h, x)
  BY <1>1, PerformThenGood
<1>3. PICK x : AddsSpot(s, t, h, x)
  BY <1>2
<1>4. \A k \in Wakers, f \in Nat : Spots(t, k, f) = Spots(s, k, f)
  BY <1>3 DEF AddsSpot, IsFor
<1>5. \A k \in Wakers, f \in Nat : SameSpots(s, t, k, f)
  BY <1>4, SpotsKept
<1>. QED  BY <1>2, <1>5 DEF Effect

LEMMA NewResolved ==
  ASSUME NEW s, Good(s), NEW v, ValueOK(s, v), NEW rej \in BOOLEAN,
         NEW o \in BOOLEAN, NEW s1, s1 = NewPromise(s, o), NEW a, a = <<Newest(s1), 1>>,
         NEW t, t = Resolve(s1, a, v, rej)
  PROVE  Good(t) /\ Effect(s, t) /\ Newest(s) + 1 \in Nums(t) /\ Newest(s) + 1 = Newest(s1)
<1>1. /\ Good(s1) /\ Effect(s, s1)
      /\ Len(s1.promise) = Len(s.promise) + 1 /\ Newest(s1) \in Nums(s1)
      /\ PairOK(s1, <<Newest(s1), 1>>) /\ s1.promise[Newest(s1)].open \subseteq {1}
  BY NewPromiseGood
<1>2. Shape(s) /\ Shape(s1) /\ Grows(s, s1)
  BY <1>1 DEF Good, Effect
<1>3. ValueOK(s1, v)
  BY <1>2, Grown
<1>5. Good(s1) /\ PairOK(s1, a)
  BY <1>1
<1>6. Good(t) /\ Effect(s1, t) /\ Nums(t) = Nums(s1)
  BY <1>3, <1>5, ResolveGood
<1>7. Shape(t)
  BY <1>6 DEF Good
<1>8. Effect(s, t)
  BY <1>1, <1>2, <1>6, <1>7, EffectTrans
<1>. QED  BY <1>1, <1>6, <1>8 DEF Newest

LEMMA PromiseResolveGood ==
  ASSUME NEW s, Good(s), NEW v, ValueOK(s, v), NEW t, t = PromiseResolve(s, v)
  PROVE  Good(t) /\ Effect(s, t) /\ ResolvedTo(s, v) \in Nums(t)
<1>1. CASE v[1] = "promise"
  <2>1. t = s /\ ResolvedTo(s, v) = v[2] /\ v[2] \in Nums(s) /\ Shape(s)
    BY <1>1 DEF PromiseResolve, ResolvedTo, ValueOK, Good
  <2>. QED  BY <2>1, EffectRefl
<1>2. CASE v[1] # "promise"
  <2>0. PICK o \in BOOLEAN : o = FALSE
    OBVIOUS
  <2>1. PICK s1 : s1 = NewPromise(s, o)
    OBVIOUS
  <2>2. t = Resolve(s1, <<Newest(s1), 1>>, v, FALSE) /\ ResolvedTo(s, v) = Newest(s) + 1
    BY <1>2, <2>0, <2>1 DEF PromiseResolve, ResolvedTo
  <2>3. PICK b \in BOOLEAN : b = FALSE
    OBVIOUS
  <2>4. PICK a : a = <<Newest(s1), 1>> /\ t = Resolve(s1, a, v, b)
    BY <2>2, <2>3
  <2>5. Good(t) /\ Effect(s, t) /\ Newest(s) + 1 \in Nums(t) /\ Newest(s) + 1 = Newest(s1)
    BY <2>1, <2>4, NewResolved
  <2>. QED  BY <2>2, <2>5
<1>. QED  BY <1>1, <1>2

LEMMA ThenGood ==
  ASSUME NEW s, Good(s), NEW p \in Nums(s), NEW h, NEW g, HandlerOK(s, h), HandlerOK(s, g),
         h.k \notin Wakers, g.k \notin Wakers, NEW t, t = Then(s, p, h, g)
  PROVE  Good(t) /\ Effect(s, t) /\ Newest(t) \in Nums(t)
<1>1. PICK s1 : s1 = NewPromise(s, FALSE)
  OBVIOUS
<1>2. /\ Good(s1) /\ Effect(s, s1)
      /\ Len(s1.promise) = Len(s.promise) + 1 /\ Newest(s1) \in Nums(s1)
      /\ PairOK(s1, <<Newest(s1), 1>>) /\ s1.promise[Newest(s1)].open \subseteq {1}
  BY <1>1, NewPromiseGood
<1>3. Shape(s) /\ Shape(s1) /\ Grows(s, s1)
  BY <1>2 DEF Good, Effect
<1>4. HandlerOK(s1, h) /\ HandlerOK(s1, g) /\ p \in Nums(s1)
  BY <1>3, Grown, GrowsNums
<1>5. PICK a : a = <<Newest(s1), 1>>
  OBVIOUS
<1>6. (a = NoPair \/ PairOK(s1, a)) /\ t = PerformThen(s1, p, h, g, a)
  BY <1>1, <1>2, <1>5 DEF Then
<1>7. Good(t) /\ Effect(s1, t) /\ Nums(t) = Nums(s1)
  BY <1>2, <1>4, <1>6, QuietThen
<1>8. Shape(t)
  BY <1>7 DEF Good
<1>9. Effect(s, t)
  BY <1>2, <1>3, <1>7, <1>8, EffectTrans
<1>10. Newest(t) \in Nums(t)
  BY <1>2, <1>3, <1>7, <1>8, Numbered DEF Newest, Nums
<1>. QED  BY <1>7, <1>9, <1>10

(***************************************************************************)
(* Wake-ups.                                                               *)
(***************************************************************************)
\* No handler is stored for a function that was not called.
LEMMA NoStrayWaker ==
  ASSUME NEW s, Good(s), NEW f, f \notin Nums(s)
  PROVE  Spots(s, "function", f) = {}
<1>1. JobSpots(s, "function", f) = {}
  BY DEF JobSpots, IsFor, Good, Refs, JobOK, HandlerOK
<1>2. \A q \in Nums(s) : ReactionSpots(s, q, "function", f) = {}
  BY DEF ReactionSpots, IsFor, Good, Refs, ReactionOK, HandlerOK
<1>. QED  BY <1>1, <1>2 DEF Spots

LEMMA EffectAwake ==
  ASSUME NEW s, NEW t, Good(s), Good(t), Effect(s, t), NEW k0, NEW f0 \in Nat, Awake(s, k0, f0)
  PROVE  Awake(t, k0, f0) /\ t.gen = s.gen
<1>1. t.gen = s.gen /\ SameFrames(s, t) /\ \A k \in Wakers, f \in Nat : SameSpots(s, t, k, f)
  BY DEF Effect
<1>2. k0 \in Wakers => Spots(t, k0, f0) = {}
  BY <1>1 DEF Awake, SameSpots
<1>3. ASSUME NEW k \in Wakers, NEW f \in Nat, IsBody(t, k, f), ~(k = k0 /\ f = f0)
      PROVE  Woken(t, k, f, Suspended(t, k, f))
  <2>1. SameSpots(s, t, k, f)
    BY <1>1
  <2>2. CASE IsBody(s, k, f)
    <3>1. Suspended(t, k, f) <=> Suspended(s, k, f)
      BY <1>1, <2>2 DEF Suspended, IsBody, SameFrames
    <3>2. Woken(s, k, f, Suspended(s, k, f))
      BY <1>3, <2>2 DEF Awake
    <3>. QED  BY <2>1, <3>1, <3>2 DEF Woken, SameSpots
  <2>3. CASE ~IsBody(s, k, f)
    <3>1. k = "function" /\ f \in Nums(t) \ Nums(s)
      BY <1>3, <2>3 DEF IsBody
    <3>2. ~Suspended(t, k, f)
      BY <1>1, <3>1 DEF Suspended, SameFrames
    <3>3. Spots(s, k, f) = {}
      BY <3>1, NoStrayWaker
    <3>. QED  BY <2>1, <3>2, <3>3 DEF Woken, SameSpots
  <2>. QED  BY <2>2, <2>3
<1>. QED  BY <1>1, <1>2, <1>3 DEF Awake

LEMMA EffectWake ==
  ASSUME NEW s, NEW t, Good(s), Good(t), Effect(s, t), WakeOK(s)
  PROVE  WakeOK(t)
<1>1. Awake(s, "none", 0) /\ 0 \in Nat
  BY DEF WakeOK
<1>2. Awake(t, "none", 0) /\ t.gen = s.gen
  BY <1>1, EffectAwake
<1>. QED  BY <1>2 DEF WakeOK

\* A body that is not resumed is suspended by storing its handler once.
LEMMA SuspendBody ==
  ASSUME NEW s, Good(s), NEW k0 \in Wakers, NEW f0 \in Nat, IsBody(s, k0, f0), Awake(s, k0, f0),
         Suspended(s, k0, f0), NEW p \in Nums(s), NEW h, h = Handler(k0, f0, 0),
         NEW t, t = PerformThen(s, p, h, h, NoPair)
  PROVE  Good(t) /\ Awake(t, "none", 0) /\ t.gen = s.gen /\ Grows(s, t)
<1>1. h.k = k0 /\ h.p = f0 /\ h.v = Undefined
  BY DEF Handler
<1>2. HandlerOK(s, h)
  BY <1>1, BuiltinHandlers DEF HandlerOK, IsBody, Wakers
<1>3. PICK a : a = NoPair
  OBVIOUS
<1>4. /\ h.k \in Wakers \/ h.k \in Wakers => h = h
      /\ a = NoPair \/ PairOK(s, a)
      /\ t = PerformThen(s, p, h, h, a)
  BY <1>3
<1>5. /\ Good(t) /\ Grows(s, t) /\ SameFrames(s, t) /\ t.gen = s.gen /\ Nums(t) = Nums(s)
      /\ \E x : AddsSpot(s, t, h, x)
  BY <1>2, <1>4, PerformThenGood
<1>6. PICK x : AddsSpot(s, t, h, x)
  BY <1>5
<1>7. ASSUME NEW k \in Wakers, NEW f \in Nat, IsBody(t, k, f)
      PROVE  Woken(t, k, f, Suspended(t, k, f))
  <2>1. IsBody(s, k, f)
    BY <1>5, <1>7 DEF IsBody
  <2>2. Suspended(t, k, f) <=> Suspended(s, k, f)
    BY <1>5, <2>1 DEF Suspended, IsBody, SameFrames
  <2>3. CASE k = k0 /\ f = f0
    <3>1. Spots(t, k, f) = {x}
      BY <1>1, <1>6, <2>3 DEF Awake, AddsSpot, IsFor
    <3>. QED  BY <2>2, <2>3, <3>1 DEF Woken, One
  <2>4. CASE ~(k = k0 /\ f = f0)
    <3>1. Spots(t, k, f) = Spots(s, k, f)
      BY <1>1, <1>6, <2>4 DEF AddsSpot, IsFor
    <3>. QED  BY <2>1, <2>2, <2>4, <3>1 DEF Woken, Awake
  <2>. QED  BY <2>3, <2>4
<1>. QED  BY <1>5, <1>7 DEF Awake, Wakers

LEMMA AwakeSame ==
  ASSUME NEW s, NEW t, NEW k0, NEW f0, Awake(s, k0, f0), Nums(t) = Nums(s),
         \A k, f : Spots(t, k, f) = Spots(s, k, f),
         \A k \in Wakers, f \in Nat : IsBody(s, k, f) /\ ~(k = k0 /\ f = f0) =>
           (Suspended(t, k, f) <=> Suspended(s, k, f))
  PROVE  Awake(t, k0, f0)
<1>1. k0 \in Wakers => Spots(t, k0, f0) = {}
  BY DEF Awake
<1>2. ASSUME NEW k \in Wakers, NEW f \in Nat, IsBody(t, k, f), ~(k = k0 /\ f = f0)
      PROVE  Woken(t, k, f, Suspended(t, k, f))
  <2>1. IsBody(s, k, f)
    BY <1>2 DEF IsBody
  <2>2. Woken(s, k, f, Suspended(s, k, f))
    BY <1>2, <2>1 DEF Awake
  <2>3. Suspended(t, k, f) <=> Suspended(s, k, f)
    BY <1>2, <2>1
  <2>. QED  BY <2>2, <2>3 DEF Woken
<1>. QED  BY <1>1, <1>2 DEF Awake

\* A body that is neither suspended nor resumed is awake, and vice versa.
LEMMA AwakeEnds ==
  ASSUME NEW s, NEW k0, NEW f0, Awake(s, k0, f0), k0 \in Wakers, ~Suspended(s, k0, f0)
  PROVE  Awake(s, "none", 0)
BY DEF Awake, Woken, Wakers

LEMMA AwakeBegins ==
  ASSUME NEW s, Awake(s, "none", 0), NEW k0 \in Wakers, NEW f0 \in Nat, IsBody(s, k0, f0),
         ~Suspended(s, k0, f0)
  PROVE  Awake(s, k0, f0)
<1>1. Spots(s, k0, f0) = {}
  BY DEF Awake, Woken, Wakers
<1>2. \A k \in Wakers, f \in Nat : IsBody(s, k, f) => Woken(s, k, f, Suspended(s, k, f))
  BY DEF Awake, Wakers
<1>. QED  BY <1>1, <1>2 DEF Awake

(***************************************************************************)
(* Async functions.                                                        *)
(***************************************************************************)
WithFrame(s, f, x) == [s EXCEPT !.promise[f].frame = x]

LEMMA SetFrame ==
  ASSUME NEW s, Good(s), NEW f \in Nums(s), NEW x, NEW t, t = WithFrame(s, f, x)
  PROVE  /\ Good(t) /\ Nums(t) = Nums(s) /\ Grows(s, t) /\ t.gen = s.gen
         /\ \A k, g : Spots(t, k, g) = Spots(s, k, g)
         /\ t.promise[f].frame = x
         /\ \A q \in Nums(s) : q # f => t.promise[q].frame = s.promise[q].frame
<1>1. Shape(s) /\ DOMAIN s = {"promise", "queue", "gen"} /\ DOMAIN s.promise = Nums(s)
  BY Numbered DEF Good, Shape
<1>2. DOMAIN s.promise[f] = PromiseFields
  BY <1>1 DEF Shape, PromiseShape
<1>3. PICK r : r = [s.promise[f] EXCEPT !.frame = x]
  OBVIOUS
<1>4. /\ DOMAIN r = PromiseFields /\ r.state = s.promise[f].state /\ r.result = s.promise[f].result
      /\ r.reactions = s.promise[f].reactions /\ r.open = s.promise[f].open
      /\ r.already_resolved = s.promise[f].already_resolved /\ r.frame = x
      /\ r.thens = s.promise[f].thens /\ r.ran = s.promise[f].ran
  BY <1>2, <1>3 DEF PromiseFields
<1>5. /\ DOMAIN t = DOMAIN s /\ t.queue = s.queue /\ t.gen = s.gen
      /\ t.promise = [s.promise EXCEPT ![f] = r]
  BY <1>1, <1>3 DEF WithFrame
<1>6. Tweaked(s, t) /\ SameCounts(s, t) /\ t.promise[f] = r /\ \A q \in Nums(s) : q # f => t.promise[q] = s.promise[q]
  BY <1>1, <1>4, <1>5, TweakPromise
<1>7. /\ Good(t) /\ Nums(t) = Nums(s) /\ Grows(s, t)
      /\ \A k, g : Spots(t, k, g) = Spots(s, k, g)
  BY <1>6, TweakedGood
<1>. QED  BY <1>4, <1>5, <1>6, <1>7

GenOK(g) == RequestWaits(g) /\ (g.running => g.state = "executing")

LEMMA ResumeFunctionGood ==
  ASSUME NEW s, Good(s), NEW f \in Nums(s), Awake(s, "function", f), GenOK(s.gen),
         NEW v, ValueOK(s, v), NEW out, NEW t, t = ResumeFunction(s, f, out, v)
  PROVE  Good(t) /\ WakeOK(t) /\ Grows(s, t)
<1>1. f \in Nat /\ "function" \in Wakers /\ Shape(s)
  BY Numbered DEF Good, Wakers
<1>2. ASSUME NEW u, Good(u), Effect(s, u), NEW x, NEW w, w = WithFrame(u, f, x)
      PROVE  /\ Good(w) /\ Nums(w) = Nums(u) /\ Grows(s, w) /\ w.gen = s.gen /\ f \in Nums(w)
             /\ Awake(w, "function", f) /\ w.promise[f].frame = x
  <2>1. Shape(u) /\ Grows(s, u) /\ u.gen = s.gen /\ Awake(u, "function", f)
    BY <1>1, <1>2, EffectAwake DEF Effect, Good
  <2>2. f \in Nums(u)
    BY <1>1, <2>1, GrowsNums
  <2>3. /\ Good(w) /\ Nums(w) = Nums(u) /\ Grows(u, w) /\ w.gen = u.gen
        /\ \A k, g : Spots(w, k, g) = Spots(u, k, g)
        /\ w.promise[f].frame = x
        /\ \A q \in Nums(u) : q # f => w.promise[q].frame = u.promise[q].frame
    BY <1>2, <2>2, SetFrame
  <2>4. Shape(w)
    BY <2>3 DEF Good
  <2>5. Grows(s, w)
    BY <1>1, <2>1, <2>3, <2>4, GrowsTrans
  <2>6. \A k \in Wakers, g \in Nat : IsBody(u, k, g) /\ ~(k = "function" /\ g = f) =>
          (Suspended(w, k, g) <=> Suspended(u, k, g))
    BY <2>3 DEF IsBody, Suspended
  <2>7. Awake(w, "function", f)
    BY <2>1, <2>3, <2>6, AwakeSame
  <2>. QED  BY <2>1, <2>2, <2>3, <2>5, <2>7
<1>3. CASE out = "await"
  <2>1. PICK u : u = PromiseResolve(s, v)
    OBVIOUS
  <2>2. PICK w : w = WithFrame(u, f, "awaiting")
    OBVIOUS
  <2>3. PICK p : p = ResolvedTo(s, v)
    OBVIOUS
  <2>4. PICK h : h = Handler("function", f, 0)
    OBVIOUS
  <2>5. t = PerformThen(w, p, h, h, NoPair)
    BY <1>3, <2>1, <2>2, <2>3, <2>4 DEF ResumeFunction, WithFrame
  <2>6. Good(u) /\ Effect(s, u) /\ p \in Nums(u)
    BY <2>1, <2>3, PromiseResolveGood
  <2>7. /\ Good(w) /\ Nums(w) = Nums(u) /\ Grows(s, w) /\ w.gen = s.gen /\ f \in Nums(w)
        /\ Awake(w, "function", f) /\ w.promise[f].frame = "awaiting"
    BY <1>2, <2>2, <2>6
  <2>8. IsBody(w, "function", f) /\ Suspended(w, "function", f) /\ p \in Nums(w)
    BY <2>6, <2>7 DEF IsBody, Suspended
  <2>9. Good(t) /\ Awake(t, "none", 0) /\ t.gen = w.gen /\ Grows(w, t)
    BY <1>1, <2>4, <2>5, <2>7, <2>8, SuspendBody
  <2>10. Shape(w) /\ Shape(t)
    BY <2>7, <2>9 DEF Good
  <2>11. Grows(s, t)
    BY <1>1, <2>7, <2>9, <2>10, GrowsTrans
  <2>. QED  BY <2>7, <2>9, <2>11 DEF WakeOK, GenOK
<1>4. CASE out # "await"
  <2>1. PICK rej \in BOOLEAN : rej = (out = "throw")
    OBVIOUS
  <2>2. PICK a : a = <<f, 1>>
    OBVIOUS
  <2>3. PICK u : u = Resolve(s, a, v, rej)
    OBVIOUS
  <2>4. t = WithFrame(u, f, "ended")
    BY <1>4, <2>1, <2>2, <2>3 DEF ResumeFunction, WithFrame
  <2>5. PairOK(s, a)
    BY <1>1, <2>2 DEF PairOK, Shape, PromiseShape
  <2>6. Good(u) /\ Effect(s, u) /\ Nums(u) = Nums(s)
    BY <2>3, <2>5, ResolveGood
  <2>7. /\ Good(t) /\ Nums(t) = Nums(u) /\ Grows(s, t) /\ t.gen = s.gen /\ f \in Nums(t)
        /\ Awake(t, "function", f) /\ t.promise[f].frame = "ended"
    BY <1>2, <2>4, <2>6
  <2>8. ~Suspended(t, "function", f)
    BY <2>7 DEF Suspended
  <2>9. Awake(t, "none", 0)
    BY <1>1, <2>7, <2>8, AwakeEnds
  <2>. QED  BY <2>7, <2>9 DEF WakeOK, GenOK
<1>. QED  BY <1>3, <1>4

(***************************************************************************)
(* The async generator.                                                    *)
(***************************************************************************)
\* Only the generator's own record changes.
OnlyGen(s, t, g) ==
  /\ DOMAIN t = DOMAIN s /\ t.promise = s.promise /\ t.queue = s.queue /\ t.gen = g
  /\ DOMAIN g = DOMAIN s.gen

LEMMA SetGen ==
  ASSUME NEW s, Good(s), NEW g, NEW t, OnlyGen(s, t, g), IsSeq(g.queue),
         \A i \in DOMAIN g.queue : \/ \E m \in DOMAIN s.gen.queue : g.queue[i] = s.gen.queue[m]
                                   \/ RequestOK(s, g.queue[i])
  PROVE  /\ Good(t) /\ Nums(t) = Nums(s) /\ Grows(s, t)
         /\ \A k, f : Spots(t, k, f) = Spots(s, k, f)
<1>1. /\ IsSeq(s.promise)
      /\ \A q \in Nums(s) : s.promise[q].open \subseteq DOMAIN s.promise[q].already_resolved
  BY DEF Good, Shape, PromiseShape
<1>2. Tweaked(s, t) /\ SameCounts(s, t)
  BY <1>1 DEF Tweaked, SameCounts, OnlyGen
<1>. QED  BY <1>2, TweakedGood

\* How the state of the generator may change while it is neither suspended nor
\* resumed before and after.
LEMMA GenAwake ==
  ASSUME NEW s, Good(s), NEW g, NEW t, OnlyGen(s, t, g), IsSeq(g.queue),
         \A i \in DOMAIN g.queue : \/ \E m \in DOMAIN s.gen.queue : g.queue[i] = s.gen.queue[m]
                                   \/ RequestOK(s, g.queue[i]),
         NEW k0, NEW f0, Awake(s, k0, f0),
         k0 # "generator" => (Suspended(t, "generator", 0) <=> Suspended(s, "generator", 0)),
         k0 # "return" => (Suspended(t, "return", 0) <=> Suspended(s, "return", 0)),
         k0 \in {"generator", "return"} => f0 = 0
  PROVE  Good(t) /\ Nums(t) = Nums(s) /\ Grows(s, t) /\ Awake(t, k0, f0)
<1>1. /\ Good(t) /\ Nums(t) = Nums(s) /\ Grows(s, t)
      /\ \A k, f : Spots(t, k, f) = Spots(s, k, f)
  BY SetGen
<1>2. \A k \in Wakers, f \in Nat : IsBody(s, k, f) /\ ~(k = k0 /\ f = f0) =>
           (Suspended(t, k, f) <=> Suspended(s, k, f))
  <2>. TAKE k \in Wakers, f \in Nat
  <2>. HAVE IsBody(s, k, f) /\ ~(k = k0 /\ f = f0)
  <2>1. CASE k = "function"
    BY <2>1 DEF Suspended, OnlyGen
  <2>2. CASE k = "generator"
    BY <2>2 DEF IsBody
  <2>3. CASE k = "return"
    BY <2>3 DEF IsBody
  <2>. QED  BY <2>1, <2>2, <2>3 DEF Wakers
<1>3. Awake(t, k0, f0)
  BY <1>1, <1>2, AwakeSame
<1>. QED  BY <1>1, <1>3

\* The generator's record gets the state st, the flag r and the requests q.
GenStep(s, t, st, r, q) ==
  OnlyGen(s, t, t.gen) /\ t.gen.state = st /\ t.gen.running = r /\ t.gen.queue = q

LEMMA GenSteps ==
  ASSUME NEW s, Shape(s), NEW x, NEW y
  PROVE  /\ GenStep(s, [s EXCEPT !.gen.state = x], x, s.gen.running, s.gen.queue)
         /\ GenStep(s, [s EXCEPT !.gen.running = x], s.gen.state, x, s.gen.queue)
         /\ GenStep(s, [s EXCEPT !.gen.state = x, !.gen.running = y], x, y, s.gen.queue)
         /\ GenStep(s, [s EXCEPT !.gen.queue = x], s.gen.state, s.gen.running, x)
<1>1. DOMAIN s = {"promise", "queue", "gen"} /\ DOMAIN s.gen = {"state", "queue", "running", "asked"}
  BY DEF Shape
<1>2. GenStep(s, [s EXCEPT !.gen.state = x], x, s.gen.running, s.gen.queue)
  BY <1>1 DEF GenStep, OnlyGen
<1>3. GenStep(s, [s EXCEPT !.gen.running = x], s.gen.state, x, s.gen.queue)
  BY <1>1 DEF GenStep, OnlyGen
<1>4. GenStep(s, [s EXCEPT !.gen.state = x, !.gen.running = y], x, y, s.gen.queue)
  BY <1>1 DEF GenStep, OnlyGen
<1>5. GenStep(s, [s EXCEPT !.gen.queue = x], s.gen.state, s.gen.running, x)
  BY <1>1 DEF GenStep, OnlyGen
<1>. QED  BY <1>2, <1>3, <1>4, <1>5

LEMMA GenMove ==
  ASSUME NEW s, Good(s), NEW t, NEW st, NEW r, GenStep(s, t, st, r, s.gen.queue),
         NEW k0, NEW f0, Awake(s, k0, f0), k0 \in {"generator", "return"} => f0 = 0,
         k0 # "generator" => (Suspended(t, "generator", 0) <=> Suspended(s, "generator", 0)),
         k0 # "return" => (Suspended(t, "return", 0) <=> Suspended(s, "return", 0))
  PROVE  /\ Good(t) /\ Nums(t) = Nums(s) /\ Grows(s, t) /\ Awake(t, k0, f0)
         /\ t.gen.state = st /\ t.gen.running = r /\ t.gen.queue = s.gen.queue
<1>1. t.gen.state = st /\ t.gen.running = r /\ t.gen.queue = s.gen.queue /\ OnlyGen(s, t, t.gen)
  BY DEF GenStep
<1>2. PICK g : g = t.gen
  OBVIOUS
<1>3. OnlyGen(s, t, g) /\ IsSeq(g.queue)
  BY <1>1, <1>2 DEF Good, Shape
<1>4. \A i \in DOMAIN g.queue : \/ \E m \in DOMAIN s.gen.queue : g.queue[i] = s.gen.queue[m]
                                \/ RequestOK(s, g.queue[i])
  BY <1>1, <1>2
<1>7. Good(t) /\ Nums(t) = Nums(s) /\ Grows(s, t) /\ Awake(t, k0, f0)
  BY <1>3, <1>4, GenAwake
<1>. QED  BY <1>1, <1>7

LEMMA AnswerGood ==
  ASSUME NEW s, Good(s), s.gen.queue # <<>>, NEW v, ValueOK(s, v), NEW rej \in BOOLEAN,
         NEW k0, NEW f0 \in Nat, k0 \in {"generator", "return"} => f0 = 0, Awake(s, k0, f0),
         NEW t, t = Answer(s, v, rej)
  PROVE  /\ Good(t) /\ Awake(t, k0, f0) /\ Grows(s, t)
         /\ t.gen.state = s.gen.state /\ t.gen.running = s.gen.running
<1>1. PICK q : q = s.gen.queue
  OBVIOUS
<1>2. IsSeq(q) /\ q # <<>> /\ Shape(s) /\ \A i \in DOMAIN q : RequestOK(s, q[i])
  BY <1>1 DEF Good, Shape, Refs
<1>3. /\ IsSeq(Tail(q)) /\ Len(Tail(q)) = Len(q) - 1 /\ Len(q) \in Nat \ {0}
      /\ DOMAIN Tail(q) = 1..(Len(q) - 1) /\ DOMAIN q = 1..Len(q)
      /\ \A i \in 1..(Len(q) - 1) : Tail(q)[i] = q[i + 1]
      /\ Head(q) = q[1]
  BY <1>2, SeqTail
<1>4. PICK u : u = [s EXCEPT !.gen.queue = Tail(q)]
  OBVIOUS
<1>5. GenStep(s, u, s.gen.state, s.gen.running, Tail(q))
  BY <1>2, <1>4, GenSteps
<1>6. PICK a : a = <<Head(q).p, 1>>
  OBVIOUS
<1>7. t = Resolve(u, a, v, rej)
  BY <1>1, <1>4, <1>6 DEF Answer
<1>8. PICK g : g = u.gen
  OBVIOUS
<1>9. /\ OnlyGen(s, u, g) /\ g.queue = Tail(q) /\ IsSeq(g.queue)
      /\ u.gen.state = s.gen.state /\ u.gen.running = s.gen.running
  BY <1>3, <1>5, <1>8 DEF GenStep
<1>10. \A i \in DOMAIN g.queue : \/ \E m \in DOMAIN s.gen.queue : g.queue[i] = s.gen.queue[m]
                                 \/ RequestOK(s, g.queue[i])
  <2>1. \A i \in 1..(Len(q) - 1) : i + 1 \in 1..Len(q)
    BY <1>3
  <2>. QED  BY <1>1, <1>3, <1>9, <2>1
<1>11. k0 # "generator" => (Suspended(u, "generator", 0) <=> Suspended(s, "generator", 0))
  BY <1>9 DEF Suspended
<1>12. k0 # "return" => (Suspended(u, "return", 0) <=> Suspended(s, "return", 0))
  BY <1>9 DEF Suspended
<1>13. Good(u) /\ Nums(u) = Nums(s) /\ Grows(s, u) /\ Awake(u, k0, f0)
  BY <1>9, <1>10, <1>11, <1>12, GenAwake
<1>14. Shape(u) /\ ValueOK(u, v)
  BY <1>13 DEF Good, ValueOK
<1>15. PairOK(u, a)
  <2>1. 1 \in DOMAIN q
    BY <1>3
  <2>2. Head(q).p \in Nums(u)
    BY <1>2, <1>3, <1>13, <2>1 DEF RequestOK
  <2>. QED  BY <1>6, <1>14, <2>2 DEF PairOK, Shape, PromiseShape
<1>16. Good(t) /\ Effect(u, t) /\ Nums(t) = Nums(u)
  <2>1. Good(u)
    BY <1>13
  <2>. QED  BY <1>7, <1>14, <1>15, <2>1, ResolveGood
<1>17. Awake(t, k0, f0) /\ t.gen = u.gen
  BY <1>13, <1>16, EffectAwake
<1>18. Shape(t) /\ Grows(u, t)
  BY <1>16 DEF Good, Effect
<1>19. Grows(s, t)
  BY <1>2, <1>13, <1>14, <1>18, GrowsTrans
<1>. QED  BY <1>9, <1>16, <1>17, <1>19

LEMMA AnswerCompletedGood ==
  ASSUME NEW s, Good(s), Awake(s, "none", 0), s.gen.state = "completed", ~s.gen.running,
         s.gen.queue # <<>>, NEW t, t = AnswerCompleted(s)
  PROVE  Good(t) /\ WakeOK(t) /\ Grows(s, t)
<1>1. PICK q : q = s.gen.queue
  OBVIOUS
<1>2. IsSeq(q) /\ q # <<>> /\ Shape(s) /\ \A i \in DOMAIN q : RequestOK(s, q[i])
  BY <1>1 DEF Good, Shape, Refs
<1>3. PICK next : next = Head(q)
  OBVIOUS
<1>4. RequestOK(s, next)
  <2>1. Head(q) = q[1] /\ 1 \in DOMAIN q
    BY <1>2, SeqTail
  <2>. QED  BY <1>2, <1>3, <2>1
<1>5. ValueOK(s, next.v) /\ ValueOK(s, IteratorResult(TRUE)) /\ next.kind \in {"next", "return", "throw"}
  BY <1>4 DEF RequestOK, ValueOK, IteratorResult
<1>6. ASSUME NEW v, ValueOK(s, v), NEW b \in BOOLEAN, t = Answer(s, v, b)
      PROVE  Good(t) /\ WakeOK(t) /\ Grows(s, t)
  <2>1. PICK k0 : k0 = "none"
    OBVIOUS
  <2>2. PICK f0 \in Nat : f0 = 0
    OBVIOUS
  <2>3. Awake(s, k0, f0) /\ (k0 \in {"generator", "return"} => f0 = 0)
    BY <2>1, <2>2
  <2>4. /\ Good(t) /\ Awake(t, k0, f0) /\ Grows(s, t)
        /\ t.gen.state = s.gen.state /\ t.gen.running = s.gen.running
    BY <1>6, <2>3, AnswerGood
  <2>. QED  BY <2>1, <2>2, <2>4 DEF WakeOK, RequestWaits
<1>7. CASE next.kind = "next"
  <2>1. PICK b \in BOOLEAN : b = FALSE
    OBVIOUS
  <2>2. t = Answer(s, IteratorResult(TRUE), b)
    BY <1>1, <1>3, <1>7, <2>1 DEF AnswerCompleted
  <2>. QED  BY <1>5, <1>6, <2>2
<1>8. CASE next.kind = "throw"
  <2>1. PICK b \in BOOLEAN : b = TRUE
    OBVIOUS
  <2>2. t = Answer(s, next.v, b)
    BY <1>1, <1>3, <1>8, <2>1 DEF AnswerCompleted
  <2>. QED  BY <1>5, <1>6, <2>2
<1>9. CASE next.kind = "return"
  <2>1. PICK u : u = PromiseResolve(s, next.v)
    OBVIOUS
  <2>2. PICK p : p = ResolvedTo(s, next.v)
    OBVIOUS
  <2>3. PICK h : h = Handler("return", 0, 0)
    OBVIOUS
  <2>4. PICK w : w = [u EXCEPT !.gen.state = "awaiting_return"]
    OBVIOUS
  <2>5. t = PerformThen(w, p, h, h, NoPair)
    BY <1>1, <1>3, <1>9, <2>1, <2>2, <2>3, <2>4 DEF AnswerCompleted
  <2>6. Good(u) /\ Effect(s, u) /\ p \in Nums(u)
    BY <1>5, <2>1, <2>2, PromiseResolveGood
  <2>7. Awake(u, "none", 0) /\ u.gen = s.gen /\ Shape(u) /\ Grows(s, u)
    <3>1. 0 \in Nat
      OBVIOUS
    <3>. QED  BY <2>6, <3>1, EffectAwake DEF Good, Effect
  <2>8. IsBody(u, "return", 0) /\ ~Suspended(u, "return", 0) /\ "return" \in Wakers
        /\ ~Suspended(u, "generator", 0) /\ 0 \in Nat
    BY <2>7 DEF IsBody, Suspended, Wakers
  <2>9. Awake(u, "return", 0)
    BY <2>7, <2>8, AwakeBegins
  <2>10. GenStep(u, w, "awaiting_return", u.gen.running, u.gen.queue)
    BY <2>4, <2>7, GenSteps
  <2>11. /\ Good(w) /\ Nums(w) = Nums(u) /\ Grows(u, w) /\ Awake(w, "return", 0)
         /\ w.gen.state = "awaiting_return" /\ w.gen.running = u.gen.running /\ w.gen.queue = u.gen.queue
    <3>1. PICK k0 : k0 = "return"
      OBVIOUS
    <3>2. PICK st : st = "awaiting_return"
      OBVIOUS
    <3>3. PICK f0 : f0 = 0
      OBVIOUS
    <3>4. PICK r : r = u.gen.running
      OBVIOUS
    <3>5. Good(u) /\ GenStep(u, w, st, r, u.gen.queue) /\ Awake(u, k0, f0)
      BY <2>6, <2>9, <2>10, <3>1, <3>2, <3>3, <3>4
    <3>6. k0 \in {"generator", "return"} => f0 = 0
      BY <3>3
    <3>7. k0 # "generator" => (Suspended(w, "generator", 0) <=> Suspended(u, "generator", 0))
      BY <2>8, <2>10 DEF GenStep, Suspended
    <3>8. k0 # "return" => (Suspended(w, "return", 0) <=> Suspended(u, "return", 0))
      BY <3>1
    <3>9. /\ Good(w) /\ Nums(w) = Nums(u) /\ Grows(u, w) /\ Awake(w, k0, f0)
          /\ w.gen.state = st /\ w.gen.running = r /\ w.gen.queue = u.gen.queue
      BY <3>5, <3>6, <3>7, <3>8, GenMove
    <3>. QED  BY <3>1, <3>2, <3>3, <3>4, <3>9
  <2>12. IsBody(w, "return", 0) /\ Suspended(w, "return", 0) /\ p \in Nums(w)
    BY <2>6, <2>11 DEF IsBody, Suspended
  <2>13. Good(t) /\ Awake(t, "none", 0) /\ t.gen = w.gen /\ Grows(w, t)
    BY <2>3, <2>5, <2>8, <2>11, <2>12, SuspendBody
  <2>14. Shape(w) /\ Shape(t)
    BY <2>11, <2>13 DEF Good
  <2>15. Grows(s, t)
    <3>1. Grows(s, w)
      BY <1>2, <2>7, <2>11, <2>14, GrowsTrans
    <3>. QED  BY <1>2, <2>13, <2>14, <3>1, GrowsTrans
  <2>. QED  BY <2>7, <2>11, <2>13, <2>15 DEF WakeOK, RequestWaits
<1>. QED  BY <1>5, <1>7, <1>8, <1>9

LEMMA GenBoth ==
  ASSUME NEW s, Shape(s), NEW x, NEW y, NEW t, t = [s EXCEPT !.gen.state = x, !.gen.running = y]
  PROVE  GenStep(s, t, x, y, s.gen.queue)
<1>1. DOMAIN s = {"promise", "queue", "gen"} /\ DOMAIN s.gen = {"state", "queue", "running", "asked"}
  BY DEF Shape
<1>. QED  BY <1>1 DEF GenStep, OnlyGen

\* The generator's body is no longer being resumed.
LEMMA GenLeaves ==
  ASSUME NEW s, Good(s), Awake(s, "generator", 0), NEW t, NEW st, NEW r,
         GenStep(s, t, st, r, s.gen.queue), Suspended(t, "return", 0) <=> Suspended(s, "return", 0),
         ~Suspended(t, "generator", 0)
  PROVE  Good(t) /\ Grows(s, t) /\ Awake(t, "none", 0)
<1>1. PICK k0, f0 : k0 = "generator" /\ f0 = 0
  OBVIOUS
<1>2. Awake(s, k0, f0) /\ (k0 \in {"generator", "return"} => f0 = 0)
  BY <1>1
<1>3. k0 # "generator" => (Suspended(t, "generator", 0) <=> Suspended(s, "generator", 0))
  BY <1>1
<1>4. k0 # "return" => (Suspended(t, "return", 0) <=> Suspended(s, "return", 0))
  OBVIOUS
<1>5. /\ Good(t) /\ Nums(t) = Nums(s) /\ Grows(s, t) /\ Awake(t, k0, f0)
      /\ t.gen.state = st /\ t.gen.running = r /\ t.gen.queue = s.gen.queue
  BY <1>2, <1>3, <1>4, GenMove
<1>6. k0 \in Wakers /\ ~Suspended(t, k0, f0)
  BY <1>1 DEF Wakers
<1>7. Awake(t, "none", 0)
  BY <1>5, <1>6, AwakeEnds
<1>. QED  BY <1>5, <1>7

LEMMA ResumeNextGood ==
  ASSUME NEW s, Good(s), Awake(s, "generator", 0), RequestWaits(s.gen), NEW t, t = ResumeNext(s)
  PROVE  Good(t) /\ WakeOK(t) /\ Grows(s, t)
<1>1. Shape(s)
  BY DEF Good
<1>2. PICK no : no = FALSE
  OBVIOUS
<1>3. PICK u : u = [s EXCEPT !.gen.running = no]
  OBVIOUS
<1>4. GenStep(s, u, s.gen.state, no, s.gen.queue)
  BY <1>1, <1>3, GenSteps
<1>5. u.gen.state = s.gen.state /\ ~u.gen.running /\ u.gen.queue = s.gen.queue
  BY <1>2, <1>4 DEF GenStep
<1>6. Suspended(u, "return", 0) <=> Suspended(s, "return", 0)
  BY <1>5 DEF Suspended
<1>7. ASSUME s.gen.state # "executing"
      PROVE  Good(u) /\ Grows(s, u) /\ Awake(u, "none", 0)
  <2>1. ~Suspended(u, "generator", 0)
    BY <1>5, <1>7 DEF Suspended
  <2>2. PICK st : st = s.gen.state /\ GenStep(s, u, st, no, s.gen.queue)
    BY <1>4
  <2>. QED  BY <1>6, <2>1, <2>2, GenLeaves
<1>8. CASE s.gen.queue = <<>> \/ s.gen.state = "awaiting_return"
  <2>1. t = u
    BY <1>2, <1>3, <1>8 DEF ResumeNext
  <2>2. s.gen.state # "executing"
    BY <1>8 DEF RequestWaits
  <2>. QED  BY <1>5, <1>7, <2>1, <2>2 DEF WakeOK, RequestWaits
<1>9. CASE s.gen.queue # <<>> /\ s.gen.state = "completed"
  <2>1. t = AnswerCompleted(u)
    BY <1>2, <1>3, <1>9 DEF ResumeNext
  <2>2. Good(u) /\ Grows(s, u) /\ Awake(u, "none", 0) /\ Shape(u)
    BY <1>7, <1>9 DEF Good
  <2>3. u.gen.state = "completed" /\ ~u.gen.running /\ u.gen.queue # <<>>
    BY <1>5, <1>9
  <2>4. Good(t) /\ WakeOK(t) /\ Grows(u, t)
    BY <2>1, <2>2, <2>3, AnswerCompletedGood
  <2>5. Grows(s, t)
    BY <1>1, <2>2, <2>4, GrowsTrans DEF Good
  <2>. QED  BY <2>4, <2>5
<1>10. CASE s.gen.queue # <<>> /\ s.gen.state = "start" /\ Head(s.gen.queue).kind # "next"
  <2>1. PICK w : w = [u EXCEPT !.gen.state = "completed"]
    OBVIOUS
  <2>2. t = AnswerCompleted(w)
    BY <1>2, <1>3, <1>10, <2>1 DEF ResumeNext
  <2>3. Shape(u)
    BY <1>7, <1>10 DEF Good
  <2>4. GenStep(u, w, "completed", u.gen.running, u.gen.queue)
    BY <2>1, <2>3, GenSteps
  <2>5. PICK st : st = "completed" /\ GenStep(s, w, st, no, s.gen.queue)
    BY <1>4, <2>4 DEF GenStep, OnlyGen
  <2>6. w.gen.state = "completed" /\ ~w.gen.running /\ w.gen.queue # <<>>
    BY <1>2, <1>10, <2>5 DEF GenStep
  <2>7. ~Suspended(w, "generator", 0) /\ (Suspended(w, "return", 0) <=> Suspended(s, "return", 0))
    BY <1>10, <2>6 DEF Suspended
  <2>8. Good(w) /\ Grows(s, w) /\ Awake(w, "none", 0)
    BY <2>5, <2>7, GenLeaves
  <2>9. Good(t) /\ WakeOK(t) /\ Grows(w, t)
    BY <2>2, <2>6, <2>8, AnswerCompletedGood
  <2>10. Grows(s, t)
    BY <1>1, <2>8, <2>9, GrowsTrans DEF Good
  <2>. QED  BY <2>9, <2>10
<1>11. CASE /\ s.gen.queue # <<>> /\ s.gen.state # "awaiting_return" /\ s.gen.state # "completed"
            /\ ~(s.gen.state = "start" /\ Head(s.gen.queue).kind # "next")
  <2>1. PICK yes : yes = TRUE
    OBVIOUS
  <2>2. PICK st : st = "executing"
    OBVIOUS
  <2>3. t = [s EXCEPT !.gen.state = st, !.gen.running = yes]
    BY <1>11, <2>1, <2>2 DEF ResumeNext
  <2>4. GenStep(s, t, st, yes, s.gen.queue)
    BY <1>1, <2>3, GenBoth
  <2>5. t.gen.state = "executing" /\ t.gen.running /\ t.gen.queue # <<>>
    BY <1>11, <2>1, <2>2, <2>4 DEF GenStep
  <2>6. ~Suspended(t, "generator", 0) /\ (Suspended(t, "return", 0) <=> Suspended(s, "return", 0))
    BY <1>11, <2>5 DEF Suspended
  <2>7. Good(t) /\ Grows(s, t) /\ Awake(t, "none", 0)
    BY <2>4, <2>6, GenLeaves
  <2>. QED  BY <2>5, <2>7 DEF WakeOK, RequestWaits
<1>. QED  BY <1>8, <1>9, <1>10, <1>11

LEMMA BodyStopsGood ==
  ASSUME NEW s, Good(s), WakeOK(s), s.gen.running, NEW v, ValueOK(s, v), NEW out,
         NEW t, t = BodyStops(s, out, v)
  PROVE  Good(t) /\ WakeOK(t) /\ Grows(s, t)
<1>1. /\ Shape(s) /\ s.gen.state = "executing" /\ s.gen.queue # <<>> /\ Awake(s, "none", 0)
      /\ 0 \in Nat /\ "generator" \in Wakers
  BY DEF Good, WakeOK, RequestWaits, Wakers
<1>2. CASE out = "await"
  <2>1. PICK u : u = PromiseResolve(s, v)
    OBVIOUS
  <2>2. PICK p : p = ResolvedTo(s, v)
    OBVIOUS
  <2>3. PICK h : h = Handler("generator", 0, 0)
    OBVIOUS
  <2>4. PICK no : no = FALSE
    OBVIOUS
  <2>5. PICK w : w = [u EXCEPT !.gen.running = no]
    OBVIOUS
  <2>6. t = PerformThen(w, p, h, h, NoPair)
    BY <1>2, <2>1, <2>2, <2>3, <2>4, <2>5 DEF BodyStops
  <2>7. Good(u) /\ Effect(s, u) /\ p \in Nums(u)
    BY <2>1, <2>2, PromiseResolveGood
  <2>8. Awake(u, "none", 0) /\ u.gen = s.gen /\ Shape(u) /\ Grows(s, u)
    BY <1>1, <2>7, EffectAwake DEF Good, Effect
  <2>9. IsBody(u, "generator", 0) /\ ~Suspended(u, "generator", 0)
    BY <2>8 DEF IsBody, Suspended
  <2>10. Awake(u, "generator", 0)
    BY <1>1, <2>8, <2>9, AwakeBegins
  <2>11. GenStep(u, w, u.gen.state, no, u.gen.queue)
    BY <2>5, <2>8, GenSteps
  <2>12. w.gen.state = "executing" /\ ~w.gen.running /\ w.gen.queue = s.gen.queue
    BY <1>1, <2>4, <2>8, <2>11 DEF GenStep
  <2>13. Good(w) /\ Nums(w) = Nums(u) /\ Grows(u, w) /\ Awake(w, "generator", 0)
    <3>1. PICK k0, f0, st : k0 = "generator" /\ f0 = 0 /\ st = u.gen.state
      OBVIOUS
    <3>2. Good(u) /\ GenStep(u, w, st, no, u.gen.queue) /\ Awake(u, k0, f0)
      BY <2>7, <2>10, <2>11, <3>1
    <3>3. k0 \in {"generator", "return"} => f0 = 0
      BY <3>1
    <3>4. k0 # "generator" => (Suspended(w, "generator", 0) <=> Suspended(u, "generator", 0))
      BY <3>1
    <3>5. k0 # "return" => (Suspended(w, "return", 0) <=> Suspended(u, "return", 0))
      BY <1>1, <2>8, <2>12 DEF Suspended
    <3>6. /\ Good(w) /\ Nums(w) = Nums(u) /\ Grows(u, w) /\ Awake(w, k0, f0)
          /\ w.gen.state = st /\ w.gen.running = no /\ w.gen.queue = u.gen.queue
      BY <3>2, <3>3, <3>4, <3>5, GenMove
    <3>. QED  BY <3>1, <3>6
  <2>14. IsBody(w, "generator", 0) /\ Suspended(w, "generator", 0) /\ p \in Nums(w)
    BY <2>7, <2>12, <2>13 DEF IsBody, Suspended
  <2>15. Good(t) /\ Awake(t, "none", 0) /\ t.gen = w.gen /\ Grows(w, t)
    BY <1>1, <2>3, <2>6, <2>13, <2>14, SuspendBody
  <2>16. Shape(w) /\ Shape(t)
    BY <2>13, <2>15 DEF Good
  <2>17. Grows(s, w)
    BY <1>1, <2>8, <2>13, <2>16, GrowsTrans
  <2>18. Grows(s, t)
    BY <1>1, <2>15, <2>16, <2>17, GrowsTrans
  <2>. QED  BY <1>1, <2>12, <2>15, <2>18 DEF WakeOK, RequestWaits
<1>3. ASSUME NEW st, st \notin {"executing", "awaiting_return"}, NEW u, u = [s EXCEPT !.gen.state = st],
             NEW x, ValueOK(s, x), NEW rej \in BOOLEAN, NEW w, w = Answer(u, x, rej), t = ResumeNext(w)
      PROVE  Good(t) /\ WakeOK(t) /\ Grows(s, t)
  <2>1. IsBody(s, "generator", 0) /\ ~Suspended(s, "generator", 0)
    BY DEF IsBody, Suspended
  <2>2. PICK k0 : k0 = "generator"
    OBVIOUS
  <2>3. PICK f0 \in Nat : f0 = 0
    OBVIOUS
  <2>4. Awake(s, k0, f0)
    BY <1>1, <2>1, <2>2, <2>3, AwakeBegins
  <2>5. PICK r : r = s.gen.running /\ GenStep(s, u, st, r, s.gen.queue)
    BY <1>1, <1>3, GenSteps
  <2>6. k0 \in {"generator", "return"} => f0 = 0
    BY <2>3
  <2>7. k0 # "generator" => (Suspended(u, "generator", 0) <=> Suspended(s, "generator", 0))
    BY <2>2
  <2>8. k0 # "return" => (Suspended(u, "return", 0) <=> Suspended(s, "return", 0))
    BY <1>1, <1>3, <2>5 DEF Suspended, GenStep
  <2>9. /\ Good(u) /\ Nums(u) = Nums(s) /\ Grows(s, u) /\ Awake(u, k0, f0)
        /\ u.gen.state = st /\ u.gen.running = r /\ u.gen.queue = s.gen.queue
    <3>1. Good(s) /\ GenStep(s, u, st, r, s.gen.queue) /\ Awake(s, k0, f0)
      BY <2>4, <2>5
    <3>. QED  BY <2>6, <2>7, <2>8, <3>1, GenMove
  <2>10. ValueOK(u, x) /\ u.gen.queue # <<>> /\ Good(u) /\ Shape(u)
    BY <1>1, <1>3, <2>9 DEF ValueOK, Good
  <2>11. /\ Good(w) /\ Awake(w, k0, f0) /\ Grows(u, w)
         /\ w.gen.state = u.gen.state /\ w.gen.running = u.gen.running
    <3>1. Good(u)
      BY <2>10
    <3>2. u.gen.queue # <<>>
      BY <2>10
    <3>3. ValueOK(u, x)
      BY <2>10
    <3>4. Awake(u, k0, f0)
      BY <2>9
    <3>5. w = Answer(u, x, rej)
      BY <1>3
    <3>. QED  BY <2>6, <3>1, <3>2, <3>3, <3>4, <3>5, AnswerGood
  <2>12. Awake(w, "generator", 0) /\ RequestWaits(w.gen) /\ Shape(w)
    BY <1>3, <2>2, <2>3, <2>9, <2>11 DEF RequestWaits, Good
  <2>13. Good(t) /\ WakeOK(t) /\ Grows(w, t)
    BY <1>3, <2>11, <2>12, ResumeNextGood
  <2>14. Shape(t)
    BY <2>13 DEF Good
  <2>15. Grows(s, w)
    BY <1>1, <2>9, <2>10, <2>11, <2>12, GrowsTrans
  <2>16. Grows(s, t)
    BY <1>1, <2>12, <2>13, <2>14, <2>15, GrowsTrans
  <2>. QED  BY <2>13, <2>16
<1>4. ValueOK(s, IteratorResult(TRUE)) /\ ValueOK(s, IteratorResult(FALSE))
  BY DEF ValueOK, IteratorResult
<1>5. CASE out = "yield"
  <2>1. PICK st : st = "yield"
    OBVIOUS
  <2>2. PICK rej \in BOOLEAN : rej = FALSE
    OBVIOUS
  <2>3. PICK x : x = IteratorResult(FALSE)
    OBVIOUS
  <2>4. PICK u : u = [s EXCEPT !.gen.state = st]
    OBVIOUS
  <2>5. PICK w : w = Answer(u, x, rej)
    OBVIOUS
  <2>6. t = ResumeNext(w)
    BY <1>5, <2>1, <2>2, <2>3, <2>4, <2>5 DEF BodyStops
  <2>7. st \notin {"executing", "awaiting_return"} /\ ValueOK(s, x)
    BY <1>4, <2>1, <2>3
  <2>. QED  BY <1>3, <2>4, <2>5, <2>6, <2>7
<1>6. CASE out # "await" /\ out # "yield"
  <2>1. PICK st : st = "completed"
    OBVIOUS
  <2>2. PICK rej \in BOOLEAN : rej = (out = "throw")
    OBVIOUS
  <2>3. PICK x : x = IF out = "throw" THEN v ELSE IteratorResult(TRUE)
    OBVIOUS
  <2>4. PICK u : u = [s EXCEPT !.gen.state = st]
    OBVIOUS
  <2>5. PICK w : w = Answer(u, x, rej)
    OBVIOUS
  <2>6. t = ResumeNext(w)
    BY <1>6, <2>1, <2>2, <2>3, <2>4, <2>5 DEF BodyStops
  <2>7. st \notin {"executing", "awaiting_return"} /\ ValueOK(s, x)
    BY <1>4, <2>1, <2>3
  <2>. QED  BY <1>3, <2>4, <2>5, <2>6, <2>7
<1>. QED  BY <1>2, <1>5, <1>6

LEMMA ReturnSettledGood ==
  ASSUME NEW s, Good(s), Awake(s, "return", 0), GenOK(s.gen), s.gen.state = "awaiting_return",
         NEW v, ValueOK(s, v), NEW rej \in BOOLEAN, NEW t, t = ReturnSettled(s, v, rej)
  PROVE  Good(t) /\ WakeOK(t) /\ Grows(s, t)
<1>1. Shape(s) /\ s.gen.queue # <<>> /\ ~s.gen.running
  BY DEF Good, GenOK, RequestWaits
<1>2. PICK st : st = "completed"
  OBVIOUS
<1>3. PICK u : u = [s EXCEPT !.gen.state = st]
  OBVIOUS
<1>4. PICK x : x = IF rej THEN v ELSE IteratorResult(TRUE)
  OBVIOUS
<1>5. t = Answer(u, x, rej)
  BY <1>2, <1>3, <1>4 DEF ReturnSettled
<1>6. PICK k0 : k0 = "return"
  OBVIOUS
<1>7. PICK f0 \in Nat : f0 = 0
  OBVIOUS
<1>8. Awake(s, k0, f0) /\ (k0 \in {"generator", "return"} => f0 = 0)
  BY <1>6, <1>7
<1>9. PICK r : GenStep(s, u, st, r, s.gen.queue) /\ r = s.gen.running
  BY <1>1, <1>3, GenSteps
<1>10. k0 # "generator" => (Suspended(u, "generator", 0) <=> Suspended(s, "generator", 0))
  BY <1>2, <1>9 DEF Suspended, GenStep
<1>11. k0 # "return" => (Suspended(u, "return", 0) <=> Suspended(s, "return", 0))
  BY <1>6
<1>12. /\ Good(u) /\ Nums(u) = Nums(s) /\ Grows(s, u) /\ Awake(u, k0, f0)
       /\ u.gen.state = st /\ u.gen.running = r /\ u.gen.queue = s.gen.queue
  <2>1. GenStep(s, u, st, r, s.gen.queue)
    BY <1>9
  <2>2. Awake(s, k0, f0)
    BY <1>8
  <2>3. k0 \in {"generator", "return"} => f0 = 0
    BY <1>8
  <2>. QED  BY <1>10, <1>11, <2>1, <2>2, <2>3, GenMove
<1>13. ValueOK(u, x) /\ u.gen.queue # <<>> /\ Good(u) /\ Shape(u)
  <2>1. ValueOK(s, x)
    BY <1>4 DEF ValueOK, IteratorResult
  <2>. QED  BY <1>1, <1>12, <2>1 DEF ValueOK, Good
<1>14. /\ Good(t) /\ Awake(t, k0, f0) /\ Grows(u, t)
       /\ t.gen.state = u.gen.state /\ t.gen.running = u.gen.running
  BY <1>5, <1>8, <1>12, <1>13, AnswerGood
<1>15. k0 \in Wakers /\ ~Suspended(t, k0, f0)
  BY <1>2, <1>6, <1>12, <1>14 DEF Wakers, Suspended
<1>16. Awake(t, "none", 0)
  BY <1>14, <1>15, AwakeEnds
<1>17. Grows(s, t)
  BY <1>1, <1>12, <1>13, <1>14, GrowsTrans DEF Good
<1>. QED  BY <1>1, <1>2, <1>9, <1>12, <1>14, <1>16, <1>17 DEF WakeOK, RequestWaits

(***************************************************************************)
(* Combinators.                                                            *)
(***************************************************************************)
\* Bookkeeping of one promise that no frame depends on either.
LEMMA Bookkeeping ==
  ASSUME NEW s, Good(s), NEW t, Tweaked(s, t), SameCounts(s, t), t.gen = s.gen,
         \A q \in Nums(s) : t.promise[q].frame = s.promise[q].frame
  PROVE  Good(t) /\ Effect(s, t) /\ Nums(t) = Nums(s)
<1>1. /\ Good(t) /\ Nums(t) = Nums(s) /\ Grows(s, t)
      /\ \A k, f : Spots(t, k, f) = Spots(s, k, f)
  BY TweakedGood
<1>2. \A k \in Wakers, f \in Nat : SameSpots(s, t, k, f)
  BY <1>1, SpotsKept
<1>3. SameFrames(s, t)
  BY <1>1 DEF SameFrames
<1>. QED  BY <1>1, <1>2, <1>3 DEF Effect

WithEnv(s, c, e) == [s EXCEPT !.promise[c].env = e]

LEMMA SetEnv ==
  ASSUME NEW s, Good(s), NEW c \in Nums(s), NEW e, NEW t, t = WithEnv(s, c, e)
  PROVE  Good(t) /\ Effect(s, t) /\ Nums(t) = Nums(s)
<1>1. Shape(s) /\ DOMAIN s = {"promise", "queue", "gen"} /\ DOMAIN s.promise = Nums(s)
  BY Numbered DEF Good, Shape
<1>2. DOMAIN s.promise[c] = PromiseFields
  BY <1>1 DEF Shape, PromiseShape
<1>3. PICK r : r = [s.promise[c] EXCEPT !.env = e]
  OBVIOUS
<1>4. /\ DOMAIN r = PromiseFields /\ r.state = s.promise[c].state /\ r.result = s.promise[c].result
      /\ r.reactions = s.promise[c].reactions /\ r.open = s.promise[c].open
      /\ r.already_resolved = s.promise[c].already_resolved /\ r.frame = s.promise[c].frame
      /\ r.thens = s.promise[c].thens /\ r.ran = s.promise[c].ran
  BY <1>2, <1>3 DEF PromiseFields
<1>5. /\ DOMAIN t = DOMAIN s /\ t.queue = s.queue /\ t.gen = s.gen
      /\ t.promise = [s.promise EXCEPT ![c] = r]
  BY <1>1, <1>3 DEF WithEnv
<1>6. Tweaked(s, t) /\ SameCounts(s, t) /\ t.promise[c] = r /\ \A q \in Nums(s) : q # c => t.promise[q] = s.promise[q]
  BY <1>1, <1>4, <1>5, TweakPromise
<1>7. t.gen = s.gen /\ \A q \in Nums(s) : t.promise[q].frame = s.promise[q].frame
  BY <1>4, <1>5, <1>6
<1>. QED  BY <1>6, <1>7, Bookkeeping

LEMMA ResolveElementGood ==
  ASSUME NEW s, Good(s), NEW c \in Nums(s), NEW i, NEW v, ValueOK(s, v), NEW rej \in BOOLEAN,
         NEW t, t = ResolveElement(s, c, i, v, rej)
  PROVE  Good(t) /\ Effect(s, t)
<1>1. PICK e : e = s.promise[c].env
  OBVIOUS
<1>2. PICK e1 : e1 = [e EXCEPT !.called = @ \cup {i}]
  OBVIOUS
<1>3. PICK a1 : a1 = WithEnv(s, c, e1)
  OBVIOUS
<1>4. PICK e2 : e2 = [a1.promise[c].env EXCEPT !.values[i] = <<rej, v>>]
  OBVIOUS
<1>5. PICK a2 : a2 = WithEnv(a1, c, e2)
  OBVIOUS
<1>6. PICK e3 : e3 = [a2.promise[c].env EXCEPT !.left = e.left - 1]
  OBVIOUS
<1>7. PICK a3 : a3 = WithEnv(a2, c, e3)
  OBVIOUS
<1>8. PICK b \in BOOLEAN : b = (e.kind = "any")
  OBVIOUS
<1>9. PICK a : a = <<c, 1>>
  OBVIOUS
<1>10. PICK x : x = <<"array", c>>
  OBVIOUS
<1>11. t = s \/ t = a3 \/ t = Resolve(a3, a, x, b)
  BY <1>1, <1>2, <1>3, <1>4, <1>5, <1>6, <1>7, <1>8, <1>9, <1>10 DEF ResolveElement, WithEnv
<1>12. Shape(s) /\ Good(s)
  BY DEF Good
<1>13. Good(a1) /\ Effect(s, a1) /\ Nums(a1) = Nums(s)
  BY <1>3, SetEnv
<1>14. Good(a2) /\ Effect(a1, a2) /\ Nums(a2) = Nums(a1)
  BY <1>5, <1>13, SetEnv
<1>15. Good(a3) /\ Effect(a2, a3) /\ Nums(a3) = Nums(a2)
  BY <1>7, <1>13, <1>14, SetEnv
<1>16. Shape(a1) /\ Shape(a2) /\ Shape(a3)
  BY <1>13, <1>14, <1>15 DEF Good
<1>17. Effect(s, a2)
  BY <1>12, <1>13, <1>14, <1>16, EffectTrans
<1>18. Effect(s, a3)
  BY <1>12, <1>15, <1>16, <1>17, EffectTrans
<1>19. CASE t = s
  BY <1>12, <1>19, EffectRefl
<1>20. CASE t = a3
  BY <1>15, <1>18, <1>20
<1>21. CASE t = Resolve(a3, a, x, b)
  <2>1. PairOK(a3, a)
    BY <1>9, <1>13, <1>14, <1>15, <1>16 DEF PairOK, Shape, PromiseShape
  <2>2. ValueOK(a3, x)
    BY <1>10 DEF ValueOK
  <2>3. Good(a3)
    BY <1>15
  <2>4. Good(t) /\ Effect(a3, t) /\ Nums(t) = Nums(a3)
    BY <1>21, <2>1, <2>2, <2>3, ResolveGood
  <2>5. Shape(t)
    BY <2>4 DEF Good
  <2>6. Effect(s, t)
    BY <1>12, <1>16, <1>18, <2>4, <2>5, EffectTrans
  <2>. QED  BY <2>4, <2>6
<1>. QED  BY <1>11, <1>19, <1>20, <1>21

LEMMA AddElementGood ==
  ASSUME NEW s, Good(s), NEW c \in Nums(s), NEW kind, NEW i, NEW p \in Nums(s),
         NEW t, t = AddElement(s, c, kind, i, p)
  PROVE  Good(t) /\ Effect(s, t) /\ Nums(t) = Nums(s)
<1>1. PICK u : u = WithEnv(s, c, [s.promise[c].env EXCEPT !.left = @ + 1])
  OBVIOUS
<1>2. PICK w : w = IF kind = "race" THEN s ELSE u
  OBVIOUS
<1>3. Good(w) /\ Effect(s, w) /\ Nums(w) = Nums(s)
  <2>1. Good(u) /\ Effect(s, u) /\ Nums(u) = Nums(s)
    BY <1>1, SetEnv
  <2>2. Good(s) /\ Effect(s, s)
    BY EffectRefl DEF Good
  <2>. QED  BY <1>2, <2>1, <2>2
<1>4. PICK h : h = IF kind \in {"any", "race"} THEN Handler("pair", c, 1) ELSE Handler("element", c, i)
  OBVIOUS
<1>5. PICK g : g = IF kind \in {"all", "race"} THEN Handler("pair", c, 1) ELSE Handler("element", c, i)
  OBVIOUS
<1>6. PICK a : a = NoPair
  OBVIOUS
<1>7. t = PerformThen(w, p, h, g, a)
  BY <1>1, <1>2, <1>4, <1>5, <1>6 DEF AddElement, WithEnv
<1>8. PairOK(w, <<c, 1>>) /\ c \in Nums(w) /\ p \in Nums(w) /\ Shape(w) /\ Shape(s)
  BY <1>3 DEF Good, PairOK, Shape, PromiseShape
<1>9. HandlerOK(w, Handler("pair", c, 1)) /\ HandlerOK(w, Handler("element", c, i))
  BY <1>8, BuiltinHandlers DEF HandlerOK, Handler, Wakers
<1>10. HandlerOK(w, h) /\ HandlerOK(w, g)
  BY <1>4, <1>5, <1>9
<1>11. h.k \notin Wakers /\ g.k \notin Wakers
  BY <1>4, <1>5 DEF Handler, Wakers
<1>12. Good(w) /\ (a = NoPair \/ PairOK(w, a))
  BY <1>3, <1>6
<1>13. Good(t) /\ Effect(w, t) /\ Nums(t) = Nums(w)
  BY <1>7, <1>8, <1>10, <1>11, <1>12, QuietThen
<1>14. Shape(t)
  BY <1>13 DEF Good
<1>15. Effect(s, t)
  BY <1>3, <1>8, <1>13, <1>14, EffectTrans
<1>. QED  BY <1>3, <1>13, <1>15

\* The equation that defines the function of AddElements, on the first n items.
Adds(s, c, kind, items, n, g) ==
  g = [i \in 0..n |-> IF i = 0 THEN s ELSE AddElement(g[i - 1], c, kind, i, items[i])]

\* The recursion in AddElements defines a function.
LEMMA AddsRecursion ==
  ASSUME NEW s, NEW c, NEW kind, NEW items, Len(items) \in Nat
  PROVE  \E g : Adds(s, c, kind, items, Len(items), g) /\ AddElements(s, c, kind, items) = g[Len(items)]
<1>. DEFINE Done == {n \in Nat : \E g : Adds(s, c, kind, items, n, g)}
<1>1. 0 \in Done
  <2>. DEFINE g == [i \in 0..0 |-> s]
  <2>1. Adds(s, c, kind, items, 0, g)
    BY DEF Adds
  <2>. QED  BY <2>1
<1>2. ASSUME NEW n \in Done PROVE n + 1 \in Done
  <2>1. PICK g : Adds(s, c, kind, items, n, g)
    OBVIOUS
  <2>2. PICK last : last = AddElement(g[n], c, kind, n + 1, items[n + 1])
    OBVIOUS
  <2>. DEFINE h == [i \in 0..(n + 1) |-> IF i = n + 1 THEN last ELSE g[i]]
  <2>3. \A i \in 0..n : h[i] = g[i]
    OBVIOUS
  <2>4. \A i \in 0..n : g[i] = IF i = 0 THEN s ELSE AddElement(g[i - 1], c, kind, i, items[i])
    BY <2>1 DEF Adds
  <2>5. ASSUME NEW i \in 0..(n + 1)
        PROVE  h[i] = IF i = 0 THEN s ELSE AddElement(h[i - 1], c, kind, i, items[i])
    <3>1. CASE i = n + 1
      <4>1. h[n + 1] = last /\ h[n] = g[n]
        BY <2>3
      <4>2. i - 1 = n /\ i # 0
        BY <3>1
      <4>. QED  BY <2>2, <3>1, <4>1, <4>2
    <3>2. CASE i \in 1..n
      <4>1. h[i] = g[i] /\ h[i - 1] = g[i - 1] /\ i # 0
        BY <3>2, <2>3
      <4>. QED  BY <3>2, <4>1, <2>4
    <3>3. CASE i = 0
      BY <3>3, <2>3, <2>4
    <3>. QED  BY <3>1, <3>2, <3>3
  <2>. HIDE DEF h
  <2>6. Adds(s, c, kind, items, n + 1, h)
    <3>1. h = [i \in 0..(n + 1) |-> h[i]]
      BY DEF h
    <3>. QED  BY <3>1, <2>5 DEF Adds
  <2>. QED  BY <2>6
<1>3. Done = Nat
  <2>. HIDE DEF Done
  <2>1. Done \subseteq Nat
    BY DEF Done
  <2>. QED  BY <1>1, <1>2, <2>1, NatInductive
<1>4. Len(items) \in Done
  BY <1>3
<1>5. PICK g : Adds(s, c, kind, items, Len(items), g)
  BY <1>4
<1>. DEFINE F == CHOOSE f : Adds(s, c, kind, items, Len(items), f)
<1>6. Adds(s, c, kind, items, Len(items), F)
  BY <1>5
<1>7. AddElements(s, c, kind, items) = F[Len(items)]
  BY DEF AddElements, Adds
<1>. QED  BY <1>6, <1>7

LEMMA AddElementsGood ==
  ASSUME NEW s, Good(s), NEW c \in Nums(s), NEW kind, NEW items, Len(items) \in Nat,
         \A i \in 1..Len(items) : items[i] \in Nums(s),
         NEW t, t = AddElements(s, c, kind, items)
  PROVE  Good(t) /\ Effect(s, t) /\ Nums(t) = Nums(s)
<1>1. PICK g : Adds(s, c, kind, items, Len(items), g) /\ AddElements(s, c, kind, items) = g[Len(items)]
  BY AddsRecursion
<1>2. \A i \in 0..Len(items) :
        g[i] = IF i = 0 THEN s ELSE AddElement(g[i - 1], c, kind, i, items[i])
  BY <1>1 DEF Adds
<1>. DEFINE Fine(n) == Good(g[n]) /\ Effect(s, g[n]) /\ Nums(g[n]) = Nums(s)
            Done == {n \in Nat : n <= Len(items) => Fine(n)}
<1>3. 0 \in Done
  <2>1. g[0] = s
    BY <1>2
  <2>2. Good(s) /\ Effect(s, s)
    BY EffectRefl DEF Good
  <2>3. Fine(0)
    BY <2>1, <2>2
  <2>. HIDE DEF Fine
  <2>. QED  BY <2>3
<1>4. ASSUME NEW n \in Done PROVE n + 1 \in Done
  <2>. SUFFICES ASSUME n + 1 <= Len(items) PROVE Fine(n + 1)
    BY <1>4
  <2>1. Fine(n) /\ n + 1 \in 1..Len(items)
    BY <1>4
  <2>2. PICK u : u = g[n]
    OBVIOUS
  <2>3. PICK w : w = g[n + 1]
    OBVIOUS
  <2>4. PICK p : p = items[n + 1]
    OBVIOUS
  <2>5. PICK i : i = n + 1
    OBVIOUS
  <2>6. w = AddElement(u, c, kind, i, p)
    <3>1. n + 1 \in 0..Len(items) /\ n + 1 # 0 /\ (n + 1) - 1 = n
      BY <2>1
    <3>. QED  BY <1>2, <2>2, <2>3, <2>4, <2>5, <3>1
  <2>7. Good(u) /\ Effect(s, u) /\ c \in Nums(u) /\ p \in Nums(u) /\ Nums(u) = Nums(s)
    BY <2>1, <2>2, <2>4
  <2>8. Good(w) /\ Effect(u, w) /\ Nums(w) = Nums(u)
    BY <2>6, <2>7, AddElementGood
  <2>9. Shape(s) /\ Shape(u) /\ Shape(w)
    BY <2>7, <2>8 DEF Good
  <2>10. Effect(s, w)
    BY <2>7, <2>8, <2>9, EffectTrans
  <2>. QED  BY <2>3, <2>7, <2>8, <2>10
<1>5. Done = Nat
  <2>. HIDE DEF Done
  <2>1. Done \subseteq Nat
    BY DEF Done
  <2>. QED  BY <1>3, <1>4, <2>1, NatInductive
<1>6. Fine(Len(items))
  BY <1>5
<1>. QED  BY <1>1, <1>6

LEMMA AfterElementsGood ==
  ASSUME NEW s, Good(s), NEW c \in Nums(s), NEW kind, NEW broken,
         NEW t, t = AfterElements(s, c, kind, broken)
  PROVE  Good(t) /\ Effect(s, t)
<1>1. PICK e : e = [s.promise[c].env EXCEPT !.left = s.promise[c].env.left - 1]
  OBVIOUS
<1>2. PICK s1 : s1 = WithEnv(s, c, e)
  OBVIOUS
<1>3. PICK a : a = <<c, 1>>
  OBVIOUS
<1>4. PICK x : x = <<"array", c>>
  OBVIOUS
<1>5. PICK b \in BOOLEAN : b = (kind = "any")
  OBVIOUS
<1>6. PICK y \in BOOLEAN : y = TRUE
  OBVIOUS
<1>7. t = Resolve(s, a, Thrown, y) \/ t = s \/ t = s1 \/ t = Resolve(s1, a, x, b)
  BY <1>1, <1>2, <1>3, <1>4, <1>5, <1>6 DEF AfterElements, WithEnv
<1>8. Good(s) /\ Effect(s, s) /\ Shape(s)
  BY EffectRefl DEF Good
<1>9. Good(s1) /\ Effect(s, s1) /\ Nums(s1) = Nums(s)
  BY <1>2, SetEnv
<1>10. ASSUME NEW u, Good(u), Effect(s, u), c \in Nums(u), NEW z, ValueOK(u, z), NEW r \in BOOLEAN,
              t = Resolve(u, a, z, r)
       PROVE  Good(t) /\ Effect(s, t)
  <2>1. Shape(u) /\ PairOK(u, a)
    BY <1>3, <1>10 DEF Good, PairOK, Shape, PromiseShape
  <2>2. Good(t) /\ Effect(u, t) /\ Nums(t) = Nums(u)
    BY <1>10, <2>1, ResolveGood
  <2>3. Shape(t)
    BY <2>2 DEF Good
  <2>4. Effect(s, t)
    BY <1>8, <1>10, <2>1, <2>2, <2>3, EffectTrans
  <2>. QED  BY <2>2, <2>4
<1>11. CASE t = Resolve(s, a, Thrown, y)
  <2>1. ValueOK(s, Thrown)
    BY DEF ValueOK, Thrown
  <2>. QED  BY <1>8, <1>10, <1>11, <2>1
<1>12. CASE t = s
  BY <1>8, <1>12
<1>13. CASE t = s1
  BY <1>9, <1>13
<1>14. CASE t = Resolve(s1, a, x, b)
  <2>1. ValueOK(s1, x) /\ c \in Nums(s1)
    BY <1>4, <1>9 DEF ValueOK
  <2>. QED  BY <1>9, <1>10, <1>14, <2>1
<1>. QED  BY <1>7, <1>11, <1>12, <1>13, <1>14

LEMMA CombineGood ==
  ASSUME NEW s, Good(s), NEW kind, NEW items, Len(items) \in Nat,
         \A i \in 1..Len(items) : items[i] \in Nums(s), NEW broken,
         NEW t, t = Combine(s, kind, items, broken)
  PROVE  Good(t) /\ Effect(s, t)
<1>1. PICK o \in BOOLEAN : o = FALSE
  OBVIOUS
<1>2. PICK s1 : s1 = NewPromise(s, o)
  OBVIOUS
<1>3. PICK c : c = Newest(s1)
  OBVIOUS
<1>4. PICK e : e = [kind |-> kind, items |-> items, left |-> 1,
                    values |-> [i \in DOMAIN items |-> <<FALSE, Undefined>>], called |-> {}]
  OBVIOUS
<1>5. PICK s2 : s2 = WithEnv(s1, c, e)
  OBVIOUS
<1>6. PICK s3 : s3 = AddElements(s2, c, kind, items)
  OBVIOUS
<1>7. t = AfterElements(s3, c, kind, broken)
  BY <1>1, <1>2, <1>3, <1>4, <1>5, <1>6 DEF Combine, WithEnv
<1>8. /\ Good(s1) /\ Effect(s, s1)
      /\ Len(s1.promise) = Len(s.promise) + 1 /\ Newest(s1) \in Nums(s1)
      /\ PairOK(s1, <<Newest(s1), 1>>) /\ s1.promise[Newest(s1)].open \subseteq {1}
  BY <1>2, NewPromiseGood
<1>9. Shape(s) /\ Shape(s1) /\ Grows(s, s1) /\ c \in Nums(s1)
  BY <1>3, <1>8 DEF Good, Effect
<1>10. Nums(s) \subseteq Nums(s1)
  BY <1>9, GrowsNums
<1>11. Good(s2) /\ Effect(s1, s2) /\ Nums(s2) = Nums(s1)
  BY <1>5, <1>8, <1>9, SetEnv
<1>12. c \in Nums(s2) /\ \A i \in 1..Len(items) : items[i] \in Nums(s2)
  BY <1>9, <1>10, <1>11
<1>13. Good(s3) /\ Effect(s2, s3) /\ Nums(s3) = Nums(s2)
  BY <1>6, <1>11, <1>12, AddElementsGood
<1>14. Good(t) /\ Effect(s3, t)
  <2>1. c \in Nums(s3) /\ Good(s3)
    BY <1>12, <1>13
  <2>. QED  BY <1>7, <2>1, AfterElementsGood
<1>15. Shape(s2) /\ Shape(s3) /\ Shape(t)
  BY <1>11, <1>13, <1>14 DEF Good
<1>16. Effect(s, s2)
  BY <1>8, <1>9, <1>11, <1>15, EffectTrans
<1>17. Effect(s, s3)
  BY <1>9, <1>13, <1>15, <1>16, EffectTrans
<1>18. Effect(s, t)
  BY <1>9, <1>14, <1>15, <1>17, EffectTrans
<1>. QED  BY <1>14, <1>18

(***************************************************************************)
(* Jobs.                                                                   *)
(***************************************************************************)
Taken(s) == [s EXCEPT !.queue = Tail(@)]

\* The first job is the only one that is gone.
LEMMA TakeJob ==
  ASSUME NEW s, Good(s), s.queue # <<>>, NEW job, job = Head(s.queue), NEW t, t = Taken(s)
  PROVE  /\ Shape(t) /\ Refs(t) /\ Larger(s, t) /\ SameFrames(s, t) /\ JobOK(t, job)
         /\ t.gen = s.gen /\ t.promise = s.promise /\ Nums(t) = Nums(s) /\ DOMAIN t = DOMAIN s
         /\ IsSeq(s.queue) /\ Len(s.queue) \in Nat \ {0} /\ DOMAIN s.queue = 1..Len(s.queue)
         /\ DOMAIN t.queue = 1..(Len(s.queue) - 1) /\ job = s.queue[1]
         /\ \A j \in 1..(Len(s.queue) - 1) : t.queue[j] = s.queue[j + 1]
<1>1. PICK q : q = s.queue
  OBVIOUS
<1>2. Shape(s) /\ Refs(s) /\ DOMAIN s = {"promise", "queue", "gen"} /\ IsSeq(q)
  BY <1>1 DEF Good, Shape
<1>3. /\ IsSeq(Tail(q)) /\ Len(Tail(q)) = Len(q) - 1 /\ Len(q) \in Nat \ {0}
      /\ DOMAIN Tail(q) = 1..(Len(q) - 1) /\ DOMAIN q = 1..Len(q)
      /\ \A i \in 1..(Len(q) - 1) : Tail(q)[i] = q[i + 1]
      /\ Head(q) = q[1]
  BY <1>1, <1>2, SeqTail
<1>4. t.queue = Tail(q) /\ t.gen = s.gen /\ t.promise = s.promise /\ DOMAIN t = DOMAIN s
  BY <1>1, <1>2 DEF Taken
<1>5. Nums(t) = Nums(s)
  BY <1>4 DEF Nums
<1>6. Shape(t)
  BY <1>2, <1>3, <1>4, <1>5 DEF Shape
<1>7. Larger(s, t) /\ SameFrames(s, t)
  BY <1>2, <1>4, <1>5, Numbered DEF Larger, SameFrames
<1>8. \A j \in DOMAIN t.queue : \E m \in DOMAIN s.queue : t.queue[j] = s.queue[m]
  <2>1. \A j \in 1..(Len(q) - 1) : j + 1 \in 1..Len(q)
    BY <1>3
  <2>. QED  BY <1>1, <1>3, <1>4, <2>1
<1>9. Refs(t)
  <2>1. \A p \in Nums(t) : \/ p \in Nums(s) /\ t.promise[p].result = s.promise[p].result
                           \/ ValueOK(t, t.promise[p].result)
    BY <1>4, <1>5
  <2>2. \A p \in Nums(t) : \A i \in DOMAIN t.promise[p].reactions :
           \/ p \in Nums(s) /\ \E m \in DOMAIN s.promise[p].reactions :
                                 t.promise[p].reactions[i] = s.promise[p].reactions[m]
           \/ ReactionOK(t, t.promise[p].reactions[i])
    BY <1>4, <1>5
  <2>3. \A i \in DOMAIN t.gen.queue :
           \/ \E m \in DOMAIN s.gen.queue : t.gen.queue[i] = s.gen.queue[m]
           \/ RequestOK(t, t.gen.queue[i])
    BY <1>4
  <2>. QED  BY <1>2, <1>6, <1>7, <1>8, <2>1, <2>2, <2>3, RefsKept
<1>10. JobOK(t, job)
  <2>1. 1 \in DOMAIN s.queue /\ job = s.queue[1]
    BY <1>1, <1>3
  <2>2. JobOK(s, job)
    BY <1>2, <2>1 DEF Refs
  <2>. QED  BY <1>2, <1>6, <1>7, <2>2, LargerRefs
<1>. QED  BY <1>1, <1>2, <1>3, <1>4, <1>5, <1>6, <1>7, <1>9, <1>10

LEMMA TakenSpots ==
  ASSUME NEW s, Good(s), s.queue # <<>>, NEW job, job = Head(s.queue), NEW t, t = Taken(s),
         NEW k, NEW f
  PROVE  /\ ~IsFor(job.h, k, f) => SameSpots(s, t, k, f)
         /\ IsFor(job.h, k, f) => <<0, 1>> \in Spots(s, k, f)
         /\ IsFor(job.h, k, f) /\ One(Spots(s, k, f)) => Spots(t, k, f) = {}
<1>1. /\ Nums(t) = Nums(s) /\ t.promise = s.promise /\ 0 \notin Nums(s)
      /\ Len(s.queue) \in Nat \ {0} /\ DOMAIN s.queue = 1..Len(s.queue)
      /\ DOMAIN t.queue = 1..(Len(s.queue) - 1) /\ job = s.queue[1]
      /\ \A j \in 1..(Len(s.queue) - 1) : t.queue[j] = s.queue[j + 1]
  BY TakeJob DEF Nums
<1>2. \A q \in Nums(s) : ReactionSpots(t, q, k, f) = ReactionSpots(s, q, k, f)
  BY <1>1 DEF ReactionSpots
<1>3. JobSpots(s, k, f) \subseteq 1..Len(s.queue) /\ JobSpots(t, k, f) \subseteq 1..(Len(s.queue) - 1)
  BY <1>1 DEF JobSpots
<1>4. \A j \in 1..(Len(s.queue) - 1) : j \in JobSpots(t, k, f) <=> j + 1 \in JobSpots(s, k, f)
  BY <1>1 DEF JobSpots
<1>5. 1 \in JobSpots(s, k, f) <=> IsFor(job.h, k, f)
  BY <1>1 DEF JobSpots
<1>6. ASSUME ~IsFor(job.h, k, f) PROVE SameSpots(s, t, k, f)
  <2>. DEFINE g == [x \in Spots(s, k, f) |-> IF x[1] = 0 THEN <<0, x[2] - 1>> ELSE x]
  <2>1. ASSUME NEW x \in Spots(s, k, f) PROVE g[x] \in Spots(t, k, f)
    <3>1. x = <<x[1], x[2]>>
      BY SpotsPairs
    <3>2. CASE x[1] = 0 /\ x[2] \in JobSpots(s, k, f)
      <4>1. x[2] \in 1..Len(s.queue) /\ x[2] # 1
        BY <1>3, <1>5, <1>6, <3>2
      <4>2. x[2] - 1 \in 1..(Len(s.queue) - 1) /\ (x[2] - 1) + 1 = x[2]
        BY <1>1, <4>1
      <4>3. x[2] - 1 \in JobSpots(t, k, f)
        BY <1>4, <3>2, <4>2
      <4>4. g[x] = <<0, x[2] - 1>>
        BY <3>2
      <4>. QED  BY <4>3, <4>4, InSpots
    <3>3. CASE x[1] \in Nums(s) /\ x[2] \in ReactionSpots(s, x[1], k, f)
      <4>1. g[x] = <<x[1], x[2]>>
        BY <1>1, <3>1, <3>3
      <4>. QED  BY <1>1, <1>2, <3>3, <4>1, InSpots
    <3>. QED  BY <3>1, <3>2, <3>3, InSpots
  <2>2. ASSUME NEW y \in Spots(t, k, f) PROVE \E x \in Spots(s, k, f) : g[x] = y
    <3>1. y = <<y[1], y[2]>>
      BY SpotsPairs
    <3>2. CASE y[1] = 0 /\ y[2] \in JobSpots(t, k, f)
      <4>1. y[2] \in 1..(Len(s.queue) - 1) /\ y[2] + 1 \in JobSpots(s, k, f) /\ (y[2] + 1) - 1 = y[2]
        BY <1>1, <1>3, <1>4, <3>2
      <4>2. <<0, y[2] + 1>> \in Spots(s, k, f)
        BY <4>1, InSpots
      <4>3. g[<<0, y[2] + 1>>] = <<0, y[2]>>
        BY <4>1, <4>2
      <4>. QED  BY <3>1, <3>2, <4>2, <4>3
    <3>3. CASE y[1] \in Nums(t) /\ y[2] \in ReactionSpots(t, y[1], k, f)
      <4>1. <<y[1], y[2]>> \in Spots(s, k, f)
        BY <1>1, <1>2, <3>3, InSpots
      <4>2. g[<<y[1], y[2]>>] = <<y[1], y[2]>>
        BY <1>1, <3>3, <4>1
      <4>. QED  BY <3>1, <4>1, <4>2
    <3>. QED  BY <3>1, <3>2, <3>3, InSpots
  <2>. HIDE DEF g
  <2>3. Spots(t, k, f) = {g[x] : x \in Spots(s, k, f)}
    BY <2>1, <2>2
  <2>. QED  BY <2>3, SpotsImage
<1>7. IsFor(job.h, k, f) => <<0, 1>> \in Spots(s, k, f)
  BY <1>5, InSpots
<1>8. ASSUME IsFor(job.h, k, f), One(Spots(s, k, f)) PROVE Spots(t, k, f) = {}
  <2>1. \A x \in Spots(s, k, f) : x = <<0, 1>>
    BY <1>7, <1>8 DEF One
  <2>2. ASSUME NEW y \in Spots(t, k, f) PROVE FALSE
    <3>1. y = <<y[1], y[2]>>
      BY SpotsPairs
    <3>2. CASE y[1] = 0 /\ y[2] \in JobSpots(t, k, f)
      <4>1. y[2] \in 1..(Len(s.queue) - 1) /\ y[2] + 1 \in JobSpots(s, k, f)
        BY <1>3, <1>4, <3>2
      <4>2. <<0, y[2] + 1>> \in Spots(s, k, f)
        BY <4>1, InSpots
      <4>3. y[2] + 1 = 1
        BY <2>1, <4>2
      <4>. QED  BY <1>1, <4>1, <4>3
    <3>3. CASE y[1] \in Nums(t) /\ y[2] \in ReactionSpots(t, y[1], k, f)
      <4>1. <<y[1], y[2]>> \in Spots(s, k, f)
        BY <1>1, <1>2, <3>3, InSpots
      <4>2. y[1] = 0
        BY <2>1, <4>1
      <4>. QED  BY <1>1, <3>3, <4>2
    <3>. QED  BY <3>1, <3>2, <3>3, InSpots
  <2>. QED  BY <2>2
<1>. QED  BY <1>6, <1>7, <1>8

LEMMA TakenResolvers ==
  ASSUME NEW s, Good(s), s.queue # <<>>, NEW job, job = Head(s.queue), NEW t, t = Taken(s),
         NEW p \in Nums(s)
  PROVE  /\ ~(job.k = "thenable" /\ job.pair[1] = p) => ResolverOK(t, p)
         /\ job.k = "thenable" /\ job.pair[1] = p =>
              t.promise[p].state = "pending" /\ NoResolver(t, p)
<1>1. /\ Nums(t) = Nums(s) /\ t.promise = s.promise
      /\ Len(s.queue) \in Nat \ {0} /\ DOMAIN s.queue = 1..Len(s.queue)
      /\ DOMAIN t.queue = 1..(Len(s.queue) - 1) /\ job = s.queue[1]
      /\ \A j \in 1..(Len(s.queue) - 1) : t.queue[j] = s.queue[j + 1]
  BY TakeJob
<1>2. Open(t, p) = Open(s, p) /\ t.promise[p].state = s.promise[p].state /\ ResolverOK(s, p)
  BY <1>1 DEF Open, Good
<1>3. Adopting(s, p) \subseteq 1..Len(s.queue) /\ Adopting(t, p) \subseteq 1..(Len(s.queue) - 1)
  BY <1>1 DEF Adopting
<1>4. \A j \in 1..(Len(s.queue) - 1) : j \in Adopting(t, p) <=> j + 1 \in Adopting(s, p)
  BY <1>1 DEF Adopting
<1>5. 1 \in Adopting(s, p) <=> job.k = "thenable" /\ job.pair[1] = p
  BY <1>1 DEF Adopting
<1>6. ASSUME Adopting(s, p) = {} PROVE Adopting(t, p) = {}
  BY <1>3, <1>4, <1>6
<1>7. ASSUME 1 \notin Adopting(s, p), One(Adopting(s, p)) PROVE One(Adopting(t, p))
  <2>1. PICK x \in Adopting(s, p) : Adopting(s, p) = {x}
    BY <1>7 DEF One
  <2>2. x \in 1..Len(s.queue) /\ x # 1
    BY <1>3, <1>7, <2>1
  <2>3. x - 1 \in 1..(Len(s.queue) - 1) /\ (x - 1) + 1 = x
    BY <1>1, <2>2
  <2>4. x - 1 \in Adopting(t, p)
    BY <1>4, <2>1, <2>3
  <2>5. \A y \in Adopting(t, p) : y = x - 1
    <3>. TAKE y \in Adopting(t, p)
    <3>1. y \in 1..(Len(s.queue) - 1) /\ y + 1 = x
      BY <1>3, <1>4, <2>1
    <3>. QED  BY <1>1, <3>1
  <2>6. Adopting(t, p) = {x - 1}
    BY <2>4, <2>5
  <2>. QED  BY <2>4, <2>6 DEF One
<1>8. ASSUME 1 \in Adopting(s, p), One(Adopting(s, p)) PROVE Adopting(t, p) = {}
  <2>1. Adopting(s, p) = {1}
    BY <1>8 DEF One
  <2>. QED  BY <1>1, <1>3, <1>4, <2>1
<1>9. ASSUME 1 \notin Adopting(s, p) PROVE ResolverOK(t, p)
  BY <1>2, <1>6, <1>7, <1>9 DEF ResolverOK, OneResolver, NoResolver
<1>10. ASSUME 1 \in Adopting(s, p) PROVE t.promise[p].state = "pending" /\ NoResolver(t, p)
  BY <1>2, <1>8, <1>10 DEF ResolverOK, OneResolver, NoResolver
<1>. QED  BY <1>5, <1>9, <1>10

LEMMA TakeReaction ==
  ASSUME NEW s, Good(s), s.queue # <<>>, NEW job, job = Head(s.queue), job.k = "reaction",
         NEW t, t = Taken(s)
  PROVE  /\ Good(t) /\ JobOK(t, job) /\ Larger(s, t) /\ SameFrames(s, t)
         /\ t.gen = s.gen /\ Nums(t) = Nums(s)
         /\ job.h.k \notin Wakers => \A k \in Wakers, f \in Nat : SameSpots(s, t, k, f)
<1>1. /\ Shape(t) /\ Refs(t) /\ Larger(s, t) /\ SameFrames(s, t) /\ JobOK(t, job)
      /\ t.gen = s.gen /\ Nums(t) = Nums(s)
  BY TakeJob
<1>2. \A p \in Nums(s) : ResolverOK(t, p)
  BY TakenResolvers
<1>3. Good(t)
  BY <1>1, <1>2 DEF Good
<1>4. ASSUME job.h.k \notin Wakers PROVE \A k \in Wakers, f \in Nat : SameSpots(s, t, k, f)
  BY <1>4, TakenSpots DEF IsFor
<1>. QED  BY <1>1, <1>3, <1>4

\* The job that is taken is the next one of its promise, if it is one of it.
LEMMA LinedShift ==
  ASSUME NEW s, NEW t, NEW q, NEW L \in Nat \ {0}, DOMAIN s.queue = 1..L, DOMAIN t.queue = 1..(L - 1),
         \A j \in 1..(L - 1) : t.queue[j] = s.queue[j + 1],
         Lined(s, q), IsSeq(s.promise[q].reactions),
         t.promise[q].state = s.promise[q].state, t.promise[q].reactions = s.promise[q].reactions,
         t.promise[q].thens = s.promise[q].thens,
         t.promise[q].ran = IF s.queue[1].from = q THEN s.promise[q].ran + 1 ELSE s.promise[q].ran
  PROVE  Lined(t, q)
<1>0. PICK n : n = Queued(s.promise[q])
  OBVIOUS
<1>1. PICK x \in Nat : n = Queued(s.promise[q]) /\ x = s.promise[q].ran
  BY <1>0 DEF Lined
<1>2. Queued(t.promise[q]) = n
  BY <1>1 DEF Queued
<1>3. JobsOf(s, q) \subseteq 1..L /\ JobsOf(t, q) \subseteq 1..(L - 1)
  BY DEF JobsOf
<1>4. \A j \in 1..(L - 1) : /\ j \in JobsOf(t, q) <=> j + 1 \in JobsOf(s, q)
                            /\ j + 1 \in 1..L
  BY DEF JobsOf
<1>5. 1 \in JobsOf(s, q) <=> s.queue[1].from = q
  BY DEF JobsOf
<1>6. /\ x <= n
      /\ \A j \in JobsOf(s, q) : s.queue[j].id \in (x + 1)..n
      /\ \A m \in (x + 1)..n : \E j \in JobsOf(s, q) : s.queue[j].id = m
      /\ \A i, j \in JobsOf(s, q) : i < j => s.queue[i].id < s.queue[j].id
  BY <1>1 DEF Lined
<1>7. n \in Int
  <2>1. s.promise[q].thens \in Nat /\ Len(s.promise[q].reactions) \in Nat
    BY SeqBasics DEF Lined
  <2>. QED  BY <1>1, <2>1 DEF Queued
<1>8. PICK y \in Nat :
        /\ y = t.promise[q].ran /\ y <= n
        /\ \A j \in JobsOf(s, q) \ {1} : s.queue[j].id \in (y + 1)..n
        /\ \A m \in (y + 1)..n : \E j \in JobsOf(s, q) \ {1} : s.queue[j].id = m
  <2>1. CASE s.queue[1].from # q
    <3>1. x = t.promise[q].ran /\ JobsOf(s, q) \ {1} = JobsOf(s, q)
      BY <1>1, <1>5, <2>1
    <3>. QED  BY <1>6, <3>1
  <2>2. CASE s.queue[1].from = q
    <3>1. 1 \in JobsOf(s, q) /\ s.queue[1].id \in (x + 1)..n /\ x + 1 = t.promise[q].ran
      BY <1>1, <1>5, <1>6, <2>2
    <3>2. x + 1 \in (x + 1)..n
      BY <1>7, <3>1
    <3>3. PICK a \in JobsOf(s, q) : s.queue[a].id = x + 1
      BY <1>6, <3>2
    <3>4. a = 1 \/ 1 < a
      BY <1>3
    <3>5. s.queue[1].id = x + 1
      BY <1>6, <3>1, <3>3, <3>4
    <3>6. ASSUME NEW b \in JobsOf(s, q) \ {1} PROVE s.queue[b].id \in (x + 1 + 1)..n
      <4>1. b \in 1..L /\ 1 < b
        BY <1>3
      <4>2. s.queue[1].id < s.queue[b].id /\ s.queue[b].id \in (x + 1)..n
        BY <1>6, <3>1, <4>1
      <4>. QED  BY <1>7, <3>5, <4>2
    <3>7. ASSUME NEW m \in (x + 1 + 1)..n PROVE \E b \in JobsOf(s, q) \ {1} : s.queue[b].id = m
      <4>1. m \in (x + 1)..n /\ m # x + 1
        BY <1>7
      <4>2. PICK b \in JobsOf(s, q) : s.queue[b].id = m
        BY <1>6, <4>1
      <4>. QED  BY <3>5, <4>1, <4>2
    <3>8. x + 1 \in Nat /\ x + 1 <= n
      BY <1>7, <3>2
    <3>. QED  BY <3>1, <3>6, <3>7, <3>8
  <2>. QED  BY <2>1, <2>2
<1>9. ASSUME NEW j \in JobsOf(t, q)
      PROVE  j + 1 \in JobsOf(s, q) \ {1} /\ t.queue[j] = s.queue[j + 1] /\ j \in 1..(L - 1)
  <2>1. j \in 1..(L - 1) /\ j + 1 # 1
    BY <1>3
  <2>. QED  BY <1>4, <2>1
<1>10. \A j \in JobsOf(t, q) : t.queue[j].id \in (y + 1)..n
  BY <1>8, <1>9
<1>11. ASSUME NEW m \in (y + 1)..n PROVE \E j \in JobsOf(t, q) : t.queue[j].id = m
  <2>1. PICK b \in JobsOf(s, q) \ {1} : s.queue[b].id = m
    BY <1>8
  <2>2. b - 1 \in 1..(L - 1) /\ (b - 1) + 1 = b
    BY <1>3
  <2>3. b - 1 \in JobsOf(t, q) /\ t.queue[b - 1] = s.queue[b]
    BY <1>4, <2>2
  <2>. QED  BY <2>1, <2>3
<1>12. ASSUME NEW i \in JobsOf(t, q), NEW j \in JobsOf(t, q), i < j
       PROVE  t.queue[i].id < t.queue[j].id
  <2>1. i + 1 \in JobsOf(s, q) /\ j + 1 \in JobsOf(s, q) /\ i + 1 < j + 1
    BY <1>9, <1>12
  <2>2. s.queue[i + 1].id < s.queue[j + 1].id
    BY <1>6, <2>1
  <2>. QED  BY <1>9, <2>2
<1>13. /\ t.promise[q].thens \in Nat
       /\ t.promise[q].state # "pending" => t.promise[q].reactions = <<>>
       /\ \A i \in DOMAIN t.promise[q].reactions : t.promise[q].reactions[i].id = n + i
  BY <1>1 DEF Lined
<1>14. t.promise[q].ran = y /\ y <= n
  BY <1>8
<1>. QED  BY <1>2, <1>10, <1>11, <1>12, <1>13, <1>14 DEF Lined

\* The job that is taken was the only one to resume its body.
LEMMA TakeWaker ==
  ASSUME NEW s, Good(s), s.queue # <<>>, NEW job, job = Head(s.queue), job.k = "reaction",
         NEW t, t = Taken(s), Awake(s, "none", 0), NEW k0 \in Wakers, NEW f0, IsFor(job.h, k0, f0)
  PROVE  f0 \in Nat /\ IsBody(t, k0, f0) /\ Suspended(t, k0, f0) /\ Awake(t, k0, f0)
<1>1. /\ JobOK(t, job) /\ t.gen = s.gen /\ t.promise = s.promise /\ Nums(t) = Nums(s)
  BY TakeJob
<1>2. IsBody(s, k0, f0)
  <2>1. HandlerOK(t, job.h)
    BY <1>1 DEF JobOK
  <2>. QED  BY <1>1, <2>1 DEF HandlerOK, IsFor, IsBody, Wakers
<1>3. f0 \in Nat
  BY <1>2 DEF IsBody, Nums
<1>4. Woken(s, k0, f0, Suspended(s, k0, f0))
  BY <1>2, <1>3 DEF Awake, Wakers
<1>5. <<0, 1>> \in Spots(s, k0, f0)
  BY TakenSpots
<1>6. Suspended(s, k0, f0) /\ One(Spots(s, k0, f0))
  BY <1>4, <1>5 DEF Woken
<1>7. Spots(t, k0, f0) = {}
  BY <1>6, TakenSpots
<1>8. \A k, f : Suspended(t, k, f) <=> Suspended(s, k, f)
  BY <1>1 DEF Suspended
<1>9. ASSUME NEW k \in Wakers, NEW f \in Nat, IsBody(t, k, f), ~(k = k0 /\ f = f0)
      PROVE  Woken(t, k, f, Suspended(t, k, f))
  <2>1. IsBody(s, k, f)
    BY <1>1, <1>9 DEF IsBody
  <2>2. Woken(s, k, f, Suspended(s, k, f))
    BY <2>1 DEF Awake, Wakers
  <2>3. SameSpots(s, t, k, f)
    <3>1. ~IsFor(job.h, k, f)
      BY <1>9 DEF IsFor
    <3>. QED  BY <3>1, TakenSpots
  <2>. QED  BY <1>8, <2>2, <2>3 DEF Woken, SameSpots
<1>10. Awake(t, k0, f0)
  BY <1>7, <1>9 DEF Awake
<1>11. IsBody(t, k0, f0)
  BY <1>1, <1>2 DEF IsBody
<1>. QED  BY <1>3, <1>6, <1>8, <1>10, <1>11

LEMMA TakeThenable ==
  ASSUME NEW s, Good(s), s.queue # <<>>, NEW job, job = Head(s.queue), job.k = "thenable",
         NEW t, t = Taken(s), NEW p, p = job.pair[1]
  PROVE  Flux(t, p) /\ Effect(s, t) /\ JobOK(t, job)
<1>1. /\ Shape(t) /\ Refs(t) /\ Larger(s, t) /\ SameFrames(s, t) /\ JobOK(t, job)
      /\ t.gen = s.gen /\ Nums(t) = Nums(s)
  BY TakeJob
<1>2. p \in Nums(s) /\ job.h.k \notin Wakers
  BY <1>1 DEF JobOK, NoHandler, Handler, Wakers
<1>3. t.promise[p].state = "pending" /\ NoResolver(t, p)
  BY <1>2, TakenResolvers
<1>4. \A q \in Nums(s) \ {p} : ResolverOK(t, q)
  BY TakenResolvers
<1>5. Flux(t, p)
  BY <1>1, <1>2, <1>3, <1>4 DEF Flux
<1>6. \A k \in Wakers, f \in Nat : SameSpots(s, t, k, f)
  BY <1>2, TakenSpots DEF IsFor
<1>7. InOrder(s) => InOrder(t)
  <2>. SUFFICES ASSUME InOrder(s), NEW q \in Nums(s)
                PROVE  Lined(t, q)
    BY <1>1 DEF InOrder
  <2>1. PICK L \in Nat \ {0} :
          /\ DOMAIN s.queue = 1..L /\ DOMAIN t.queue = 1..(L - 1) /\ job = s.queue[1]
          /\ \A j \in 1..(L - 1) : t.queue[j] = s.queue[j + 1]
          /\ t.promise = s.promise
    BY TakeJob
  <2>2. s.queue[1].from # q
    BY <1>1, <2>1 DEF JobOK, Nums
  <2>3. Lined(s, q) /\ IsSeq(s.promise[q].reactions)
    BY DEF InOrder, Good, Shape, PromiseShape
  <2>4. t.promise[q] = s.promise[q]
    BY <2>1
  <2>. QED  BY <2>1, <2>2, <2>3, <2>4, LinedShift
<1>. QED  BY <1>1, <1>5, <1>6, <1>7 DEF Effect, Grows

WithPair(s, p) == [s EXCEPT !.promise[p].already_resolved = Append(@, FALSE)]
WithOpen(s, p, i) == [s EXCEPT !.promise[p].open = @ \cup {i}]

\* js_create_resolving_functions for a promise that has no resolver.
LEMMA Reopened ==
  ASSUME NEW s, NEW p, Flux(s, p), NEW t, t = WithPair(s, p),
         NEW i, i = Len(t.promise[p].already_resolved)
  PROVE  Good(t) /\ Effect(s, t) /\ Nums(t) = Nums(s) /\ PairOK(t, <<p, i>>)
<1>1. /\ Shape(s) /\ Refs(s) /\ p \in Nums(s) /\ DOMAIN s = {"promise", "queue", "gen"}
      /\ s.promise[p].state = "pending" /\ NoResolver(s, p) /\ IsSeq(s.promise)
      /\ \A q \in Nums(s) \ {p} : ResolverOK(s, q)
  BY DEF Flux, Shape
<1>2. DOMAIN s.promise = Nums(s) /\ PromiseShape(s.promise[p])
  BY <1>1, Numbered DEF Shape
<1>3. PICK ar : ar = s.promise[p].already_resolved
  OBVIOUS
<1>4. PICK no \in BOOLEAN : no = FALSE
  OBVIOUS
<1>5. PICK br : br = Append(ar, no)
  OBVIOUS
<1>6. ar \in Seq(BOOLEAN) /\ IsSeq(ar) /\ DOMAIN s.promise[p] = PromiseFields
  BY <1>2, <1>3 DEF PromiseShape, IsSeq
<1>7. /\ Len(br) = Len(ar) + 1 /\ DOMAIN br = 1..(Len(ar) + 1)
      /\ \A m \in 1..Len(ar) : br[m] = ar[m]
      /\ br[Len(ar) + 1] = no
  BY <1>5, <1>6, SeqAppend
<1>8. br \in Seq(BOOLEAN) /\ Len(ar) \in Nat /\ DOMAIN ar = 1..Len(ar)
  BY <1>5, <1>6, AppendProperties, LenProperties
<1>9. PICK r : r = [s.promise[p] EXCEPT !.already_resolved = br]
  OBVIOUS
<1>10. /\ DOMAIN r = PromiseFields /\ r.state = s.promise[p].state /\ r.result = s.promise[p].result
       /\ r.reactions = s.promise[p].reactions /\ r.open = s.promise[p].open
       /\ r.already_resolved = br /\ r.frame = s.promise[p].frame
       /\ r.thens = s.promise[p].thens /\ r.ran = s.promise[p].ran
  BY <1>6, <1>9 DEF PromiseFields
<1>11. /\ DOMAIN t = DOMAIN s /\ t.queue = s.queue /\ t.gen = s.gen
       /\ t.promise = [s.promise EXCEPT ![p] = r]
  BY <1>1, <1>3, <1>4, <1>5, <1>9 DEF WithPair
<1>12. /\ IsSeq(t.promise) /\ Len(t.promise) = Len(s.promise) /\ t.promise[p] = r
       /\ \A q \in Nums(s) : q # p => t.promise[q] = s.promise[q]
  BY <1>1, <1>2, <1>11, SeqExcept
<1>13. Nums(t) = Nums(s)
  BY <1>12 DEF Nums
<1>14. DOMAIN ar \subseteq DOMAIN br /\ 1 \in DOMAIN br
  BY <1>7, <1>8
<1>15. PromiseShape(r)
  BY <1>2, <1>3, <1>8, <1>10, <1>14 DEF PromiseShape
<1>16. Shape(t)
  <2>1. \A q \in Nums(t) : PromiseShape(t.promise[q])
    BY <1>1, <1>12, <1>13, <1>15 DEF Shape
  <2>. QED  BY <1>1, <1>11, <1>12, <2>1 DEF Shape
<1>17. Larger(s, t)
  <2>1. \A q \in Nums(s) : DOMAIN s.promise[q].already_resolved \subseteq DOMAIN t.promise[q].already_resolved
    BY <1>3, <1>10, <1>12, <1>14
  <2>2. Len(s.promise) <= Len(t.promise)
    BY <1>1, <1>12, Numbered
  <2>. QED  BY <2>1, <2>2 DEF Larger
<1>18. \A q \in Nums(s) : /\ t.promise[q].result = s.promise[q].result
                          /\ t.promise[q].reactions = s.promise[q].reactions
                          /\ t.promise[q].frame = s.promise[q].frame
                          /\ t.promise[q].state = s.promise[q].state
  BY <1>10, <1>12
<1>19. Refs(t)
  <2>1. \A q \in Nums(t) : \/ q \in Nums(s) /\ t.promise[q].result = s.promise[q].result
                           \/ ValueOK(t, t.promise[q].result)
    BY <1>13, <1>18
  <2>2. \A q \in Nums(t) : \A m \in DOMAIN t.promise[q].reactions :
           \/ q \in Nums(s) /\ \E n \in DOMAIN s.promise[q].reactions :
                                 t.promise[q].reactions[m] = s.promise[q].reactions[n]
           \/ ReactionOK(t, t.promise[q].reactions[m])
    BY <1>13, <1>18
  <2>3. \A j \in DOMAIN t.queue : \/ \E m \in DOMAIN s.queue : t.queue[j] = s.queue[m]
                                  \/ JobOK(t, t.queue[j])
    BY <1>11
  <2>4. \A m \in DOMAIN t.gen.queue :
           \/ \E n \in DOMAIN s.gen.queue : t.gen.queue[m] = s.gen.queue[n]
           \/ RequestOK(t, t.gen.queue[m])
    BY <1>11
  <2>. QED  BY <1>1, <1>16, <1>17, <2>1, <2>2, <2>3, <2>4, RefsKept
<1>20. \A q \in Nums(s) : Adopting(t, q) = Adopting(s, q)
  BY <1>11 DEF Adopting
<1>21. \A q \in Nums(s) \ {p} : ResolverOK(t, q)
  <2>1. \A q \in Nums(s) \ {p} : Open(t, q) = Open(s, q)
    BY <1>12 DEF Open
  <2>. QED  BY <1>1, <1>18, <1>20, <2>1 DEF ResolverOK, OneResolver, NoResolver
<1>22. ResolverOK(t, p)
  <2>1. \A m \in 1..Len(ar) : ar[m]
    BY <1>1, <1>3, <1>8 DEF NoResolver, Open
  <2>2. \A m \in DOMAIN br : ~br[m] <=> m = Len(ar) + 1
    BY <1>4, <1>7, <1>8, <2>1
  <2>3. Len(ar) + 1 \in DOMAIN br
    BY <1>7, <1>8
  <2>4. Open(t, p) = {m \in DOMAIN br : ~br[m]}
    BY <1>10, <1>12 DEF Open
  <2>5. Open(t, p) = {Len(ar) + 1}
    BY <2>2, <2>3, <2>4
  <2>. QED  BY <1>1, <1>18, <1>20, <2>5 DEF ResolverOK, OneResolver, NoResolver, One
<1>23. Good(t)
  BY <1>13, <1>16, <1>19, <1>21, <1>22 DEF Good
<1>24. ASSUME NEW k, NEW f PROVE Spots(t, k, f) = Spots(s, k, f) /\ SameSpots(s, t, k, f)
  <2>1. JobSpots(t, k, f) = JobSpots(s, k, f)
    BY <1>11 DEF JobSpots
  <2>2. \A q \in Nums(s) : ReactionSpots(t, q, k, f) = ReactionSpots(s, q, k, f)
    BY <1>18 DEF ReactionSpots
  <2>. QED  BY <1>13, <2>1, <2>2, SpotsEqual
<1>25. Effect(s, t)
  <2>1. SameFrames(s, t)
    BY <1>13, <1>18 DEF SameFrames
  <2>2. \A q \in Nums(s) : Recorded(s, t, q)
    BY <1>10, <1>12 DEF Recorded
  <2>3. InOrder(s) => InOrder(t)
    BY <1>11, <1>13, <2>2, SameOrder
  <2>. QED  BY <1>11, <1>17, <1>24, <2>1, <2>3 DEF Effect, Grows
<1>26. PairOK(t, <<p, i>>)
  BY <1>1, <1>7, <1>8, <1>10, <1>12, <1>13 DEF PairOK
<1>. QED  BY <1>13, <1>23, <1>25, <1>26

LEMMA OpenGood ==
  ASSUME NEW s, Good(s), NEW p, NEW i, PairOK(s, <<p, i>>), NEW t, t = WithOpen(s, p, i)
  PROVE  Good(t) /\ Effect(s, t) /\ Nums(t) = Nums(s)
<1>1. /\ Shape(s) /\ DOMAIN s = {"promise", "queue", "gen"} /\ DOMAIN s.promise = Nums(s)
      /\ IsSeq(s.promise) /\ p \in Nums(s) /\ i \in DOMAIN s.promise[p].already_resolved
      /\ IsSeq(s.gen.queue)
  BY Numbered DEF Good, Shape, PairOK
<1>2. \A q \in Nums(s) : PromiseShape(s.promise[q])
  BY <1>1 DEF Shape
<1>3. PICK r : r = [s.promise[p] EXCEPT !.open = s.promise[p].open \cup {i}]
  OBVIOUS
<1>4. /\ DOMAIN r = DOMAIN s.promise[p] /\ r.state = s.promise[p].state /\ r.result = s.promise[p].result
      /\ r.reactions = s.promise[p].reactions /\ r.open = s.promise[p].open \cup {i}
      /\ r.already_resolved = s.promise[p].already_resolved /\ r.frame = s.promise[p].frame
      /\ r.thens = s.promise[p].thens /\ r.ran = s.promise[p].ran
  BY <1>1, <1>2, <1>3 DEF PromiseShape, PromiseFields
<1>5. /\ DOMAIN t = DOMAIN s /\ t.queue = s.queue /\ t.gen = s.gen
      /\ t.promise = [s.promise EXCEPT ![p] = r]
  BY <1>1, <1>3 DEF WithOpen
<1>6. /\ IsSeq(t.promise) /\ Len(t.promise) = Len(s.promise) /\ t.promise[p] = r
      /\ \A q \in Nums(s) : q # p => t.promise[q] = s.promise[q]
  BY <1>1, <1>5, SeqExcept
<1>7. \A q \in Nums(s) : t.promise[q].open \subseteq DOMAIN t.promise[q].already_resolved
  BY <1>1, <1>2, <1>4, <1>6 DEF PromiseShape
<1>8. Tweaked(s, t) /\ SameCounts(s, t)
  BY <1>1, <1>4, <1>5, <1>6, <1>7 DEF Tweaked, SameCounts
<1>9. t.gen = s.gen /\ \A q \in Nums(s) : t.promise[q].frame = s.promise[q].frame
  BY <1>4, <1>5, <1>6
<1>. QED  BY <1>8, <1>9, Bookkeeping

LEMMA RunThenableGood ==
  ASSUME NEW s, NEW job, NEW p, p = job.pair[1], Flux(s, p), JobOK(s, job), job.k = "thenable",
         NEW out, NEW v, ValueOK(s, v), NEW t, t = RunThenable(s, job, out, v)
  PROVE  Good(t) /\ Effect(s, t)
<1>1. PICK s1 : s1 = WithPair(s, p)
  OBVIOUS
<1>2. PICK i : i = Len(s1.promise[p].already_resolved)
  OBVIOUS
<1>3. PICK s2 : s2 = WithOpen(s1, p, i)
  OBVIOUS
<1>4. PICK h : h = Handler("pair", p, i)
  OBVIOUS
<1>5. Good(s1) /\ Effect(s, s1) /\ Nums(s1) = Nums(s) /\ PairOK(s1, <<p, i>>)
  BY <1>1, <1>2, Reopened
<1>6. Good(s2) /\ Effect(s1, s2) /\ Nums(s2) = Nums(s1)
  BY <1>3, <1>5, OpenGood
<1>7. Shape(s) /\ Shape(s1) /\ Shape(s2)
  BY <1>5, <1>6 DEF Flux, Good
<1>8. PICK a : a = NoPair
  OBVIOUS
<1>9. PICK b : b = <<p, i>>
  OBVIOUS
<1>10. PICK y \in BOOLEAN : y = TRUE
  OBVIOUS
<1>11. \/ job.arg # Thenable /\ t = PerformThen(s1, job.arg[2], h, h, a)
       \/ t = Resolve(s2, b, v, y)
       \/ t = s2
  BY <1>1, <1>2, <1>3, <1>4, <1>8, <1>9, <1>10 DEF RunThenable, WithPair, WithOpen
<1>12. Effect(s, s2)
  BY <1>5, <1>6, <1>7, EffectTrans
<1>13. CASE job.arg # Thenable /\ t = PerformThen(s1, job.arg[2], h, h, a)
  <2>1. PICK q : q = job.arg[2]
    OBVIOUS
  <2>2. q \in Nums(s1)
    BY <1>5, <1>13, <2>1 DEF JobOK, ValueOK
  <2>3. h.k \notin Wakers /\ HandlerOK(s1, h)
    BY <1>4, <1>5, BuiltinHandlers DEF Handler, HandlerOK, Wakers
  <2>4. t = PerformThen(s1, q, h, h, a) /\ (a = NoPair \/ PairOK(s1, a)) /\ Good(s1)
    BY <1>5, <1>8, <1>13, <2>1
  <2>5. Good(t) /\ Effect(s1, t) /\ Nums(t) = Nums(s1)
    BY <2>2, <2>3, <2>4, QuietThen
  <2>6. Shape(t)
    BY <2>5 DEF Good
  <2>7. Effect(s, t)
    BY <1>5, <1>7, <2>5, <2>6, EffectTrans
  <2>. QED  BY <2>5, <2>7
<1>14. CASE t = Resolve(s2, b, v, y)
  <2>1. Grows(s, s2)
    BY <1>12 DEF Effect
  <2>2. ValueOK(s2, v)
    BY <1>7, <2>1, Grown
  <2>3. PairOK(s2, b)
    <3>1. Grows(s1, s2)
      BY <1>6 DEF Effect
    <3>. QED  BY <1>5, <1>7, <1>9, <3>1, Grown
  <2>4. Good(s2)
    BY <1>6
  <2>5. Good(t) /\ Effect(s2, t) /\ Nums(t) = Nums(s2)
    BY <1>14, <2>2, <2>3, <2>4, ResolveGood
  <2>6. Shape(t)
    BY <2>5 DEF Good
  <2>7. Effect(s, t)
    BY <1>7, <1>12, <2>5, <2>6, EffectTrans
  <2>. QED  BY <2>5, <2>7
<1>15. CASE t = s2
  BY <1>6, <1>12, <1>15
<1>. QED  BY <1>11, <1>13, <1>14, <1>15

\* What a handler returned or threw.
CallOK(s, r) ==
  Good(r.s) /\ Grows(s, r.s) /\ ValueOK(r.s, r.v) /\ r.rej \in BOOLEAN

LEMMA CallFinallyGood ==
  ASSUME NEW s, Good(s), NEW job, ValueOK(s, job.arg), NEW out, NEW v, ValueOK(s, v),
         NEW r, r = CallFinally(s, job, out, v)
  PROVE  CallOK(s, r) /\ Effect(s, r.s)
<1>1. PICK s1 : s1 = PromiseResolve(s, v)
  OBVIOUS
<1>2. PICK p : p = ResolvedTo(s, v)
  OBVIOUS
<1>3. PICK h : h = Thunk(IF job.rej THEN "thrower" ELSE "value_thunk", job.arg)
  OBVIOUS
<1>4. PICK g : g = NoHandler
  OBVIOUS
<1>5. PICK s2 : s2 = Then(s1, p, h, g)
  OBVIOUS
<1>6. r = IF out = "throw" THEN Throws(s, v) ELSE Returns(s2, Promise(Newest(s2)))
  BY <1>1, <1>2, <1>3, <1>4, <1>5 DEF CallFinally
<1>7. Good(s1) /\ Effect(s, s1) /\ p \in Nums(s1)
  BY <1>1, <1>2, PromiseResolveGood
<1>8. Shape(s) /\ Shape(s1) /\ Grows(s, s1)
  BY <1>7 DEF Good, Effect
<1>9. ValueOK(s1, job.arg)
  BY <1>8, Grown
<1>10. HandlerOK(s1, h) /\ HandlerOK(s1, g) /\ h.k \notin Wakers /\ g.k \notin Wakers
  BY <1>3, <1>4, <1>9, BuiltinHandlers DEF HandlerOK, Thunk, Wakers, NoHandler, Handler
<1>11. Good(s2) /\ Effect(s1, s2) /\ Newest(s2) \in Nums(s2)
  BY <1>5, <1>7, <1>10, ThenGood
<1>12. Shape(s2)
  BY <1>11 DEF Good
<1>13. Effect(s, s2)
  BY <1>7, <1>8, <1>11, <1>12, EffectTrans
<1>14. CASE out = "throw"
  <2>1. r.s = s /\ r.v = v /\ r.rej = TRUE
    BY <1>6, <1>14 DEF Throws
  <2>2. Effect(s, s)
    BY <1>8, EffectRefl
  <2>. QED  BY <2>1, <2>2 DEF CallOK, Effect
<1>15. CASE out # "throw"
  <2>1. r.s = s2 /\ r.v = Promise(Newest(s2)) /\ r.rej = FALSE
    BY <1>6, <1>15 DEF Returns
  <2>2. ValueOK(s2, Promise(Newest(s2)))
    BY <1>11 DEF ValueOK, Promise
  <2>. QED  BY <1>11, <1>13, <2>1, <2>2 DEF CallOK, Effect
<1>. QED  BY <1>14, <1>15

\* A handler that resumes no body.
LEMMA QuietHandler ==
  ASSUME NEW s, Good(s), NEW job, JobOK(s, job), job.k = "reaction",
         job.h.k \notin Wakers,
         NEW out, NEW v, ValueOK(s, v), NEW r, r = CallHandler(s, job, out, v)
  PROVE  CallOK(s, r) /\ Effect(s, r.s)
<1>1. HandlerOK(s, job.h) /\ ValueOK(s, job.arg) /\ ValueOK(s, job.h.v) /\ job.rej \in BOOLEAN
  BY DEF JobOK, HandlerOK
<1>2. Effect(s, s) /\ Grows(s, s)
  BY EffectRefl DEF Good, Effect
<1>3. ASSUME NEW x, ValueOK(s, x), r = Returns(s, x) \/ r = Throws(s, x)
      PROVE  CallOK(s, r) /\ Effect(s, r.s)
  <2>1. r.s = s /\ r.v = x /\ r.rej \in BOOLEAN
    <3>1. CASE r = Returns(s, x)
      BY <3>1 DEF Returns
    <3>2. CASE r = Throws(s, x)
      BY <3>2 DEF Throws
    <3>. QED  BY <1>3, <3>1, <3>2
  <2>. QED  BY <1>2, <1>3, <2>1 DEF CallOK
<1>4. ASSUME NEW t, Good(t), Effect(s, t), r = Returns(t, Undefined)
      PROVE  CallOK(s, r) /\ Effect(s, r.s)
  <2>1. r.s = t /\ r.v = Undefined /\ r.rej \in BOOLEAN
    BY <1>4 DEF Returns
  <2>2. ValueOK(t, Undefined)
    BY BuiltinHandlers
  <2>. QED  BY <1>4, <2>1, <2>2 DEF CallOK, Effect
<1>5. CASE job.h.k = "none"
  BY <1>1, <1>3, <1>5 DEF CallHandler
<1>6. CASE job.h.k = "script"
  BY <1>3, <1>6 DEF CallHandler
<1>7. CASE job.h.k = "finally"
  <2>1. r = CallFinally(s, job, out, v)
    BY <1>7 DEF CallHandler
  <2>. QED  BY <1>1, <2>1, CallFinallyGood
<1>8. CASE job.h.k = "value_thunk"
  BY <1>1, <1>3, <1>8 DEF CallHandler
<1>9. CASE job.h.k = "thrower"
  BY <1>1, <1>3, <1>9 DEF CallHandler
<1>10. CASE job.h.k = "element"
  <2>1. PICK c, i, x, rej : c = job.h.p /\ i = job.h.i /\ x = job.arg /\ rej = job.rej
    OBVIOUS
  <2>2. PICK t : t = ResolveElement(s, c, i, x, rej)
    OBVIOUS
  <2>3. r = Returns(t, Undefined)
    BY <1>10, <2>1, <2>2 DEF CallHandler
  <2>4. c \in Nums(s) /\ ValueOK(s, x) /\ rej \in BOOLEAN
    BY <1>1, <1>10, <2>1 DEF HandlerOK
  <2>5. Good(t) /\ Effect(s, t)
    BY <2>2, <2>4, ResolveElementGood
  <2>. QED  BY <1>4, <2>3, <2>5
<1>11. CASE job.h.k = "pair"
  <2>1. PICK a, x, rej : a = <<job.h.p, job.h.i>> /\ x = job.arg /\ rej = job.rej
    OBVIOUS
  <2>2. PICK t : t = Resolve(s, a, x, rej)
    OBVIOUS
  <2>3. r = Returns(t, Undefined)
    BY <1>11, <2>1, <2>2 DEF CallHandler
  <2>4. PairOK(s, a) /\ ValueOK(s, x) /\ rej \in BOOLEAN
    BY <1>1, <1>11, <2>1 DEF HandlerOK
  <2>5. Good(t) /\ Effect(s, t) /\ Nums(t) = Nums(s)
    BY <2>2, <2>4, ResolveGood
  <2>. QED  BY <1>4, <2>3, <2>5
<1>12. job.h.k \in {"none", "script", "finally", "value_thunk", "thrower", "element", "pair"}
  BY <1>1 DEF HandlerOK
<1>. QED  BY <1>5, <1>6, <1>7, <1>8, <1>9, <1>10, <1>11, <1>12

\* A handler that resumes a suspended body.
LEMMA WakingHandler ==
  ASSUME NEW s, Good(s), NEW job, ValueOK(s, job.arg), job.rej \in BOOLEAN,
         NEW k0 \in Wakers, NEW f0 \in Nat, IsFor(job.h, k0, f0), IsBody(s, k0, f0),
         Suspended(s, k0, f0), Awake(s, k0, f0), GenOK(s.gen),
         NEW out, NEW v, ValueOK(s, v), NEW r, r = CallHandler(s, job, out, v)
  PROVE  CallOK(s, r) /\ WakeOK(r.s)
<1>1. job.h.k = k0 /\ job.h.p = f0
  BY DEF IsFor
<1>2. ASSUME NEW t, Good(t) /\ WakeOK(t) /\ Grows(s, t), r = Returns(t, Undefined)
      PROVE  CallOK(s, r) /\ WakeOK(r.s)
  <2>1. r.s = t /\ r.v = Undefined /\ r.rej \in BOOLEAN
    BY <1>2 DEF Returns
  <2>2. ValueOK(t, Undefined)
    BY BuiltinHandlers
  <2>. QED  BY <1>2, <2>1, <2>2 DEF CallOK
<1>3. CASE k0 = "function"
  <2>1. PICK t : t = ResumeFunction(s, f0, out, v)
    OBVIOUS
  <2>2. r = Returns(t, Undefined)
    BY <1>1, <1>3, <2>1 DEF CallHandler
  <2>3. f0 \in Nums(s) /\ Awake(s, "function", f0)
    BY <1>3 DEF IsBody
  <2>4. Good(t) /\ WakeOK(t) /\ Grows(s, t)
    BY <2>1, <2>3, ResumeFunctionGood
  <2>. QED  BY <1>2, <2>2, <2>4
<1>4. CASE k0 = "generator"
  <2>1. PICK t : t = ResumeNext(s)
    OBVIOUS
  <2>2. r = Returns(t, Undefined)
    BY <1>1, <1>4, <2>1 DEF CallHandler
  <2>3. f0 = 0
    BY <1>4 DEF IsBody
  <2>4. Awake(s, "generator", 0) /\ RequestWaits(s.gen)
    BY <1>4, <2>3 DEF GenOK
  <2>5. Good(t) /\ WakeOK(t) /\ Grows(s, t)
    BY <2>1, <2>4, ResumeNextGood
  <2>. QED  BY <1>2, <2>2, <2>5
<1>5. CASE k0 = "return"
  <2>0. PICK x, rej : x = job.arg /\ rej = job.rej
    OBVIOUS
  <2>1. PICK t : t = ReturnSettled(s, x, rej)
    OBVIOUS
  <2>2. r = Returns(t, Undefined)
    BY <1>1, <1>5, <2>0, <2>1 DEF CallHandler
  <2>3. f0 = 0 /\ s.gen.state = "awaiting_return"
    BY <1>5 DEF IsBody, Suspended
  <2>4. Awake(s, "return", 0) /\ ValueOK(s, x) /\ rej \in BOOLEAN
    BY <1>5, <2>0, <2>3
  <2>5. Good(t) /\ WakeOK(t) /\ Grows(s, t)
    BY <2>1, <2>3, <2>4, ReturnSettledGood
  <2>. QED  BY <1>2, <2>2, <2>5
<1>. QED  BY <1>3, <1>4, <1>5 DEF Wakers

Counted(s, p) == [s EXCEPT !.promise[p].ran = @ + 1]

\* One more reaction of p was called, and nothing else is new.
Counts(s, t, p) ==
  /\ t.queue = s.queue /\ \A q \in Nums(s) : q # p => t.promise[q] = s.promise[q]
  /\ t.promise[p].state = s.promise[p].state /\ t.promise[p].reactions = s.promise[p].reactions
  /\ t.promise[p].thens = s.promise[p].thens /\ t.promise[p].ran = s.promise[p].ran + 1

LEMMA CountRun ==
  ASSUME NEW s, Good(s), NEW p \in Nums(s), NEW t, t = Counted(s, p)
  PROVE  /\ Good(t) /\ Larger(s, t) /\ Nums(t) = Nums(s) /\ SameFrames(s, t) /\ t.gen = s.gen
         /\ Counts(s, t, p) /\ \A k, f : Spots(t, k, f) = Spots(s, k, f)
<1>1. Shape(s) /\ DOMAIN s = {"promise", "queue", "gen"} /\ DOMAIN s.promise = Nums(s)
  BY Numbered DEF Good, Shape
<1>2. DOMAIN s.promise[p] = PromiseFields
  BY <1>1 DEF Shape, PromiseShape
<1>3. PICK r : r = [s.promise[p] EXCEPT !.ran = @ + 1]
  OBVIOUS
<1>4. /\ DOMAIN r = PromiseFields /\ r.state = s.promise[p].state /\ r.result = s.promise[p].result
      /\ r.reactions = s.promise[p].reactions /\ r.open = s.promise[p].open
      /\ r.already_resolved = s.promise[p].already_resolved /\ r.frame = s.promise[p].frame
      /\ r.thens = s.promise[p].thens /\ r.ran = s.promise[p].ran + 1
  BY <1>2, <1>3 DEF PromiseFields
<1>5. /\ DOMAIN t = DOMAIN s /\ t.queue = s.queue /\ t.gen = s.gen
      /\ t.promise = [s.promise EXCEPT ![p] = r]
  BY <1>1, <1>3 DEF Counted
<1>6. Tweaked(s, t) /\ t.promise[p] = r /\ \A q \in Nums(s) : q # p => t.promise[q] = s.promise[q]
  BY <1>1, <1>4, <1>5, TweakPromise
<1>7. /\ Good(t) /\ Nums(t) = Nums(s) /\ Larger(s, t)
      /\ \A k, f : Spots(t, k, f) = Spots(s, k, f)
  BY <1>1, <1>6, TweakedShape DEF Good
<1>8. SameFrames(s, t)
  BY <1>4, <1>6, <1>7 DEF SameFrames
<1>9. Counts(s, t, p)
  BY <1>4, <1>5, <1>6 DEF Counts
<1>. QED  BY <1>5, <1>7, <1>8, <1>9

\* promise_reaction_job up to the call of the handler.
LEMMA StartReaction ==
  ASSUME NEW s, Good(s), s.queue # <<>>, NEW job, job = Head(s.queue), job.k = "reaction",
         NEW u, u = Taken(s), NEW w, w = Counted(u, job.from)
  PROVE  /\ Good(w) /\ JobOK(w, job) /\ Grows(s, w) /\ w.gen = s.gen
         /\ Nums(w) = Nums(u) /\ SameFrames(u, w) /\ u.gen = s.gen
         /\ \A k, f : Spots(w, k, f) = Spots(u, k, f)
         /\ job.h.k \notin Wakers => Effect(s, w)
<1>1. /\ Good(u) /\ JobOK(u, job) /\ Larger(s, u) /\ SameFrames(s, u)
      /\ u.gen = s.gen /\ Nums(u) = Nums(s)
      /\ job.h.k \notin Wakers => \A k \in Wakers, f \in Nat : SameSpots(s, u, k, f)
  BY TakeReaction
<1>2. PICK p \in Nums(u) : p = job.from
  BY <1>1 DEF JobOK
<1>3. /\ Good(w) /\ Larger(u, w) /\ Nums(w) = Nums(u) /\ SameFrames(u, w) /\ w.gen = u.gen
      /\ Counts(u, w, p) /\ \A k, f : Spots(w, k, f) = Spots(u, k, f)
  BY <1>1, <1>2, CountRun
<1>4. Shape(s) /\ Shape(u) /\ Shape(w)
  BY <1>1, <1>3 DEF Good
<1>5. Larger(s, w) /\ JobOK(w, job)
  BY <1>1, <1>3, <1>4, LargerTrans, LargerRefs
<1>6. InOrder(s) => InOrder(w)
  <2>. SUFFICES ASSUME InOrder(s), NEW q \in Nums(s)
                PROVE  Lined(w, q)
    BY <1>1, <1>3 DEF InOrder
  <2>1. PICK L \in Nat \ {0} :
          /\ DOMAIN s.queue = 1..L /\ DOMAIN u.queue = 1..(L - 1) /\ job = s.queue[1]
          /\ \A j \in 1..(L - 1) : u.queue[j] = s.queue[j + 1]
          /\ u.promise = s.promise
    BY TakeJob
  <2>2. DOMAIN w.queue = 1..(L - 1) /\ \A j \in 1..(L - 1) : w.queue[j] = s.queue[j + 1]
    BY <1>3, <2>1 DEF Counts
  <2>3. Lined(s, q) /\ IsSeq(s.promise[q].reactions)
    BY <1>4 DEF InOrder, Shape, PromiseShape
  <2>4. s.queue[1].from = p
    BY <1>2, <2>1
  <2>5. /\ w.promise[q].state = s.promise[q].state /\ w.promise[q].reactions = s.promise[q].reactions
        /\ w.promise[q].thens = s.promise[q].thens
        /\ w.promise[q].ran = IF p = q THEN s.promise[q].ran + 1 ELSE s.promise[q].ran
    BY <1>1, <1>3, <2>1 DEF Counts
  <2>. QED  BY <2>1, <2>2, <2>3, <2>4, <2>5, LinedShift
<1>7. Grows(s, w)
  BY <1>5, <1>6 DEF Grows
<1>8. ASSUME job.h.k \notin Wakers PROVE Effect(s, w)
  <2>1. \A k \in Wakers, f \in Nat : SameSpots(s, w, k, f)
    BY <1>1, <1>3, <1>8 DEF SameSpots
  <2>2. SameFrames(s, w)
    BY <1>1, <1>3 DEF SameFrames
  <2>. QED  BY <1>1, <1>3, <1>7, <2>1, <2>2 DEF Effect
<1>. QED  BY <1>1, <1>3, <1>5, <1>7, <1>8

\* The outcome of a handler goes to the promise that then() returned.
LEMMA PassOn ==
  ASSUME NEW s, Good(s), NEW pair, pair = NoPair \/ PairOK(s, pair), NEW r, CallOK(s, r),
         NEW t, t = IF pair = NoPair THEN r.s ELSE Resolve(r.s, pair, r.v, r.rej)
  PROVE  Good(t) /\ Effect(r.s, t) /\ Shape(r.s) /\ Good(r.s)
<1>1. PICK u, x, rej : u = r.s /\ x = r.v /\ rej = r.rej
  OBVIOUS
<1>2. Good(u) /\ Grows(s, u) /\ ValueOK(u, x) /\ rej \in BOOLEAN /\ Shape(u) /\ Shape(s)
  BY <1>1 DEF CallOK, Good
<1>3. CASE pair = NoPair
  <2>1. t = u /\ Effect(u, u)
    BY <1>1, <1>2, <1>3, EffectRefl
  <2>. QED  BY <1>1, <1>2, <2>1
<1>4. CASE pair # NoPair
  <2>1. t = Resolve(u, pair, x, rej)
    BY <1>1, <1>4
  <2>2. PairOK(u, pair)
    BY <1>2, <1>4, Grown
  <2>3. Good(t) /\ Effect(u, t) /\ Nums(t) = Nums(u)
    BY <1>2, <2>1, <2>2, ResolveGood
  <2>. QED  BY <1>1, <1>2, <2>3
<1>. QED  BY <1>3, <1>4

\* A state that a step leaves behind.
Fine(t) == Good(t) /\ WakeOK(t) /\ InOrder(t)

LEMMA QuietFine ==
  ASSUME NEW s, Fine(s), NEW t, Good(t), Effect(s, t)
  PROVE  Fine(t)
BY EffectWake DEF Fine, Effect, Grows

LEMMA RunReactionFine ==
  ASSUME NEW s, Fine(s), s.queue # <<>>, NEW job, job = Head(s.queue), job.k = "reaction",
         NEW u, u = Taken(s), NEW out, NEW v, ValueOK(s, v), NEW t, t = RunReaction(u, job, out, v)
  PROVE  Fine(t)
<1>1. Good(s) /\ Shape(s) /\ WakeOK(s) /\ Awake(s, "none", 0) /\ GenOK(s.gen) /\ InOrder(s)
  BY DEF Fine, Good, WakeOK, GenOK
<1>3. PICK p, pair : p = job.from /\ pair = job.pair
  OBVIOUS
<1>4. PICK w : w = Counted(u, p)
  OBVIOUS
<1>5. PICK r : r = CallHandler(w, job, out, v)
  OBVIOUS
<1>6. t = IF pair = NoPair THEN r.s ELSE Resolve(r.s, pair, r.v, r.rej)
  BY <1>3, <1>4, <1>5 DEF RunReaction, Counted
<1>8. /\ Good(w) /\ JobOK(w, job) /\ Grows(s, w) /\ w.gen = s.gen
      /\ Nums(w) = Nums(u) /\ SameFrames(u, w) /\ u.gen = s.gen
      /\ \A k, f : Spots(w, k, f) = Spots(u, k, f)
      /\ job.h.k \notin Wakers => Effect(s, w)
  BY <1>1, <1>3, <1>4, StartReaction
<1>9. Shape(w) /\ InOrder(w)
  BY <1>1, <1>8 DEF Good, Grows
<1>10. pair = NoPair \/ PairOK(w, pair)
  BY <1>3, <1>8 DEF JobOK
<1>11. ValueOK(w, v)
  BY <1>1, <1>8, <1>9, Grown
<1>12. ASSUME CallOK(w, r)
       PROVE  Good(t) /\ Effect(r.s, t) /\ Shape(r.s) /\ Good(r.s)
  <2>1. Good(w)
    BY <1>8
  <2>2. pair = NoPair \/ PairOK(w, pair)
    BY <1>10
  <2>. QED  BY <1>6, <1>12, <2>1, <2>2, PassOn
<1>13. CASE job.h.k \notin Wakers
  <2>1. Good(w) /\ JobOK(w, job)
    BY <1>8
  <2>2. CallOK(w, r) /\ Effect(w, r.s)
    BY <1>5, <1>11, <1>13, <2>1, QuietHandler
  <2>3. PICK x : x = r.s
    OBVIOUS
  <2>4. Good(t) /\ Effect(x, t) /\ Shape(x) /\ Shape(t) /\ Effect(w, x)
    BY <1>12, <1>13, <2>2, <2>3 DEF Good
  <2>5. Effect(s, w)
    BY <1>8, <1>13
  <2>6. Effect(s, x)
    BY <1>1, <1>9, <2>4, <2>5, EffectTrans
  <2>7. Effect(s, t)
    BY <1>1, <2>4, <2>6, EffectTrans
  <2>. QED  BY <2>4, <2>7, QuietFine
<1>14. CASE job.h.k \in Wakers
  <2>1. PICK k0, f0 : k0 = job.h.k /\ f0 = job.h.p
    OBVIOUS
  <2>2. k0 \in Wakers /\ IsFor(job.h, k0, f0)
    BY <1>14, <2>1 DEF IsFor
  <2>3. f0 \in Nat /\ IsBody(u, k0, f0) /\ Suspended(u, k0, f0) /\ Awake(u, k0, f0)
    BY <1>1, <2>2, TakeWaker
  <2>4. \A k \in Wakers, f \in Nat : IsBody(u, k, f) => (Suspended(w, k, f) <=> Suspended(u, k, f))
    BY <1>8 DEF IsBody, Suspended, SameFrames
  <2>5. IsBody(w, k0, f0) /\ Suspended(w, k0, f0)
    BY <1>8, <2>2, <2>3, <2>4 DEF IsBody
  <2>6. GenOK(w.gen)
    BY <1>1, <1>8
  <2>7. ValueOK(w, job.arg) /\ job.rej \in BOOLEAN
    BY <1>8 DEF JobOK
  <2>8. Good(w)
    BY <1>8
  <2>9. CallOK(w, r) /\ WakeOK(r.s)
    <3>1. Awake(w, k0, f0)
      BY <1>8, <2>3, <2>4, AwakeSame
    <3>. QED  BY <1>5, <1>11, <2>2, <2>3, <2>5, <2>6, <2>7, <2>8, <3>1, WakingHandler
  <2>10. PICK x : x = r.s
    OBVIOUS
  <2>11. Good(t) /\ Effect(x, t) /\ Fine(x)
    BY <1>9, <1>12, <2>9, <2>10 DEF Fine, CallOK, Grows
  <2>. QED  BY <2>11, QuietFine
<1>. QED  BY <1>13, <1>14

LEMMA RunThenableFine ==
  ASSUME NEW s, Fine(s), s.queue # <<>>, NEW job, job = Head(s.queue), job.k = "thenable",
         NEW u, u = Taken(s), NEW out, NEW v, ValueOK(s, v), NEW t, t = RunThenable(u, job, out, v)
  PROVE  Fine(t)
<1>1. Good(s) /\ Shape(s)
  BY DEF Fine, Good
<1>2. PICK p : p = job.pair[1]
  OBVIOUS
<1>3. Flux(u, p) /\ Effect(s, u) /\ JobOK(u, job)
  BY <1>1, <1>2, TakeThenable
<1>4. Shape(u) /\ Grows(s, u)
  BY <1>3 DEF Flux, Effect
<1>5. ValueOK(u, v)
  BY <1>1, <1>4, Grown
<1>6. Good(t) /\ Effect(u, t)
  BY <1>2, <1>3, <1>5, RunThenableGood
<1>7. Shape(t)
  BY <1>6 DEF Good
<1>8. Effect(s, t)
  BY <1>1, <1>3, <1>4, <1>6, <1>7, EffectTrans
<1>. QED  BY <1>6, <1>8, QuietFine

LEMMA RequestFine ==
  ASSUME NEW s, Fine(s), s.gen.state # "none", NEW kind \in {"next", "return", "throw"},
         NEW v, ValueOK(s, v), NEW o \in BOOLEAN, NEW s1, s1 = NewPromise(s, o),
         NEW s2, s2 = AddRequest(s1, kind, v),
         NEW t, t = IF s.gen.state = "executing" THEN s2 ELSE ResumeNext(s2)
  PROVE  Fine(t)
<1>1. Good(s) /\ WakeOK(s)
  BY DEF Fine
<1>2. /\ Good(s1) /\ Effect(s, s1)
      /\ Len(s1.promise) = Len(s.promise) + 1 /\ Newest(s1) \in Nums(s1)
      /\ PairOK(s1, <<Newest(s1), 1>>) /\ s1.promise[Newest(s1)].open \subseteq {1}
  BY <1>1, NewPromiseGood
<1>3. WakeOK(s1) /\ Good(s1)
  BY <1>1, <1>2, EffectWake
<1>4. s1.gen = s.gen /\ Shape(s) /\ Shape(s1) /\ Grows(s, s1)
  BY <1>1, <1>2 DEF Effect, Good
<1>5. ValueOK(s1, v)
  BY <1>4, Grown
<1>6. PICK rq : rq = [kind |-> kind, v |-> v, p |-> Newest(s1)]
  OBVIOUS
<1>7. RequestOK(s1, rq)
  BY <1>2, <1>5, <1>6 DEF RequestOK
<1>8. PICK q : q = s1.gen.queue
  OBVIOUS
<1>9. IsSeq(q) /\ DOMAIN s1 = {"promise", "queue", "gen"}
      /\ DOMAIN s1.gen = {"state", "queue", "running", "asked"}
  BY <1>4, <1>8 DEF Shape
<1>10. /\ IsSeq(Append(q, rq)) /\ Len(Append(q, rq)) = Len(q) + 1
       /\ DOMAIN Append(q, rq) = 1..(Len(q) + 1)
       /\ \A i \in 1..Len(q) : Append(q, rq)[i] = q[i]
       /\ Append(q, rq)[Len(q) + 1] = rq
  BY <1>9, SeqAppend
<1>11. Len(q) \in Nat /\ DOMAIN q = 1..Len(q)
  BY <1>9, SeqBasics
<1>12. PICK g : g = s2.gen
  OBVIOUS
<1>13. /\ OnlyGen(s1, s2, g) /\ g.queue = Append(q, rq)
       /\ g.state = s1.gen.state /\ g.running = s1.gen.running
  BY <1>6, <1>8, <1>9, <1>12 DEF OnlyGen, AddRequest
<1>14. \A i \in DOMAIN g.queue : \/ \E m \in DOMAIN s1.gen.queue : g.queue[i] = s1.gen.queue[m]
                                 \/ RequestOK(s1, g.queue[i])
  <2>. TAKE i \in DOMAIN g.queue
  <2>1. i \in 1..(Len(q) + 1)
    BY <1>10, <1>13
  <2>2. CASE i = Len(q) + 1
    BY <1>7, <1>10, <1>13, <2>2
  <2>3. CASE i \in 1..Len(q)
    BY <1>8, <1>10, <1>11, <1>13, <2>3
  <2>. QED  BY <1>11, <2>1, <2>2, <2>3
<1>15. IsSeq(g.queue) /\ g.queue # <<>>
  <2>1. Append(q, rq) # <<>>
    BY <1>10, <1>11, SeqBasics
  <2>. QED  BY <1>10, <1>13, <2>1
<1>16. PICK k0 : k0 = "none"
  OBVIOUS
<1>17. PICK f0 : f0 = 0
  OBVIOUS
<1>18. Awake(s1, k0, f0) /\ (k0 \in {"generator", "return"} => f0 = 0)
  BY <1>3, <1>16, <1>17 DEF WakeOK
<1>19. k0 # "generator" => (Suspended(s2, "generator", 0) <=> Suspended(s1, "generator", 0))
  BY <1>12, <1>13 DEF Suspended
<1>20. k0 # "return" => (Suspended(s2, "return", 0) <=> Suspended(s1, "return", 0))
  BY <1>12, <1>13 DEF Suspended
<1>21. Good(s2) /\ Nums(s2) = Nums(s1) /\ Grows(s1, s2) /\ Awake(s2, k0, f0)
  <2>1. OnlyGen(s1, s2, g) /\ IsSeq(g.queue)
    BY <1>13, <1>15
  <2>2. Awake(s1, k0, f0)
    BY <1>18
  <2>3. k0 \in {"generator", "return"} => f0 = 0
    BY <1>18
  <2>4. Good(s1)
    BY <1>3
  <2>. QED  BY <1>14, <1>19, <1>20, <2>1, <2>2, <2>3, <2>4, GenAwake
<1>22. Awake(s2, "none", 0)
  BY <1>16, <1>17, <1>21
<1>23. RequestWaits(s2.gen)
  BY <1>12, <1>15 DEF RequestWaits
<1>26. InOrder(s2)
  BY <1>4, <1>21 DEF Fine, Grows
<1>24. CASE s.gen.state = "executing"
  <2>1. t = s2 /\ s2.gen.state = "executing"
    BY <1>4, <1>12, <1>13, <1>24
  <2>. QED  BY <1>21, <1>22, <1>23, <1>26, <2>1 DEF Fine, WakeOK
<1>25. CASE s.gen.state # "executing"
  <2>1. t = ResumeNext(s2) /\ s2.gen.state # "executing"
    BY <1>4, <1>12, <1>13, <1>25
  <2>2. IsBody(s2, "generator", 0) /\ ~Suspended(s2, "generator", 0) /\ "generator" \in Wakers /\ 0 \in Nat
    BY <2>1 DEF IsBody, Suspended, Wakers
  <2>3. Awake(s2, "generator", 0)
    BY <1>22, <2>2, AwakeBegins
  <2>4. Good(t) /\ WakeOK(t) /\ Grows(s2, t)
    BY <1>21, <1>23, <2>1, <2>3, ResumeNextGood
  <2>. QED  BY <1>26, <2>4 DEF Fine, Grows
<1>. QED  BY <1>24, <1>25

LEMMA CallAsyncFine ==
  ASSUME NEW s, Fine(s), NEW v, ValueOK(s, v), NEW out, NEW o \in BOOLEAN,
         NEW s1, s1 = NewPromise(s, o), NEW f, f = Newest(s1),
         NEW t, t = ResumeFunction(s1, f, out, v)
  PROVE  Fine(t)
<1>1. Good(s) /\ WakeOK(s)
  BY DEF Fine
<1>2. /\ Good(s1) /\ Effect(s, s1)
      /\ Len(s1.promise) = Len(s.promise) + 1 /\ Newest(s1) \in Nums(s1)
      /\ PairOK(s1, <<Newest(s1), 1>>) /\ s1.promise[Newest(s1)].open \subseteq {1}
  BY <1>1, NewPromiseGood
<1>3. WakeOK(s1) /\ Good(s1)
  BY <1>1, <1>2, EffectWake
<1>4. Shape(s) /\ Shape(s1) /\ Grows(s, s1) /\ SameFrames(s, s1)
  BY <1>1, <1>2 DEF Effect, Good
<1>5. ValueOK(s1, v)
  BY <1>4, Grown
<1>6. f \in Nums(s1) /\ f \notin Nums(s) /\ f \in Nat
  BY <1>2, <1>4, Numbered DEF Newest, Nums
<1>7. IsBody(s1, "function", f) /\ ~Suspended(s1, "function", f) /\ "function" \in Wakers
  BY <1>4, <1>6 DEF IsBody, Suspended, Wakers, SameFrames
<1>8. Awake(s1, "none", 0) /\ GenOK(s1.gen)
  BY <1>3 DEF WakeOK, GenOK
<1>9. Awake(s1, "function", f)
  BY <1>6, <1>7, <1>8, AwakeBegins
<1>10. Good(t) /\ WakeOK(t) /\ Grows(s1, t)
  BY <1>3, <1>5, <1>6, <1>8, <1>9, ResumeFunctionGood
<1>. QED  BY <1>4, <1>10 DEF Fine, Grows

LEMMA NewGeneratorFine ==
  ASSUME NEW s, Fine(s), s.gen.state = "none", NEW t, NEW st, NEW r, GenStep(s, t, st, r, s.gen.queue),
         t.gen.running => s.gen.running, t.gen.state = "start"
  PROVE  Fine(t)
<1>1. Good(s) /\ WakeOK(s) /\ ~s.gen.running
  BY DEF Fine, WakeOK
<1>2. PICK k0 : k0 = "none"
  OBVIOUS
<1>3. PICK f0 : f0 = 0
  OBVIOUS
<1>4. Awake(s, k0, f0)
  BY <1>1, <1>2, <1>3 DEF WakeOK
<1>5. k0 \in {"generator", "return"} => f0 = 0
  BY <1>3
<1>6. k0 # "generator" => (Suspended(t, "generator", 0) <=> Suspended(s, "generator", 0))
  BY <1>1 DEF Suspended, GenStep
<1>7. k0 # "return" => (Suspended(t, "return", 0) <=> Suspended(s, "return", 0))
  BY <1>1 DEF Suspended, GenStep
<1>8. /\ Good(t) /\ Nums(t) = Nums(s) /\ Grows(s, t) /\ Awake(t, k0, f0)
      /\ t.gen.state = st /\ t.gen.running = r /\ t.gen.queue = s.gen.queue
  BY <1>1, <1>4, <1>5, <1>6, <1>7, GenMove
<1>9. Awake(t, "none", 0)
  BY <1>2, <1>3, <1>8
<1>10. InOrder(t)
  BY <1>8 DEF Fine, Grows
<1>. QED  BY <1>1, <1>8, <1>9, <1>10 DEF Fine, WakeOK, RequestWaits

(***************************************************************************)
(* The steps.                                                              *)
(***************************************************************************)
LEMMA ScriptValue ==
  ASSUME NEW s, s = S, NEW out, NEW v \in AnyValue(out)
  PROVE  ValueOK(s, v)
<1>1. CASE \E x \in Plain : v = <<"plain", x>>
  BY <1>1 DEF ValueOK
<1>2. CASE v = Poisoned \/ v = Thenable
  BY <1>2 DEF ValueOK, Poisoned, Thenable
<1>3. CASE \E p \in 1..Newest(S) : v = Promise(p)
  BY <1>3 DEF ValueOK, Promise, Nums, Newest
<1>. QED  BY <1>1, <1>2, <1>3 DEF AnyValue, Values, Promises

LEMMA ScriptStep ==
  ASSUME NEW s, s = S, Fine(s), NEW t, t = S', Script
  PROVE  Fine(t)
<1>1. Good(s) /\ Shape(s) /\ Nums(s) = 1..Newest(s)
  BY DEF Fine, Good, Nums, Newest
<1>2. CASE New
  <2>1. PICK o \in BOOLEAN : o = TRUE
    OBVIOUS
  <2>2. t = NewPromise(s, o)
    BY <1>2, <2>1 DEF New
  <2>3. /\ Good(t) /\ Effect(s, t)
        /\ Len(t.promise) = Len(s.promise) + 1 /\ Newest(t) \in Nums(t)
        /\ PairOK(t, <<Newest(t), 1>>) /\ t.promise[Newest(t)].open \subseteq {1}
    BY <1>1, <2>2, NewPromiseGood
  <2>. QED  BY <2>3, QuietFine
<1>3. CASE NewGenerator
  <2>1. PICK st : st = "start"
    OBVIOUS
  <2>2. s.gen.state = "none"
    BY <1>3 DEF NewGenerator, NoGenerator
  <2>3. PICK u : u = [s EXCEPT !.gen.state = st]
    OBVIOUS
  <2>4. GenStep(s, u, st, s.gen.running, s.gen.queue)
    BY <1>1, <2>3, GenSteps
  <2>5. (u.gen.running => s.gen.running) /\ u.gen.state = "start"
    BY <2>1, <2>4 DEF GenStep
  <2>6. PICK r : GenStep(s, u, st, r, s.gen.queue)
    BY <2>4
  <2>7. Fine(u)
    BY <2>2, <2>5, <2>6, NewGeneratorFine
  <2>8. t = u
    BY <1>3, <2>1, <2>3 DEF NewGenerator
  <2>. QED  BY <2>7, <2>8
<1>4. ASSUME NEW out, NEW v \in AnyValue(out), Settle(out, v) PROVE Fine(t)
  <2>1. PICK o \in BOOLEAN : o = FALSE
    OBVIOUS
  <2>2. PICK s1 : s1 = NewPromise(s, o)
    OBVIOUS
  <2>3. PICK a : a = <<Newest(s1), 1>>
    OBVIOUS
  <2>4. PICK rej \in BOOLEAN : rej = (out = "throw")
    OBVIOUS
  <2>5. t = Resolve(s1, a, v, rej)
    BY <1>4, <2>1, <2>2, <2>3, <2>4 DEF Settle
  <2>6. ValueOK(s, v)
    BY ScriptValue
  <2>7. Good(t) /\ Effect(s, t) /\ Newest(s) + 1 \in Nums(t) /\ Newest(s) + 1 = Newest(s1)
    BY <1>1, <2>2, <2>3, <2>5, <2>6, NewResolved
  <2>. QED  BY <2>7, QuietFine
<1>5. ASSUME NEW p \in Nums(s), NEW i \in s.promise[p].open, NEW out, NEW v \in AnyValue(out),
             Call(p, i, out, v)
      PROVE  Fine(t)
  <2>1. PICK a : a = <<p, i>>
    OBVIOUS
  <2>2. PICK rej \in BOOLEAN : rej = (out = "throw")
    OBVIOUS
  <2>3. t = Resolve(s, a, v, rej)
    BY <1>5, <2>1, <2>2 DEF Call
  <2>4. PairOK(s, a)
    BY <1>1, <2>1 DEF PairOK, Shape, PromiseShape
  <2>5. ValueOK(s, v)
    BY ScriptValue
  <2>6. Good(t) /\ Effect(s, t) /\ Nums(t) = Nums(s)
    BY <1>1, <2>3, <2>4, <2>5, ResolveGood
  <2>. QED  BY <2>6, QuietFine
<1>6. ASSUME NEW p \in Nums(s), NEW h, NEW g, HandlerOK(s, h), HandlerOK(s, g),
             h.k \notin Wakers, g.k \notin Wakers, t = Then(s, p, h, g)
      PROVE  Fine(t)
  <2>1. Good(t) /\ Effect(s, t) /\ Newest(t) \in Nums(t)
    BY <1>1, <1>6, ThenGood
  <2>. QED  BY <2>1, QuietFine
<1>7. ASSUME NEW p \in Nums(s), NEW h \in {NoHandler, ByScript}, NEW g \in {NoHandler, ByScript},
             CallThen(p, h, g)
      PROVE  Fine(t)
  <2>1. HandlerOK(s, h) /\ HandlerOK(s, g)
    BY BuiltinHandlers
  <2>2. h.k \notin Wakers /\ g.k \notin Wakers
    BY DEF NoHandler, ByScript, Handler, Wakers
  <2>3. t = Then(s, p, h, g)
    BY <1>7 DEF CallThen
  <2>. QED  BY <1>6, <2>1, <2>2, <2>3
<1>8. ASSUME NEW p \in Nums(s), Finally(p) PROVE Fine(t)
  <2>1. PICK h : h = Handler("finally", 0, 0)
    OBVIOUS
  <2>2. HandlerOK(s, h) /\ h.k \notin Wakers
    BY <2>1, BuiltinHandlers DEF Handler, Wakers
  <2>3. t = Then(s, p, h, h)
    BY <1>8, <2>1 DEF Finally
  <2>. QED  BY <1>6, <2>2, <2>3
<1>9. ASSUME NEW out, NEW v \in AnyValue(out), CallAsync(out, v) PROVE Fine(t)
  <2>1. PICK o \in BOOLEAN : o = FALSE
    OBVIOUS
  <2>2. PICK s1 : s1 = NewPromise(s, o)
    OBVIOUS
  <2>3. PICK f : f = Newest(s1)
    OBVIOUS
  <2>4. t = ResumeFunction(s1, f, out, v)
    BY <1>9, <2>1, <2>2, <2>3 DEF CallAsync
  <2>5. ValueOK(s, v)
    BY ScriptValue
  <2>. QED  BY <2>2, <2>3, <2>4, <2>5, CallAsyncFine
<1>10. ASSUME NEW kind, NEW n \in 0..2, NEW items \in [1..n -> Nums(s)], NEW broken,
              CallCombinator(kind, items, broken)
       PROVE  Fine(t)
  <2>1. Len(items) = n /\ n \in Nat
    BY FunctionIsSeq
  <2>2. Len(items) \in Nat /\ \A i \in 1..Len(items) : items[i] \in Nums(s)
    BY <2>1
  <2>3. t = Combine(s, kind, items, broken)
    BY <1>10 DEF CallCombinator
  <2>4. Good(t) /\ Effect(s, t)
    BY <1>1, <2>2, <2>3, CombineGood
  <2>. QED  BY <2>4, QuietFine
<1>11. ASSUME NEW kind \in {"next", "return", "throw"}, NEW v \in AnyValue(kind), Request(kind, v)
       PROVE  Fine(t)
  <2>1. PICK o \in BOOLEAN : o = FALSE
    OBVIOUS
  <2>2. PICK s1 : s1 = NewPromise(s, o)
    OBVIOUS
  <2>3. PICK s2 : s2 = AddRequest(s1, kind, v)
    OBVIOUS
  <2>4. s.gen.state # "none" /\ t = IF s.gen.state = "executing" THEN s2 ELSE ResumeNext(s2)
    <3>1. s1 = NewPromise(S, FALSE)
      BY <2>1, <2>2
    <3>2. S.gen.state # "none" /\ S' = IF S.gen.state = "executing" THEN s2 ELSE ResumeNext(s2)
      BY <1>11, <2>3, <3>1 DEF Request
    <3>. QED  BY <3>2
  <2>5. ValueOK(s, v)
    BY ScriptValue
  <2>. QED  BY <2>2, <2>3, <2>4, <2>5, RequestFine
<1>. QED  BY <1>1, <1>2, <1>3, <1>4, <1>5, <1>7, <1>8, <1>9, <1>10, <1>11 DEF Script

LEMMA JobStep ==
  ASSUME NEW s, s = S, Fine(s), NEW t, t = S', Jobs
  PROVE  Fine(t)
<1>1. Good(s) /\ WakeOK(s)
  BY DEF Fine
<1>2. ASSUME NEW out, NEW v \in AnyValue(out), RunJob(out, v) PROVE Fine(t)
  <2>1. PICK job : job = Head(s.queue)
    OBVIOUS
  <2>2. PICK u : u = Taken(s)
    OBVIOUS
  <2>3. s.queue # <<>> /\ ValueOK(s, v)
    BY <1>2, ScriptValue DEF RunJob
  <2>4. t = IF job.k = "thenable" THEN RunThenable(u, job, out, v) ELSE RunReaction(u, job, out, v)
    BY <1>2, <2>1, <2>2 DEF RunJob, Taken
  <2>5. CASE job.k = "thenable"
    BY <2>1, <2>2, <2>3, <2>4, <2>5, RunThenableFine
  <2>6. CASE job.k # "thenable"
    <3>1. JobOK(u, job)
      BY <1>1, <2>1, <2>2, <2>3, TakeJob
    <3>2. job.k = "reaction"
      BY <2>6, <3>1 DEF JobOK
    <3>. QED  BY <2>1, <2>2, <2>3, <2>4, <3>2, RunReactionFine
  <2>. QED  BY <2>5, <2>6
<1>3. ASSUME NEW out, NEW v \in AnyValue(out), GeneratorBody(out, v) PROVE Fine(t)
  <2>1. ValueOK(s, v) /\ s.gen.running /\ t = BodyStops(s, out, v)
    BY <1>3, ScriptValue DEF GeneratorBody
  <2>2. Good(t) /\ WakeOK(t) /\ Grows(s, t)
    BY <1>1, <2>1, BodyStopsGood
  <2>. QED  BY <2>2 DEF Fine, Grows
<1>. QED  BY <1>2, <1>3 DEF Jobs

LEMMA FineInit ==
  ASSUME NEW s, s = S, Init
  PROVE  Fine(s)
<1>1. /\ s.promise = <<>> /\ s.queue = <<>> /\ DOMAIN s = {"promise", "queue", "gen"}
      /\ s.gen.state = "none" /\ s.gen.queue = <<>> /\ ~s.gen.running
      /\ DOMAIN s.gen = {"state", "queue", "running", "asked"}
  BY DEF Init, NoGenerator
<1>2. Len(<<>>) = 0 /\ DOMAIN <<>> = {} /\ <<>> \in Seq({})
  OBVIOUS
<1>3. Nums(s) = {} /\ IsSeq(<<>>)
  BY <1>1, <1>2 DEF Nums, IsSeq
<1>4. Good(s)
  BY <1>1, <1>2, <1>3 DEF Good, Shape, Refs
<1>5. \A k, f : Spots(s, k, f) = {}
  BY <1>1, <1>2, <1>3 DEF Spots, JobSpots
<1>6. Awake(s, "none", 0)
  <2>1. \A k \in Wakers, f \in Nat : IsBody(s, k, f) => ~Suspended(s, k, f)
    BY <1>1, <1>3 DEF IsBody, Suspended, Wakers
  <2>. QED  BY <1>5, <2>1 DEF Awake, Woken, Wakers
<1>7. InOrder(s)
  BY <1>3 DEF InOrder
<1>. QED  BY <1>1, <1>4, <1>6, <1>7 DEF Fine, WakeOK, RequestWaits

\* The inductive invariant: what is stored refers to what exists, a pending
\* promise has one resolver, the reactions of a promise stand in line, a
\* suspended body has one wake-up.
EngineFine == Fine(S)

LEMMA FineInvariant == Spec => []EngineFine
<1>1. Init => EngineFine
  <2>. HAVE Init
  <2>1. PICK s : s = S
    OBVIOUS
  <2>. QED  BY <2>1, FineInit DEF EngineFine
<1>2. EngineFine /\ [Next]_vars => EngineFine'
  <2>. SUFFICES ASSUME EngineFine, [Next]_vars PROVE EngineFine'
    OBVIOUS
  <2>1. PICK s : s = S
    OBVIOUS
  <2>2. PICK t : t = S'
    OBVIOUS
  <2>3. Fine(s)
    BY <2>1 DEF EngineFine
  <2>4. CASE Script
    BY <2>1, <2>2, <2>3, <2>4, ScriptStep DEF EngineFine
  <2>5. CASE Jobs
    BY <2>1, <2>2, <2>3, <2>5, JobStep DEF EngineFine
  <2>6. CASE UNCHANGED vars
    BY <2>6 DEF EngineFine, vars
  <2>. QED  BY <2>4, <2>5, <2>6 DEF Next
<1>. QED  BY <1>1, <1>2, PTL DEF Spec

(***************************************************************************)
(* The theorems.                                                           *)
(***************************************************************************)
LEMMA CountOne ==
  ASSUME NEW A
  PROVE  (One(A) => Cardinality(A) = 1) /\ (A = {} => Cardinality(A) = 0)
<1>1. \A x : Cardinality({x}) = 1
  BY FS_Singleton
<1>. QED  BY <1>1, FS_EmptySet DEF One

ReactionPairs(s, k, f) ==
  UNION {{<<q, i>> : i \in ReactionSpots(s, q, k, f)} : q \in Nums(s)}

\* How many handlers are stored for a body.
LEMMA CountSpots ==
  ASSUME NEW s, NEW k, NEW f
  PROVE  /\ Spots(s, k, f) = {} =>
              Cardinality(JobSpots(s, k, f)) + Cardinality(ReactionPairs(s, k, f)) = 0
         /\ One(Spots(s, k, f)) =>
              Cardinality(JobSpots(s, k, f)) + Cardinality(ReactionPairs(s, k, f)) = 1
<1>1. PICK J, R : J = JobSpots(s, k, f) /\ R = ReactionPairs(s, k, f)
  OBVIOUS
<1>2. \A j \in J : <<0, j>> \in Spots(s, k, f)
  BY <1>1, InSpots
<1>3. R \subseteq Spots(s, k, f) /\ \A x \in R : x[1] \in Nums(s)
  BY <1>1, InSpots DEF ReactionPairs
<1>4. \A x \in Spots(s, k, f) : (\E j \in J : x = <<0, j>>) \/ x \in R
  BY <1>1 DEF Spots, ReactionPairs
<1>5. ASSUME Spots(s, k, f) = {} PROVE Cardinality(J) + Cardinality(R) = 0
  <2>1. J = {} /\ R = {}
    BY <1>2, <1>3, <1>5
  <2>. QED  BY <2>1, FS_EmptySet
<1>6. ASSUME One(Spots(s, k, f)) PROVE Cardinality(J) + Cardinality(R) = 1
  <2>1. PICK x \in Spots(s, k, f) : Spots(s, k, f) = {x}
    BY <1>6 DEF One
  <2>2. CASE x \in R
    <3>1. x[1] # 0
      BY <1>3, <2>2 DEF Nums
    <3>2. J = {}
      BY <1>2, <2>1, <3>1
    <3>3. One(R)
      BY <1>3, <2>1, <2>2 DEF One
    <3>4. Cardinality(R) = 1 /\ Cardinality(J) = 0
      BY <3>2, <3>3, CountOne
    <3>. QED  BY <3>4
  <2>3. CASE x \notin R
    <3>1. PICK j \in J : x = <<0, j>>
      BY <1>4, <2>3
    <3>2. R = {}
      BY <1>3, <2>1, <2>3
    <3>3. \A i \in J : i = j
      BY <1>2, <2>1, <3>1
    <3>4. One(J)
      BY <3>3 DEF One
    <3>5. Cardinality(J) = 1 /\ Cardinality(R) = 0
      BY <3>2, <3>4, CountOne
    <3>. QED  BY <3>5
  <2>. QED  BY <2>2, <2>3
<1>. QED  BY <1>1, <1>5, <1>6

LEMMA ResolverCounted ==
  ASSUME NEW s, NEW p, ResolverOK(s, p)
  PROVE  Cardinality(Open(s, p)) + Cardinality(Adopting(s, p))
           = IF s.promise[p].state # "pending" THEN 0 ELSE 1
<1>1. PICK A, B : A = Open(s, p) /\ B = Adopting(s, p)
  OBVIOUS
<1>2. /\ One(A) => Cardinality(A) = 1
      /\ One(B) => Cardinality(B) = 1
      /\ A = {} => Cardinality(A) = 0
      /\ B = {} => Cardinality(B) = 0
  BY CountOne
<1>. QED  BY <1>1, <1>2 DEF ResolverOK, OneResolver, NoResolver

\* A pending promise has one pair of resolving functions that is not called or
\* one job that will make a pair, and a settled promise has neither
\* (js_promise_resolve_function_call, js_promise_resolve_thenable_job), for
\* any values, promises, jobs and calls.
THEOREM PromiseHasOneResolver == Spec => []SingleResolver
<1>1. EngineFine => SingleResolver
  <2>. HAVE EngineFine
  <2>1. PICK s : s = S
    OBVIOUS
  <2>2. \A p \in Nums(s) : ResolverOK(s, p)
    BY <2>1 DEF EngineFine, Fine, Good
  <2>3. ASSUME NEW p \in Made
        PROVE  Cardinality(Unresolved(p)) + Cardinality(ThenableJobs(p))
                 = IF Settled(p) THEN 0 ELSE 1
    <3>1. p \in Nums(s)
      BY <2>1 DEF Made, Newest, Nums
    <3>2. Unresolved(p) = Open(s, p) /\ ThenableJobs(p) = Adopting(s, p)
      BY <2>1 DEF Unresolved, Open, ThenableJobs, Adopting
    <3>3. Cardinality(Open(s, p)) + Cardinality(Adopting(s, p))
            = IF s.promise[p].state # "pending" THEN 0 ELSE 1
      BY <2>2, <3>1, ResolverCounted
    <3>4. Settled(p) <=> s.promise[p].state # "pending"
      BY <2>1 DEF Settled
    <3>. QED  BY <3>2, <3>3, <3>4
  <2>. QED  BY <2>3 DEF SingleResolver
<1>. QED  BY <1>1, FineInvariant, PTL

\* Numbers that grow strictly and are all those from r + 1 to n come one by one.
Climbs(a, k, r, n) ==
  /\ r <= n
  /\ \A i \in 1..k : a[i] \in (r + 1)..n
  /\ \A m \in (r + 1)..n : \E i \in 1..k : a[i] = m
  /\ \A i, j \in 1..k : i < j => a[i] < a[j]

OneByOne(a, k, r, n) == k = n - r /\ \A i \in 1..k : a[i] = r + i

LEMMA IncreasingOnto ==
  ASSUME NEW k \in Nat, NEW r \in Nat, NEW n \in Nat, NEW a, Climbs(a, k, r, n)
  PROVE  OneByOne(a, k, r, n)
<1>. SUFFICES ASSUME r <= n,
                     \A i \in 1..k : a[i] \in (r + 1)..n,
                     \A m \in (r + 1)..n : \E i \in 1..k : a[i] = m,
                     \A i, j \in 1..k : i < j => a[i] < a[j]
              PROVE  k = n - r /\ \A i \in 1..k : a[i] = r + i
  BY DEF Climbs, OneByOne
<1>. DEFINE Done == {l \in Nat : l <= k => r + l <= n /\ \A i \in 1..l : a[i] = r + i}
<1>1. 0 \in Done
  OBVIOUS
<1>2. ASSUME NEW l \in Done PROVE l + 1 \in Done
  <2>. SUFFICES ASSUME l + 1 <= k PROVE r + (l + 1) <= n /\ \A i \in 1..(l + 1) : a[i] = r + i
    BY <1>2
  <2>1. l \in Nat /\ l + 1 \in 1..k /\ \A i \in 1..l : a[i] = r + i
    BY <1>2
  <2>2. a[l + 1] \in (r + 1)..n
    BY <2>1
  <2>3. a[l + 1] > r + l
    <3>1. CASE l = 0
      BY <2>2, <3>1
    <3>2. CASE l # 0
      <4>1. l \in 1..k /\ l < l + 1 /\ l \in 1..l
        BY <2>1, <3>2
      <4>2. a[l] < a[l + 1] /\ a[l] = r + l
        BY <2>1, <4>1
      <4>. QED  BY <2>2, <4>2
    <3>. QED  BY <3>1, <3>2
  <2>4. r + (l + 1) \in (r + 1)..n
    BY <2>1, <2>2, <2>3
  <2>5. PICK j \in 1..k : a[j] = r + (l + 1)
    BY <2>4
  <2>6. ~(j <= l)
    <3>1. j <= l => a[j] = r + j
      BY <2>1
    <3>. QED  BY <2>1, <2>5, <3>1
  <2>7. ~(l + 1 < j)
    <3>1. l + 1 < j => a[l + 1] < a[j]
      BY <2>1
    <3>. QED  BY <2>1, <2>2, <2>3, <2>5, <3>1
  <2>8. j = l + 1
    BY <2>1, <2>6, <2>7
  <2>9. \A i \in 1..(l + 1) : i \in 1..l \/ i = l + 1
    BY <2>1
  <2>. QED  BY <2>1, <2>4, <2>5, <2>8, <2>9
<1>0. Done \subseteq Nat
  OBVIOUS
<1>. HIDE DEF Done
<1>3. \A l \in Nat : l \in Done
  BY <1>0, <1>1, <1>2, NatInductive
<1>4. k \in Done
  BY <1>3
<1>5. r + k <= n /\ \A i \in 1..k : a[i] = r + i
  BY <1>4 DEF Done
<1>6. ASSUME r + k < n PROVE FALSE
  <2>1. n \in (r + 1)..n
    BY <1>6
  <2>2. PICK i \in 1..k : a[i] = n
    BY <2>1
  <2>. QED  BY <1>5, <1>6, <2>2
<1>. QED  BY <1>5, <1>6

\* The jobs of p in the queue, and then its reactions, have the numbers that
\* follow those of the reactions that were called.
Numbers(s, p) ==
  LET q == s.promise[p]
      queued == Filter(s.queue, {j \in Range(s.queue) : j.from = p})
      ids == [i \in DOMAIN queued |-> queued[i].id]
             \o [i \in DOMAIN q.reactions |-> q.reactions[i].id] IN
  ids = [i \in 1..(q.thens - q.ran) |-> q.ran + i]

LEMMA LinedNumbers ==
  ASSUME NEW s, NEW p, Lined(s, p), IsSeq(s.queue), IsSeq(s.promise[p].reactions)
  PROVE  Numbers(s, p)
<1>a. SUFFICES ASSUME NEW q, q = s.promise[p],
                      NEW queued, queued = Filter(s.queue, {j \in Range(s.queue) : j.from = p}),
                      NEW ids, ids = [i \in DOMAIN queued |-> queued[i].id]
                                     \o [i \in DOMAIN q.reactions |-> q.reactions[i].id]
               PROVE  ids = [i \in 1..(q.thens - q.ran) |-> q.ran + i]
  BY DEF Numbers
<1>1. PICK X : s.queue \in Seq(X)
  BY DEF IsSeq
<1>2. PICK sq \in Seq(X) : sq = s.queue
  BY <1>1
<1>3. PICK K : K = {j \in Range(sq) : j.from = p}
  OBVIOUS
<1>4. queued = Filter(sq, K)
  BY <1>a, <1>2, <1>3
<1>5. queued \in Seq(X) /\ \E f : Embeds(sq, K, Len(sq), queued, f)
  BY <1>4, FilterEmbeds
<1>6. PICK f : Embeds(sq, K, Len(sq), queued, f)
  BY <1>5
<1>7. PICK k \in Nat : k = Len(queued) /\ DOMAIN queued = 1..k
  BY <1>5, LenProperties
<1>0. PICK n : n = Queued(q)
  OBVIOUS
<1>8. PICK x \in Nat, M \in Nat : x = q.ran /\ M = Len(q.reactions) /\ n = Queued(q)
  BY <1>a, <1>0, SeqBasics DEF Lined
<1>9. x <= n /\ n \in Nat /\ q.thens - q.ran = (n - x) + M
  <2>1. PICK c \in Nat : c = q.thens
    BY <1>a DEF Lined
  <2>2. n = c - M /\ x <= n
    BY <1>a, <1>8, <2>1 DEF Lined, Queued
  <2>3. n \in Nat /\ c - x = (n - x) + M
    BY <2>2
  <2>. QED  BY <1>8, <2>1, <2>2, <2>3
<1>10. \A i \in 1..k : f[i] \in JobsOf(s, p) /\ queued[i] = s.queue[f[i]]
  <2>. TAKE i \in 1..k
  <2>1. f[i] \in 1..Len(sq) /\ queued[i] = sq[f[i]] /\ sq[f[i]] \in K
    BY <1>6, <1>7 DEF Embeds
  <2>2. DOMAIN sq = 1..Len(sq)
    BY LenProperties
  <2>. QED  BY <1>2, <1>3, <2>1, <2>2 DEF JobsOf
<1>11. ASSUME NEW j \in JobsOf(s, p) PROVE \E i \in 1..k : f[i] = j
  <2>1. j \in 1..Len(sq) /\ sq[j].from = p
    BY <1>2, LenProperties DEF JobsOf
  <2>2. sq[j] \in K
    BY <1>3, <2>1, LenProperties DEF Range
  <2>. QED  BY <1>6, <1>7, <2>1, <2>2 DEF Embeds
<1>12. PICK a : a = [i \in 1..k |-> queued[i].id]
  OBVIOUS
<1>13. \A i \in 1..k : a[i] = s.queue[f[i]].id
  BY <1>10, <1>12
<1>14. /\ \A j \in JobsOf(s, p) : s.queue[j].id \in (x + 1)..n
       /\ \A m \in (x + 1)..n : \E j \in JobsOf(s, p) : s.queue[j].id = m
       /\ \A i, j \in JobsOf(s, p) : i < j => s.queue[i].id < s.queue[j].id
  BY <1>a, <1>8 DEF Lined
<1>15. k = n - x /\ \A i \in 1..k : a[i] = x + i
  <2>1. \A i \in 1..k : a[i] \in (x + 1)..n
    BY <1>10, <1>13, <1>14
  <2>2. \A m \in (x + 1)..n : \E i \in 1..k : a[i] = m
    <3>. TAKE m \in (x + 1)..n
    <3>1. PICK j \in JobsOf(s, p) : s.queue[j].id = m
      BY <1>14
    <3>2. PICK i \in 1..k : f[i] = j
      BY <1>11
    <3>. QED  BY <1>13, <3>1, <3>2
  <2>3. \A i, j \in 1..k : i < j => a[i] < a[j]
    <3>. TAKE i, j \in 1..k
    <3>. HAVE i < j
    <3>1. f[i] < f[j]
      BY <1>6, <1>7 DEF Embeds
    <3>. QED  BY <1>10, <1>13, <1>14, <3>1
  <2>4. x <= n /\ n \in Nat
    BY <1>9
  <2>5. Climbs(a, k, x, n)
    BY <2>1, <2>2, <2>3, <2>4 DEF Climbs
  <2>6. OneByOne(a, k, x, n)
    BY <2>4, <2>5, IncreasingOnto
  <2>. QED  BY <2>6 DEF OneByOne
<1>16. PICK z : z = [i \in DOMAIN q.reactions |-> q.reactions[i].id]
  OBVIOUS
<1>17. DOMAIN q.reactions = 1..M /\ \A i \in 1..M : z[i] = n + i
  <2>1. DOMAIN q.reactions = 1..M
    BY <1>a, <1>8, SeqBasics
  <2>2. \A i \in DOMAIN q.reactions : q.reactions[i].id = n + i
    BY <1>a, <1>8 DEF Lined
  <2>. QED  BY <1>16, <2>1, <2>2
<1>18. ids = a \o z
  BY <1>a, <1>7, <1>12, <1>16
<1>19. IsSeq(a) /\ Len(a) = k /\ IsSeq(z) /\ Len(z) = M
  <2>1. a = [i \in 1..k |-> a[i]] /\ z = [i \in 1..M |-> z[i]]
    BY <1>12, <1>16, <1>17
  <2>. QED  BY <2>1, SeqOfFunction
<1>20. /\ IsSeq(ids) /\ DOMAIN ids = 1..(k + M)
       /\ \A i \in 1..k : ids[i] = a[i]
       /\ \A i \in 1..M : ids[k + i] = z[i]
  <2>1. /\ IsSeq(a \o z) /\ DOMAIN (a \o z) = 1..(Len(a) + Len(z))
        /\ \A i \in 1..Len(a) : (a \o z)[i] = a[i]
        /\ \A i \in 1..Len(z) : (a \o z)[Len(a) + i] = z[i]
    <3>1. IsSeq(a) /\ IsSeq(z)
      BY <1>19
    <3>. QED  BY <3>1, SeqConcat
  <2>. QED  BY <1>18, <1>19, <2>1
<1>21. \A i \in 1..(k + M) : ids[i] = x + i
  <2>. TAKE i \in 1..(k + M)
  <2>1. CASE i \in 1..k
    BY <1>15, <1>20, <2>1
  <2>2. CASE i \notin 1..k
    <3>1. i - k \in 1..M /\ k + (i - k) = i
      BY <2>2
    <3>2. ids[i] = n + (i - k)
      BY <1>17, <1>20, <3>1
    <3>. QED  BY <1>9, <1>15, <3>2
  <2>. QED  BY <2>1, <2>2
<1>22. ids = [i \in 1..(k + M) |-> ids[i]]
  <2>1. PICK Y : ids \in Seq(Y)
    BY <1>20 DEF IsSeq
  <2>2. ids \in [1..Len(ids) -> Y]
    BY <2>1, LenProperties
  <2>. QED  BY <1>20, <2>2
<1>23. k + M = q.thens - q.ran
  BY <1>9, <1>15
<1>. QED  BY <1>a, <1>8, <1>21, <1>22, <1>23

\* Of every promise the reactions that were not called yet are the jobs in the
\* queue and then the reactions it keeps, in the order of the calls of then()
\* and with none lost or called twice (perform_promise_then,
\* fulfill_or_reject_promise, promise_reaction_job), for any number of promises,
\* reactions and jobs.
THEOREM ReactionsAlwaysInOrder == Spec => []ReactionsInOrder
<1>1. EngineFine => ReactionsInOrder
  <2>. HAVE EngineFine
  <2>1. PICK s : s = S
    OBVIOUS
  <2>2. Good(s) /\ InOrder(s)
    BY <2>1 DEF EngineFine, Fine
  <2>3. IsSeq(s.queue) /\ \A p \in Nums(s) : Lined(s, p) /\ IsSeq(s.promise[p].reactions)
    BY <2>2 DEF Good, Shape, PromiseShape, InOrder
  <2>4. \A p \in Nums(s) : Numbers(s, p)
    BY <2>3, LinedNumbers
  <2>5. \A p \in Made : Numbers(S, p)
    BY <2>1, <2>4 DEF Made, Newest, Nums
  <2>. QED  BY <2>5 DEF ReactionsInOrder, Numbers
<1>. QED  BY <1>1, FineInvariant, PTL

\* A suspended async function or generator is resumed by one reaction or job
\* and by no other, one that ended by none, and a generator is resumed with a
\* request in its queue (js_async_function_resume,
\* js_async_generator_resume_next).
THEOREM BodyHasOneWakeup == Spec => []OneWakeup
<1>1. EngineFine => OneWakeup
  <2>. HAVE EngineFine
  <2>1. PICK s : s = S
    OBVIOUS
  <2>2. Good(s) /\ Awake(s, "none", 0) /\ RequestWaits(s.gen)
    BY <2>1 DEF EngineFine, Fine, WakeOK
  <2>3. ASSUME NEW k, NEW f
        PROVE  Wakeups(k, f) = Cardinality(JobSpots(s, k, f)) + Cardinality(ReactionPairs(s, k, f))
    <3>1. JobSpots(s, k, f) = {j \in DOMAIN S.queue : S.queue[j].h.k = k /\ S.queue[j].h.p = f}
      BY <2>1 DEF JobSpots, IsFor
    <3>2. \A q : ReactionSpots(s, q, k, f)
                   = {j \in DOMAIN S.promise[q].reactions :
                        S.promise[q].reactions[j].onFulfilled.k = k
                        /\ S.promise[q].reactions[j].onFulfilled.p = f}
      BY <2>1 DEF ReactionSpots, IsFor
    <3>3. ReactionPairs(s, k, f)
            = UNION {{<<q, i>> : i \in {j \in DOMAIN S.promise[q].reactions :
                          S.promise[q].reactions[j].onFulfilled.k = k
                          /\ S.promise[q].reactions[j].onFulfilled.p = f}} : q \in Made}
      BY <2>1, <3>2 DEF ReactionPairs, Made, Newest, Nums
    <3>. QED  BY <3>1, <3>3 DEF Wakeups
  <2>4. ASSUME NEW k \in Wakers, NEW f \in Nat, IsBody(s, k, f)
        PROVE  /\ Suspended(s, k, f) => Wakeups(k, f) = 1
               /\ ~Suspended(s, k, f) => Wakeups(k, f) = 0
    <3>1. Woken(s, k, f, Suspended(s, k, f))
      BY <2>2, <2>4 DEF Awake, Wakers
    <3>. QED  BY <2>3, <3>1, CountSpots DEF Woken
  <2>5. "function" \in Wakers /\ "generator" \in Wakers /\ "return" \in Wakers /\ 0 \in Nat
    BY DEF Wakers
  <2>6. \A f \in Made : Wakeups("function", f) = IF S.promise[f].frame = "awaiting" THEN 1 ELSE 0
    <3>. TAKE f \in Made
    <3>1. IsBody(s, "function", f) /\ f \in Nat
      BY <2>1, <2>2, Numbered DEF IsBody, Made, Newest, Nums, Good
    <3>2. Suspended(s, "function", f) <=> S.promise[f].frame = "awaiting"
      BY <2>1 DEF Suspended
    <3>3. /\ Suspended(s, "function", f) => Wakeups("function", f) = 1
          /\ ~Suspended(s, "function", f) => Wakeups("function", f) = 0
      BY <2>4, <2>5, <3>1
    <3>. QED  BY <3>2, <3>3
  <2>7. Wakeups("generator", 0) = IF S.gen.state = "executing" /\ ~S.gen.running THEN 1 ELSE 0
    <3>1. IsBody(s, "generator", 0)
      BY DEF IsBody
    <3>2. Suspended(s, "generator", 0) <=> S.gen.state = "executing" /\ ~S.gen.running
      BY <2>1 DEF Suspended
    <3>3. /\ Suspended(s, "generator", 0) => Wakeups("generator", 0) = 1
          /\ ~Suspended(s, "generator", 0) => Wakeups("generator", 0) = 0
      BY <2>4, <2>5, <3>1
    <3>. QED  BY <3>2, <3>3
  <2>8. Wakeups("return", 0) = IF S.gen.state = "awaiting_return" THEN 1 ELSE 0
    <3>1. IsBody(s, "return", 0)
      BY DEF IsBody
    <3>2. Suspended(s, "return", 0) <=> S.gen.state = "awaiting_return"
      BY <2>1 DEF Suspended
    <3>3. /\ Suspended(s, "return", 0) => Wakeups("return", 0) = 1
          /\ ~Suspended(s, "return", 0) => Wakeups("return", 0) = 0
      BY <2>4, <2>5, <3>1
    <3>. QED  BY <3>2, <3>3
  <2>9. S.gen.state \in {"executing", "awaiting_return"} => S.gen.queue # <<>>
    BY <2>1, <2>2 DEF RequestWaits
  <2>. QED  BY <2>6, <2>7, <2>8, <2>9 DEF OneWakeup
<1>. QED  BY <1>1, FineInvariant, PTL
=============================================================================
