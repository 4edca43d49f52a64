--------------------------- MODULE Timers_proofs ---------------------------
(***************************************************************************)
(* Proofs about Timers for any delays, period, number of timers and        *)
(* reloads: a timeout fires at most once, although two threads change the  *)
(* list without a lock, and no timer is collected too early.               *)
(***************************************************************************)
EXTENDS Timers, SequenceLemmas

Node == [inst : Insts, id : Nat, delay : Delays, elapsed : 0..INT_MAX, repeat : BOOLEAN,
         ctx : Nat, null : BOOLEAN, age : 0..INT_MAX]

Call == [inst : Insts, ctx : Nat]

TypeInv ==
  /\ timers \in Seq(Node)
  /\ timerPc \in {"none", "sleep", "scan", "remove", "erase", "call", "wait"}
  /\ cursor \in 0..Len(timers)
  /\ kept \in 0..Len(timers) /\ (timerPc = "remove" => kept <= cursor)
  /\ callbacks \in Seq(Call)
  /\ inbox \in Insts \cup {None}
  /\ slept \in 0..sleep_time
  /\ ctx \in Nat
  /\ made \in 0..MaxTimers
  /\ handle \in [Insts -> [id : Nat, repeat : BOOLEAN, ctx : Nat]]
  /\ calls \in [Insts -> 0..2]

\* Nothing of timer n is on its way to a call, or was called.
Unfired(n) == calls[n] = 0 /\ inbox # n /\ \A c \in Range(callbacks) : c.inst # n

NodeOK(x) ==
  /\ x.inst <= made
  /\ x.repeat = handle[x.inst].repeat
  /\ ~x.null /\ ~x.repeat => Unfired(x.inst)

OnceInv ==
  /\ \A i \in DOMAIN timers : NodeOK(timers[i])
  /\ \A i, j \in DOMAIN timers : timers[i].inst = timers[j].inst => i = j
  /\ \A i \in DOMAIN callbacks :
       LET n == callbacks[i].inst IN
       /\ n <= made
       /\ ~handle[n].repeat => /\ calls[n] = 0 /\ inbox # n
                               /\ \A j \in DOMAIN callbacks : callbacks[j].inst = n => i = j
  /\ inbox # None => inbox <= made /\ (~handle[inbox].repeat => calls[inbox] = 0)
  /\ \A n \in Insts : (n > made => calls[n] = 0) /\ (~handle[n].repeat => calls[n] <= 1)

\* How far the counted time of the node at place i may be ahead of the time
\* that has passed.
Slack(i) ==
  IF timerPc = "sleep" THEN sleep_time - slept
  ELSE IF timerPc = "scan" /\ i > cursor THEN 0 ELSE sleep_time

TimeInv ==
  /\ timerPc = "none" => timers = <<>> /\ slept = 0
  /\ \A i \in DOMAIN timers :
       /\ timers[i].age <= timers[i].delay
       /\ timers[i].elapsed = 0 \/ timers[i].elapsed < timers[i].delay
       /\ timers[i].null \/ timers[i].elapsed <= timers[i].age + Slack(i)

TimerInv == TypeInv /\ OnceInv /\ TimeInv

(***************************************************************************)
(* Nodes.                                                                  *)
(***************************************************************************)
LEMMA NodeFields ==
  \A x \in Node : /\ x.inst \in Insts /\ x.delay \in Delays /\ x.delay \in Int
                  /\ x.delay <= INT_MAX - sleep_time + 1 /\ x.delay >= 0
                  /\ x.elapsed \in Int /\ x.elapsed >= 0
                  /\ x.age \in Int /\ x.age >= 0
                  /\ x.repeat \in BOOLEAN /\ x.null \in BOOLEAN
<1>1. \A x \in Node : /\ x.inst \in Insts /\ x.delay \in Delays
                      /\ x.elapsed \in 0..INT_MAX /\ x.age \in 0..INT_MAX
                      /\ x.repeat \in BOOLEAN /\ x.null \in BOOLEAN
  BY DEF Node
<1>2. \A d \in Delays : d \in Int /\ d <= INT_MAX - sleep_time + 1 /\ d >= 0
  BY TimerConstants
<1>3. \A e \in 0..INT_MAX : e \in Int /\ e >= 0
  BY TimerConstants
<1>. QED  BY <1>1, <1>2, <1>3

LEMMA Lists ==
  ASSUME TypeInv
  PROVE  /\ Len(timers) \in Nat /\ DOMAIN timers = 1..Len(timers)
         /\ \A i \in DOMAIN timers : timers[i] \in Node
         /\ Len(callbacks) \in Nat /\ DOMAIN callbacks = 1..Len(callbacks)
         /\ \A i \in DOMAIN callbacks : callbacks[i].inst \in Insts
         /\ cursor \in 0..Len(timers) /\ kept \in 0..Len(timers) /\ slept \in 0..sleep_time
<1>1. timers \in Seq(Node) /\ callbacks \in Seq(Call)
  BY DEF TypeInv
<1>2. \A i \in DOMAIN callbacks : callbacks[i] \in Call
  BY <1>1, ElementOfSeq, LenProperties
<1>3. \A c \in Call : c.inst \in Insts
  BY DEF Call
<1>. QED  BY <1>1, <1>2, <1>3, ElementOfSeq, LenProperties DEF TypeInv

\* Within the bound on delays the int addition of the scan does not wrap.
LEMMA NoWrap ==
  ASSUME NEW t \in Node, t.elapsed = 0 \/ t.elapsed < t.delay
  PROVE  /\ IntAdd(t.elapsed, sleep_time) = t.elapsed + sleep_time
         /\ t.elapsed + sleep_time \in 0..INT_MAX
<1>1. t.elapsed + sleep_time <= INT_MAX /\ t.elapsed + sleep_time \in Nat
  BY NodeFields, TimerConstants
<1>. QED  BY <1>1, TimerConstants DEF IntAdd

LEMMA VisitedNode ==
  ASSUME NEW t \in Node, t.elapsed = 0 \/ t.elapsed < t.delay, t.age <= t.delay
  PROVE  LET v == Visited(t) IN
         /\ v \in Node /\ v.inst = t.inst /\ v.repeat = t.repeat /\ v.delay = t.delay
         /\ t.null => v.null
         /\ Collects(t) /\ ~t.repeat => v.null
         /\ v.elapsed = 0 \/ v.elapsed < v.delay
         /\ v.age <= v.delay
         /\ ~t.null /\ t.elapsed <= t.age => v.elapsed <= v.age + sleep_time
<1>. DEFINE e == t.elapsed + sleep_time
<1>1. IntAdd(t.elapsed, sleep_time) = e /\ e \in 0..INT_MAX /\ (Due(t) <=> e >= t.delay)
  BY NoWrap DEF Due
<1>. HIDE DEF e
<1>2. CASE t.null \/ t.ctx # ctx
  <2>1. Visited(t) = [t EXCEPT !.null = TRUE]
    BY <1>2 DEF Visited
  <2>2. /\ Visited(t) \in Node /\ Visited(t).inst = t.inst /\ Visited(t).repeat = t.repeat
        /\ Visited(t).delay = t.delay /\ Visited(t).null = TRUE
        /\ Visited(t).elapsed = t.elapsed /\ Visited(t).age = t.age
    BY <2>1 DEF Node
  <2>3. t.elapsed <= t.age => t.elapsed <= t.age + sleep_time
    BY NodeFields, TimerConstants
  <2>. QED  BY <2>2, <2>3
<1>3. CASE ~(t.null \/ t.ctx # ctx) /\ Due(t)
  <2>1. Visited(t) = [t EXCEPT !.elapsed = 0, !.null = ~t.repeat, !.age = 0]
    BY <1>3 DEF Visited
  <2>2. /\ Visited(t) \in Node /\ Visited(t).inst = t.inst /\ Visited(t).repeat = t.repeat
        /\ Visited(t).delay = t.delay /\ Visited(t).null = ~t.repeat
        /\ Visited(t).elapsed = 0 /\ Visited(t).age = 0
    <3>1. 0 \in 0..INT_MAX /\ (~t.repeat) \in BOOLEAN
      BY TimerConstants
    <3>. DEFINE r == ~t.repeat
    <3>2. r \in BOOLEAN
      BY <3>1
    <3>3. Visited(t) = [t EXCEPT !.elapsed = 0, !.null = r, !.age = 0]
      BY <2>1
    <3>. HIDE DEF r
    <3>4. /\ Visited(t) \in Node /\ Visited(t).inst = t.inst /\ Visited(t).repeat = t.repeat
          /\ Visited(t).delay = t.delay /\ Visited(t).null = r
          /\ Visited(t).elapsed = 0 /\ Visited(t).age = 0
      BY <3>1, <3>2, <3>3 DEF Node
    <3>. QED  BY <3>4 DEF r
  <2>3. t.delay >= 0 /\ 0 <= 0 + sleep_time
    BY NodeFields, TimerConstants
  <2>. QED  BY <1>3, <2>2, <2>3
<1>4. CASE ~(t.null \/ t.ctx # ctx) /\ ~Due(t)
  <2>1. Visited(t) = [t EXCEPT !.elapsed = e]
    BY <1>1, <1>4 DEF Visited
  <2>2. /\ Visited(t) \in Node /\ Visited(t).inst = t.inst /\ Visited(t).repeat = t.repeat
        /\ Visited(t).delay = t.delay /\ Visited(t).null = t.null
        /\ Visited(t).elapsed = e /\ Visited(t).age = t.age
    BY <1>1, <2>1 DEF Node
  <2>3. e < t.delay /\ (t.elapsed <= t.age => e <= t.age + sleep_time)
    BY <1>1, <1>4, NodeFields, TimerConstants DEF e
  <2>. QED  BY <1>4, <2>2, <2>3 DEF Collects
<1>. QED  BY <1>2, <1>3, <1>4

LEMMA OlderNode ==
  ASSUME NEW t \in Node, t.age <= t.delay
  PROVE  LET v == Older(t) IN
         /\ v \in Node /\ v.inst = t.inst /\ v.repeat = t.repeat /\ v.delay = t.delay
         /\ v.null = t.null /\ v.elapsed = t.elapsed
         /\ v.age = IF t.age < t.delay THEN t.age + 1 ELSE t.delay
<1>1. CASE t.age < t.delay
  <2>1. t.age + 1 \in 0..INT_MAX
    BY <1>1, NodeFields, TimerConstants
  <2>2. Older(t) = [t EXCEPT !.age = t.age + 1]
    BY <1>1 DEF Older
  <2>. QED  BY <1>1, <2>1, <2>2 DEF Node
<1>2. CASE ~(t.age < t.delay)
  BY <1>2, NodeFields DEF Older
<1>. QED  BY <1>1, <1>2

(***************************************************************************)
(* Types.                                                                  *)
(***************************************************************************)
LEMMA TypeSetTimer ==
  ASSUME TypeInv, NEW d \in Delays, NEW r \in BOOLEAN, SetTimer(d, r)
  PROVE  /\ TypeInv'
         /\ Len(timers') = Len(timers) + 1
         /\ \A i \in 1..Len(timers) : timers'[i] = timers[i]
         /\ timers'[Len(timers) + 1] =
              [inst |-> made + 1, id |-> Len(timers) + 1, delay |-> d, elapsed |-> 0,
               repeat |-> r, ctx |-> ctx, null |-> FALSE, age |-> 0]
<1>. DEFINE x == [inst |-> made + 1, id |-> Len(timers) + 1, delay |-> d, elapsed |-> 0,
                  repeat |-> r, ctx |-> ctx, null |-> FALSE, age |-> 0]
<1>1. made + 1 \in Insts /\ Len(timers) + 1 \in Nat /\ ctx \in Nat /\ 0 \in 0..INT_MAX
  BY Lists, TimerConstants DEF TypeInv, SetTimer, Insts
<1>2. x \in Node
  BY <1>1 DEF Node
<1>3. timers \in Seq(Node) /\ timers' = Append(timers, x)
  BY DEF TypeInv, SetTimer
<1>4. handle' \in [Insts -> [id : Nat, repeat : BOOLEAN, ctx : Nat]]
  BY <1>1 DEF TypeInv, SetTimer
<1>. HIDE DEF x
<1>5. /\ timers' \in Seq(Node) /\ Len(timers') = Len(timers) + 1
      /\ \A i \in 1..Len(timers) : timers'[i] = timers[i]
      /\ timers'[Len(timers) + 1] = x
  BY <1>2, <1>3, AppendProperties, LenProperties
<1>6. made' \in 0..MaxTimers
  BY TimerConstants DEF TypeInv, SetTimer
<1>7. /\ cursor' \in 0..Len(timers') /\ kept' \in 0..Len(timers')
      /\ timerPc' = "remove" => kept' <= cursor'
  BY <1>5, Lists DEF SetTimer, TypeInv
<1>8. timerPc' \in {"none", "sleep", "scan", "remove", "erase", "call", "wait"}
  BY DEF TypeInv, SetTimer
<1>9. TypeInv'
  BY <1>4, <1>5, <1>6, <1>7, <1>8 DEF TypeInv, SetTimer, loopVars
<1>. QED  BY <1>5, <1>9 DEF x

LEMMA TypeEraseAt ==
  ASSUME TypeInv, NEW i \in DOMAIN timers, EraseAt(i),
         UNCHANGED <<timerVars, inbox, loopVars, made, handle, calls>>
  PROVE  TypeInv'
<1>1. timers \in Seq(Node) /\ i \in 1..Len(timers) /\ Len(timers) \in Nat
  BY Lists DEF TypeInv
<1>2. timers' \in Seq(Node) /\ Len(timers') = Len(timers) - 1
  BY <1>1, RemoveAtElements DEF EraseAt
<1>3. /\ cursor' \in 0..Len(timers') /\ kept' \in 0..Len(timers')
      /\ timerPc' = "remove" => kept' <= cursor'
  BY <1>1, <1>2 DEF EraseAt, TypeInv, timerVars
<1>. QED  BY <1>2, <1>3 DEF TypeInv, timerVars, loopVars

LEMMA TypeScanNext ==
  ASSUME TypeInv, TimeInv, ScanNext
  PROVE  /\ TypeInv'
         /\ cursor + 1 \in DOMAIN timers /\ timers[cursor + 1] \in Node
         /\ DOMAIN timers' = DOMAIN timers
         /\ timers'[cursor + 1] = Visited(timers[cursor + 1])
         /\ \A i \in DOMAIN timers : i # cursor + 1 => timers'[i] = timers[i]
<1>. DEFINE t == timers[cursor + 1]
<1>1. cursor + 1 \in DOMAIN timers /\ t \in Node
  BY Lists DEF ScanNext
<1>2. Visited(t) \in Node
  BY <1>1, VisitedNode DEF TimeInv
<1>. DEFINE v == Visited(t)
<1>3. timers' = [timers EXCEPT ![cursor + 1] = v] /\ timers \in [1..Len(timers) -> Node]
      /\ Len(timers) \in Nat
  BY Lists DEF ScanNext, TypeInv
<1>4. v \in Node
  BY <1>2
<1>. HIDE DEF v, t
<1>5. timers' \in [1..Len(timers) -> Node]
  BY <1>1, <1>3, <1>4
<1>6. timers' \in Seq(Node) /\ Len(timers') = Len(timers) /\ DOMAIN timers' = 1..Len(timers)
  BY <1>3, <1>5, FunctionIsSeq
<1>7. [inst |-> t.inst, ctx |-> t.ctx] \in Call
  BY <1>1 DEF Node, Call
<1>8. callbacks' \in Seq(Call)
  <2>1. callbacks \in Seq(Call)
    BY DEF TypeInv
  <2>2. \/ callbacks' = callbacks
        \/ callbacks' = Append(callbacks, [inst |-> t.inst, ctx |-> t.ctx])
    BY DEF ScanNext, t
  <2>. DEFINE c == [inst |-> t.inst, ctx |-> t.ctx]
  <2>3. c \in Call
    BY <1>7
  <2>4. callbacks' = callbacks \/ callbacks' = Append(callbacks, c)
    BY <2>2
  <2>. HIDE DEF c
  <2>. QED  BY <2>1, <2>3, <2>4, AppendProperties
<1>9. /\ cursor' \in 0..Len(timers') /\ kept' \in 0..Len(timers') /\ timerPc' = "scan"
  BY <1>1, <1>6, Lists DEF ScanNext
<1>10. TypeInv'
  BY <1>6, <1>8, <1>9 DEF TypeInv, ScanNext, loopVars, histVars
<1>11. /\ timers'[cursor + 1] = v
       /\ \A i \in DOMAIN timers : i # cursor + 1 => timers'[i] = timers[i]
  BY <1>1, <1>3
<1>. QED  BY <1>1, <1>3, <1>6, <1>10, <1>11, Lists DEF v, t

LEMMA TypePassTime ==
  ASSUME TypeInv, TimeInv, PassTime
  PROVE  /\ TypeInv' /\ DOMAIN timers' = DOMAIN timers
         /\ \A i \in DOMAIN timers : timers'[i] = Older(timers[i])
<1>1. \A i \in 1..Len(timers) : Older(timers[i]) \in Node
  BY Lists, OlderNode DEF TimeInv
<1>2. timers' = [i \in 1..Len(timers) |-> Older(timers[i])] /\ Len(timers) \in Nat
  BY Lists DEF PassTime
<1>3. timers' \in [1..Len(timers) -> Node]
  BY <1>1, <1>2
<1>4. timers' \in Seq(Node) /\ Len(timers') = Len(timers) /\ DOMAIN timers' = 1..Len(timers)
  BY <1>2, <1>3, FunctionIsSeq
<1>5. slept' \in 0..sleep_time
  BY TimerConstants DEF PassTime, TypeInv
<1>6. TypeInv'
  BY <1>4, <1>5 DEF PassTime, TypeInv, loopVars, histVars
<1>. QED  BY <1>2, <1>4, <1>6, Lists

\* remove_if swaps two nodes, of which it is on the later one.
LEMMA TypeRemoveNext ==
  ASSUME TypeInv, RemoveNext
  PROVE  /\ TypeInv' /\ DOMAIN timers' = DOMAIN timers
         /\ \E f \in [DOMAIN timers' -> DOMAIN timers] :
              /\ \A k \in DOMAIN timers' : timers'[k] = timers[f[k]]
              /\ \A k, m \in DOMAIN timers' : f[k] = f[m] => k = m
<1>1. PICK a, b \in 1..Len(timers) : a = kept + 1 /\ b = cursor + 1 /\ a <= b
  <2>1. /\ kept \in 0..Len(timers) /\ kept <= cursor /\ cursor < Len(timers)
        /\ cursor \in 0..Len(timers) /\ Len(timers) \in Nat
    BY Lists DEF RemoveNext, TypeInv
  <2>. QED  BY <2>1
<1>2. /\ timers \in Seq(Node) /\ timers \in [1..Len(timers) -> Node]
      /\ Len(timers) \in Nat /\ DOMAIN timers = 1..Len(timers)
  BY Lists, LenProperties DEF TypeInv
<1>3. /\ timerPc = "remove" /\ timerPc' = "remove" /\ cursor' = cursor + 1
      /\ cursor \in Nat /\ kept \in Nat /\ kept <= cursor /\ cursor + 1 <= Len(timers)
  BY <1>2 DEF RemoveNext, TypeInv
<1>4. CASE UNCHANGED <<timers, kept>>
  <2>1. TypeInv'
    BY <1>2, <1>3, <1>4 DEF TypeInv, RemoveNext, loopVars, histVars
  <2>. DEFINE f == [k \in DOMAIN timers' |-> k]
  <2>2. /\ f \in [DOMAIN timers' -> DOMAIN timers] /\ \A k \in DOMAIN timers' : f[k] = k
    BY <1>4
  <2>. HIDE DEF f
  <2>3. /\ \A k \in DOMAIN timers' : timers'[k] = timers[f[k]]
        /\ \A k, m \in DOMAIN timers' : f[k] = f[m] => k = m
    BY <1>4, <2>2
  <2>. QED  BY <1>4, <2>1, <2>2, <2>3
<1>5. CASE /\ timers' = [timers EXCEPT ![a] = timers[b], ![b] = timers[a]]
           /\ kept' = kept + 1
  <2>1. timers' \in [1..Len(timers) -> Node]
    BY <1>1, <1>2, <1>5
  <2>2. timers' \in Seq(Node) /\ Len(timers') = Len(timers) /\ DOMAIN timers' = 1..Len(timers)
    BY <1>2, <2>1, FunctionIsSeq
  <2>3. TypeInv'
    BY <1>2, <1>3, <1>5, <2>2 DEF TypeInv, RemoveNext, loopVars, histVars
  <2>. DEFINE f == [k \in 1..Len(timers) |-> IF k = b THEN a ELSE IF k = a THEN b ELSE k]
  <2>4. f \in [1..Len(timers) -> 1..Len(timers)]
    BY <1>1
  <2>5. \A k \in 1..Len(timers) : timers'[k] = timers[f[k]]
    BY <1>1, <1>2, <1>5
  <2>6. \A k, m \in 1..Len(timers) : f[k] = f[m] => k = m
    BY <1>1
  <2>. HIDE DEF f
  <2>. QED  BY <1>2, <2>2, <2>3, <2>4, <2>5, <2>6
<1>. QED  BY <1>1, <1>4, <1>5 DEF RemoveNext

LEMMA TypeEraseNulls ==
  ASSUME TypeInv, EraseNulls
  PROVE  /\ TypeInv' /\ DOMAIN timers' \subseteq DOMAIN timers
         /\ \A k \in DOMAIN timers' : timers'[k] = timers[k]
<1>1. /\ timers \in Seq(Node) /\ timers' = SubSeq(timers, 1, kept)
      /\ kept \in 0..Len(timers) /\ Len(timers) \in Nat /\ DOMAIN timers = 1..Len(timers)
  BY Lists DEF TypeInv, EraseNulls
<1>2. /\ timers' \in Seq(Node) /\ Len(timers') = kept
      /\ \A k \in 1..kept : timers'[k] = timers[k]
  <2>1. \A k \in 1..kept : timers[k] \in Node
    BY <1>1, ElementOfSeq
  <2>. QED  BY <1>1, <2>1, SubSeqProperties
<1>3. DOMAIN timers' = 1..kept
  BY <1>2, LenProperties
<1>4. TypeInv'
  BY <1>1, <1>2 DEF TypeInv, EraseNulls, loopVars, histVars
<1>. QED  BY <1>1, <1>2, <1>3, <1>4

LEMMA TypeRunCallback ==
  ASSUME TypeInv, RunCallback
  PROVE  /\ TypeInv' /\ inbox \in Insts
         /\ calls'[inbox] = Counted(inbox)
         /\ \A n \in Insts : n # inbox => calls'[n] = calls[n]
<1>1. inbox \in Insts /\ calls \in [Insts -> 0..2]
  BY DEF TypeInv, RunCallback
<1>2. Counted(inbox) \in 0..2
  BY <1>1 DEF Counted
<1>. DEFINE c == Counted(inbox)
<1>3. calls' = [calls EXCEPT ![inbox] = c]
  BY DEF RunCallback
<1>4. c \in 0..2
  BY <1>2
<1>. HIDE DEF c
<1>5. /\ calls' \in [Insts -> 0..2] /\ calls'[inbox] = c
      /\ \A n \in Insts : n # inbox => calls'[n] = calls[n]
  BY <1>1, <1>3, <1>4
<1>6. TypeInv'
  BY <1>5 DEF TypeInv, RunCallback, listVars, loopVars
<1>. QED  BY <1>1, <1>5, <1>6 DEF c

LEMMA TypeCallNext ==
  ASSUME TypeInv, CallNext
  PROVE  /\ TypeInv' /\ callbacks # <<>> /\ Len(callbacks') = Len(callbacks) - 1
         /\ 1 \in DOMAIN callbacks /\ Head(callbacks) = callbacks[1]
         /\ \A i \in DOMAIN callbacks' : i + 1 \in DOMAIN callbacks /\ callbacks'[i] = callbacks[i + 1]
<1>1. callbacks \in Seq(Call) /\ callbacks # <<>> /\ callbacks' = Tail(callbacks)
  BY DEF TypeInv, CallNext
<1>2. /\ callbacks' \in Seq(Call) /\ Len(callbacks') = Len(callbacks) - 1
      /\ Head(callbacks) = callbacks[1] /\ Head(callbacks) \in Call
      /\ \A i \in 1..(Len(callbacks) - 1) : callbacks'[i] = callbacks[i + 1]
  BY <1>1, HeadTailProperties, LenProperties
<1>3. DOMAIN callbacks' = 1..(Len(callbacks) - 1) /\ Len(callbacks) \in Nat
  BY <1>1, <1>2, LenProperties
<1>4. Len(callbacks) # 0 /\ DOMAIN callbacks = 1..Len(callbacks)
  BY <1>1, EmptySeq, LenProperties
<1>5. TypeInv'
  BY <1>2 DEF TypeInv, Call, CallNext, listVars, loopVars, histVars
<1>. QED  BY <1>1, <1>2, <1>3, <1>4, <1>5

(***************************************************************************)
(* A timer is somewhere once.                                              *)
(***************************************************************************)
\* Nodes left the list, or were reset, and nothing else happened.
LEMMA OnceFewerNodes ==
  ASSUME TypeInv, TypeInv', OnceInv,
         UNCHANGED <<callbacks, inbox, made, handle, calls>>,
         NEW f \in [DOMAIN timers' -> DOMAIN timers],
         \A k, m \in DOMAIN timers' : f[k] = f[m] => k = m,
         \A k \in DOMAIN timers' : /\ timers'[k].inst = timers[f[k]].inst
                                   /\ timers'[k].repeat = timers[f[k]].repeat
                                   /\ timers[f[k]].null => timers'[k].null
  PROVE  OnceInv'
<1>1. \A n : Unfired(n)' = Unfired(n)
  BY DEF Unfired
<1>2. \A i \in DOMAIN timers' : NodeOK(timers[i])'
  <2>. SUFFICES ASSUME NEW k \in DOMAIN timers'
                PROVE  NodeOK(timers[k])'
    OBVIOUS
  <2>1. NodeOK(timers[f[k]])
    BY DEF OnceInv
  <2>. QED  BY <1>1, <2>1 DEF NodeOK
<1>3. \A i, j \in DOMAIN timers' : timers'[i].inst = timers'[j].inst => i = j
  BY DEF OnceInv
<1>. QED  BY <1>2, <1>3 DEF OnceInv

\* The special case that the list stays as it is.
LEMMA OnceSameNodes ==
  ASSUME TypeInv, OnceInv, UNCHANGED <<timers, callbacks, inbox, made, handle, calls>>
  PROVE  OnceInv'
<1>1. \A n : Unfired(n)' = Unfired(n)
  BY DEF Unfired
<1>2. \A x : NodeOK(x)' = NodeOK(x)
  BY <1>1 DEF NodeOK
<1>. QED  BY <1>2 DEF OnceInv

LEMMA OnceEraseAt ==
  ASSUME TypeInv, OnceInv, NEW i \in DOMAIN timers, EraseAt(i),
         UNCHANGED <<timerVars, inbox, loopVars, made, handle, calls>>
  PROVE  OnceInv'
<1>1. TypeInv'
  BY TypeEraseAt
<1>2. timers \in Seq(Node) /\ i \in 1..Len(timers) /\ timers' = RemoveAt(timers, i)
  BY Lists DEF TypeInv, EraseAt
<1>3. DOMAIN timers' = 1..(Len(timers) - 1) /\ DOMAIN timers = 1..Len(timers)
  BY <1>2, RemoveAtElements, LenProperties
<1>4. PICK f \in [DOMAIN timers' -> DOMAIN timers] :
        /\ \A k \in DOMAIN timers' : timers'[k] = timers[f[k]]
        /\ \A k, m \in DOMAIN timers' : f[k] = f[m] => k = m
  <2>1. PICK f \in [1..(Len(timers) - 1) -> 1..Len(timers)] :
          /\ \A k \in 1..(Len(timers) - 1) : f[k] # i /\ RemoveAt(timers, i)[k] = timers[f[k]]
          /\ \A k, m \in 1..(Len(timers) - 1) : k < m => f[k] < f[m]
          /\ \A k, m \in 1..(Len(timers) - 1) : f[k] = f[m] => k = m
    BY <1>2, RemoveAtEmbeds
  <2>. QED  BY <1>2, <1>3, <2>1
<1>5. UNCHANGED <<callbacks, inbox, made, handle, calls>>
  BY DEF timerVars
<1>. QED  BY <1>1, <1>4, <1>5, OnceFewerNodes

LEMMA OnceRemoveNext ==
  ASSUME TypeInv, OnceInv, RemoveNext
  PROVE  OnceInv'
<1>1. TypeInv'
  BY TypeRemoveNext
<1>2. PICK f \in [DOMAIN timers' -> DOMAIN timers] :
        /\ \A k \in DOMAIN timers' : timers'[k] = timers[f[k]]
        /\ \A k, m \in DOMAIN timers' : f[k] = f[m] => k = m
  BY TypeRemoveNext
<1>3. UNCHANGED <<callbacks, inbox, made, handle, calls>>
  BY DEF RemoveNext, histVars
<1>. QED  BY <1>1, <1>2, <1>3, OnceFewerNodes

LEMMA OnceEraseNulls ==
  ASSUME TypeInv, OnceInv, EraseNulls
  PROVE  OnceInv'
<1>1. /\ TypeInv' /\ DOMAIN timers' \subseteq DOMAIN timers
      /\ \A k \in DOMAIN timers' : timers'[k] = timers[k]
  BY TypeEraseNulls
<1>. DEFINE f == [k \in DOMAIN timers' |-> k]
<1>2. f \in [DOMAIN timers' -> DOMAIN timers] /\ \A k \in DOMAIN timers' : f[k] = k
  BY <1>1
<1>. HIDE DEF f
<1>3. /\ \A k \in DOMAIN timers' : timers'[k] = timers[f[k]]
      /\ \A k, m \in DOMAIN timers' : f[k] = f[m] => k = m
  BY <1>1, <1>2
<1>4. UNCHANGED <<callbacks, inbox, made, handle, calls>>
  BY DEF EraseNulls, histVars
<1>. QED  BY <1>1, <1>2, <1>3, <1>4, OnceFewerNodes

LEMMA OncePassTime ==
  ASSUME TypeInv, TimeInv, OnceInv, PassTime
  PROVE  OnceInv'
<1>1. TypeInv' /\ DOMAIN timers' = DOMAIN timers
      /\ \A i \in DOMAIN timers : timers'[i] = Older(timers[i])
  BY TypePassTime
<1>2. \A i \in DOMAIN timers : /\ timers'[i].inst = timers[i].inst
                               /\ timers'[i].repeat = timers[i].repeat
                               /\ timers'[i].null = timers[i].null
  BY <1>1, Lists, OlderNode DEF TimeInv
<1>. DEFINE f == [k \in DOMAIN timers' |-> k]
<1>3. f \in [DOMAIN timers' -> DOMAIN timers] /\ \A k \in DOMAIN timers' : f[k] = k
  BY <1>1
<1>4. \A k \in DOMAIN timers' : /\ timers'[k].inst = timers[f[k]].inst
                                /\ timers'[k].repeat = timers[f[k]].repeat
                                /\ timers[f[k]].null => timers'[k].null
  BY <1>1, <1>2, <1>3
<1>5. \A k, m \in DOMAIN timers' : f[k] = f[m] => k = m
  BY <1>3
<1>6. UNCHANGED <<callbacks, inbox, made, handle, calls>>
  BY DEF PassTime, histVars
<1>. HIDE DEF f
<1>. QED  BY <1>1, <1>3, <1>4, <1>5, <1>6, OnceFewerNodes

LEMMA OnceSetTimer ==
  ASSUME TypeInv, OnceInv, NEW d \in Delays, NEW r \in BOOLEAN, SetTimer(d, r)
  PROVE  OnceInv'
<1>0. PICK N \in Nat : N = Len(timers) + 1
  BY Lists
<1>1. /\ TypeInv' /\ Len(timers') = N
      /\ \A i \in 1..Len(timers) : timers'[i] = timers[i]
      /\ timers'[N].inst = made + 1 /\ timers'[N].repeat = r
  <2>1. /\ TypeInv' /\ Len(timers') = Len(timers) + 1
        /\ \A i \in 1..Len(timers) : timers'[i] = timers[i]
    BY TypeSetTimer
  <2>2. timers'[Len(timers) + 1] =
          [inst |-> made + 1, id |-> Len(timers) + 1, delay |-> d, elapsed |-> 0,
           repeat |-> r, ctx |-> ctx, null |-> FALSE, age |-> 0]
    BY TypeSetTimer
  <2>. QED  BY <1>0, <2>1, <2>2
<1>2. /\ made' = made + 1 /\ made \in Nat /\ made + 1 \in Insts /\ Insts \subseteq Nat
      /\ callbacks' = callbacks /\ inbox' = inbox /\ calls' = calls
  BY <1>0, TimerConstants DEF TypeInv, SetTimer, Insts
<1>3. /\ \A n \in Insts : n <= made => handle'[n] = handle[n]
      /\ handle'[made + 1].repeat = r
  <2>1. /\ handle \in [Insts -> [id : Nat, repeat : BOOLEAN, ctx : Nat]]
        /\ handle' = [handle EXCEPT ![made + 1] = [id |-> N, repeat |-> r, ctx |-> ctx]]
    BY <1>0 DEF TypeInv, SetTimer
  <2>2. \A n \in Insts : n <= made => n # made + 1
    BY <1>2
  <2>3. \A n \in Insts : n # made + 1 => handle'[n] = handle[n]
    BY <1>2, <2>1
  <2>4. handle'[made + 1] = [id |-> N, repeat |-> r, ctx |-> ctx]
    BY <1>2, <2>1
  <2>. QED  BY <2>2, <2>3, <2>4
<1>4. DOMAIN timers = 1..Len(timers) /\ DOMAIN timers' = 1..N /\ Len(timers) \in Nat
  <2>1. timers' \in Seq(Node)
    BY <1>1 DEF TypeInv
  <2>. QED  BY <1>1, <2>1, Lists, LenProperties
<1>5. \A n : Unfired(n)' = Unfired(n)
  BY <1>2 DEF Unfired
<1>6. \A i \in 1..Len(timers) : timers[i].inst \in Insts /\ timers[i].inst <= made
  BY <1>4, Lists, NodeFields DEF OnceInv, NodeOK
<1>7. \A i \in DOMAIN callbacks : callbacks[i].inst \in Insts /\ callbacks[i].inst <= made
  BY Lists DEF OnceInv
<1>8. Unfired(made + 1)
  <2>1. calls[made + 1] = 0
    BY <1>2 DEF OnceInv
  <2>2. inbox # made + 1
    BY <1>2 DEF OnceInv, None
  <2>3. \A c \in Range(callbacks) : c.inst # made + 1
    BY <1>2, <1>7 DEF Range
  <2>. QED  BY <2>1, <2>2, <2>3 DEF Unfired
<1>9. \A i \in DOMAIN timers' : NodeOK(timers[i])'
  <2>1. \A i \in 1..Len(timers) : NodeOK(timers[i])'
    <3>. TAKE i \in 1..Len(timers)
    <3>1. NodeOK(timers[i])
      BY <1>4 DEF OnceInv
    <3>2. timers'[i] = timers[i] /\ timers[i].inst \in Insts /\ timers[i].inst <= made
      BY <1>1, <1>6
    <3>3. \A n \in Insts : n <= made => n <= made' /\ handle'[n] = handle[n]
      BY <1>2, <1>3
    <3>. QED  BY <1>5, <3>1, <3>2, <3>3 DEF NodeOK
  <2>2. NodeOK(timers[N])'
    <3>1. timers'[N].inst = made + 1 /\ timers'[N].repeat = handle'[made + 1].repeat
      BY <1>1, <1>3
    <3>2. \A n : n = made + 1 => (n <= made' /\ Unfired(n)')
      BY <1>2, <1>5, <1>8
    <3>. QED  BY <3>1, <3>2 DEF NodeOK
  <2>. QED  BY <1>0, <1>4, <2>1, <2>2
<1>10. \A i, j \in DOMAIN timers' : timers'[i].inst = timers'[j].inst => i = j
  <2>1. \A i, j \in 1..Len(timers) : timers[i].inst = timers[j].inst => i = j
    BY <1>4 DEF OnceInv
  <2>2. \A i \in 1..Len(timers) : timers'[i].inst # timers'[N].inst
    BY <1>1, <1>2, <1>6
  <2>. QED  BY <1>0, <1>1, <1>4, <2>1, <2>2
<1>11. \A i \in DOMAIN callbacks :
         LET n == callbacks[i].inst IN
         /\ n <= made'
         /\ ~handle'[n].repeat =>
              /\ calls[n] = 0 /\ inbox # n
              /\ \A j \in DOMAIN callbacks : callbacks[j].inst = n => i = j
  <2>. SUFFICES ASSUME NEW i \in DOMAIN callbacks, NEW n, n = callbacks[i].inst
                PROVE  /\ n <= made'
                       /\ ~handle'[n].repeat =>
                            /\ calls[n] = 0 /\ inbox # n
                            /\ \A j \in DOMAIN callbacks : callbacks[j].inst = n => i = j
    OBVIOUS
  <2>1. n \in Insts /\ n <= made
    BY <1>7
  <2>2. n <= made' /\ handle'[n] = handle[n]
    BY <1>2, <1>3, <2>1
  <2>. QED  BY <2>2 DEF OnceInv
<1>12. inbox # None => inbox <= made' /\ (~handle'[inbox].repeat => calls[inbox] = 0)
  <2>1. inbox # None => inbox \in Insts /\ inbox <= made
    BY DEF TypeInv, OnceInv
  <2>2. inbox # None => (~handle[inbox].repeat => calls[inbox] = 0)
    BY DEF OnceInv
  <2>3. inbox # None => handle'[inbox] = handle[inbox]
    BY <1>3, <2>1
  <2>4. \A n \in Insts : n <= made => n <= made'
    BY <1>2
  <2>. QED  BY <2>1, <2>2, <2>3, <2>4
<1>13. \A n \in Insts : (n > made' => calls[n] = 0) /\ (~handle'[n].repeat => calls[n] <= 1)
  <2>1. \A n \in Insts : n > made => calls[n] = 0
    BY DEF OnceInv
  <2>2. \A n \in Insts : n <= made => (~handle'[n].repeat => calls[n] <= 1)
    BY <1>3 DEF OnceInv
  <2>. SUFFICES ASSUME NEW n \in Insts
                PROVE  (n > made' => calls[n] = 0) /\ (~handle'[n].repeat => calls[n] <= 1)
    OBVIOUS
  <2>3. n \in Nat /\ made \in Nat /\ made' = made + 1
    BY <1>2
  <2>4. CASE n <= made
    BY <2>2, <2>3, <2>4
  <2>5. CASE n > made
    <3>1. calls[n] = 0
      BY <2>1, <2>5
    <3>. QED  BY <3>1
  <2>. QED  BY <2>3, <2>4, <2>5
<1>. QED  BY <1>2, <1>9, <1>10, <1>11, <1>12, <1>13 DEF OnceInv

LEMMA OnceScanNext ==
  ASSUME TypeInv, TimeInv, OnceInv, ScanNext
  PROVE  OnceInv'
<1>0. PICK c : c = cursor + 1
  OBVIOUS
<1>1. /\ TypeInv' /\ c \in DOMAIN timers /\ timers[c] \in Node
      /\ DOMAIN timers' = DOMAIN timers /\ timers'[c] = Visited(timers[c])
      /\ \A i \in DOMAIN timers : i # c => timers'[i] = timers[i]
  BY <1>0, TypeScanNext
<1>2. LET v == Visited(timers[c]) IN
      /\ v.inst = timers[c].inst /\ v.repeat = timers[c].repeat
      /\ timers[c].null => v.null
      /\ Collects(timers[c]) /\ ~timers[c].repeat => v.null
  BY <1>1, VisitedNode DEF TimeInv
<1>3. \A i \in DOMAIN timers : /\ timers'[i].inst = timers[i].inst
                               /\ timers'[i].repeat = timers[i].repeat
                               /\ timers[i].null => timers'[i].null
  BY <1>1, <1>2
<1>4. inbox' = inbox /\ made' = made /\ handle' = handle /\ calls' = calls
  BY DEF ScanNext, histVars
<1>5. CASE ~Collects(timers[c])
  <2>1. callbacks' = callbacks
    BY <1>0, <1>5 DEF ScanNext
  <2>2. UNCHANGED <<callbacks, inbox, made, handle, calls>>
    BY <1>4, <2>1
  <2>. DEFINE f == [k \in DOMAIN timers' |-> k]
  <2>3. /\ f \in [DOMAIN timers' -> DOMAIN timers] /\ \A k \in DOMAIN timers' : f[k] = k
        /\ \A k, m \in DOMAIN timers' : f[k] = f[m] => k = m
    BY <1>1
  <2>. HIDE DEF f
  <2>4. \A k \in DOMAIN timers' : /\ timers'[k].inst = timers[f[k]].inst
                                  /\ timers'[k].repeat = timers[f[k]].repeat
                                  /\ timers[f[k]].null => timers'[k].null
    BY <1>1, <1>3, <2>3
  <2>. QED  BY <1>1, <2>2, <2>3, <2>4, OnceFewerNodes
<1>6. CASE Collects(timers[c])
  <2>1. PICK n : n = timers[c].inst
    OBVIOUS
  <2>2. PICK L \in Nat : L = Len(callbacks)
    BY Lists
  <2>3. /\ DOMAIN callbacks = 1..L /\ DOMAIN callbacks' = 1..(L + 1)
        /\ \A i \in 1..L : callbacks'[i] = callbacks[i]
        /\ callbacks'[L + 1].inst = n
    <3>. DEFINE e == [inst |-> timers[c].inst, ctx |-> timers[c].ctx]
    <3>1. callbacks \in Seq(Call) /\ callbacks' = Append(callbacks, e)
      BY <1>0, <1>6 DEF TypeInv, ScanNext
    <3>2. e \in Call
      BY <1>1 DEF Node, Call
    <3>3. e.inst = n
      BY <2>1
    <3>. HIDE DEF e
    <3>4. /\ callbacks' \in Seq(Call) /\ Len(callbacks') = Len(callbacks) + 1
          /\ \A i \in 1..Len(callbacks) : callbacks'[i] = callbacks[i]
          /\ callbacks'[Len(callbacks) + 1] = e
      BY <3>1, <3>2, AppendProperties
    <3>. QED  BY <2>2, <3>1, <3>3, <3>4, LenProperties
  <2>4. n \in Insts /\ n <= made /\ (~handle[n].repeat => Unfired(n) /\ timers'[c].null)
    <3>1. timers[c].inst \in Insts
      BY <1>1, NodeFields
    <3>2. NodeOK(timers[c])
      BY <1>1 DEF OnceInv
    <3>3. ~timers[c].null
      BY <1>6 DEF Collects
    <3>. QED  BY <1>1, <1>2, <1>6, <2>1, <3>1, <3>2, <3>3 DEF NodeOK
  <2>5. \A m \in Insts : m # n /\ Unfired(m) => Unfired(m)'
    <3>. SUFFICES ASSUME NEW m \in Insts, m # n, Unfired(m)
                  PROVE  Unfired(m)'
      OBVIOUS
    <3>1. \A i \in 1..L : callbacks[i].inst # m
      BY <2>3 DEF Unfired, Range
    <3>2. \A i \in 1..(L + 1) : callbacks'[i].inst # m
      BY <2>3, <3>1
    <3>. QED  BY <1>4, <2>3, <3>2 DEF Unfired, Range
  <2>6. \A i \in DOMAIN timers' : NodeOK(timers[i])'
    <3>. SUFFICES ASSUME NEW i \in DOMAIN timers
                  PROVE  NodeOK(timers[i])'
      BY <1>1
    <3>1. NodeOK(timers[i]) /\ timers[i].inst \in Insts
      BY Lists, NodeFields DEF OnceInv
    <3>2. CASE i = c
      <4>1. timers'[i].inst = n /\ timers'[i].repeat = timers[i].repeat
        BY <1>3, <2>1, <3>2
      <4>. QED  BY <1>4, <2>1, <2>4, <3>1, <3>2, <4>1 DEF NodeOK
    <3>3. CASE i # c
      <4>1. timers'[i] = timers[i] /\ timers[i].inst # n
        BY <1>1, <2>1, <3>3 DEF OnceInv
      <4>. QED  BY <1>4, <2>5, <3>1, <4>1 DEF NodeOK
    <3>. QED  BY <3>2, <3>3
  <2>7. \A i, j \in DOMAIN timers' : timers'[i].inst = timers'[j].inst => i = j
    BY <1>1, <1>3 DEF OnceInv
  <2>8. \A i \in DOMAIN callbacks' :
          LET m == callbacks'[i].inst IN
          /\ m <= made
          /\ ~handle[m].repeat =>
               /\ calls[m] = 0 /\ inbox # m
               /\ \A j \in DOMAIN callbacks' : callbacks'[j].inst = m => i = j
    <3>1. ~handle[n].repeat =>
            calls[n] = 0 /\ inbox # n /\ \A i \in 1..L : callbacks[i].inst # n
      BY <2>3, <2>4 DEF Unfired, Range
    <3>. SUFFICES ASSUME NEW i \in 1..(L + 1), NEW m, m = callbacks'[i].inst
                  PROVE  /\ m <= made
                         /\ ~handle[m].repeat =>
                              /\ calls[m] = 0 /\ inbox # m
                              /\ \A j \in 1..(L + 1) : callbacks'[j].inst = m => i = j
      BY <2>3
    <3>2. CASE i = L + 1
      <4>1. m = n
        BY <2>3, <3>2
      <4>2. ~handle[n].repeat => \A j \in 1..(L + 1) : callbacks'[j].inst = n => i = j
        BY <2>3, <3>1, <3>2
      <4>. QED  BY <2>4, <3>1, <4>1, <4>2
    <3>3. CASE i \in 1..L
      <4>1. m = callbacks[i].inst
        BY <2>3, <3>3
      <4>2. /\ m <= made
            /\ ~handle[m].repeat =>
                 /\ calls[m] = 0 /\ inbox # m
                 /\ \A j \in 1..L : callbacks[j].inst = m => i = j
        BY <2>3, <3>3, <4>1 DEF OnceInv
      <4>3. ~handle[m].repeat => m # n
        BY <3>1, <3>3, <4>1
      <4>4. ~handle[m].repeat => \A j \in 1..(L + 1) : callbacks'[j].inst = m => i = j
        BY <2>3, <4>2, <4>3
      <4>. QED  BY <4>2, <4>4
    <3>. QED  BY <3>2, <3>3
  <2>. QED  BY <1>4, <2>6, <2>7, <2>8 DEF OnceInv
<1>. QED  BY <1>5, <1>6

LEMMA OnceCallNext ==
  ASSUME TypeInv, OnceInv, CallNext
  PROVE  OnceInv'
<1>1. /\ TypeInv' /\ 1 \in DOMAIN callbacks /\ Head(callbacks) = callbacks[1]
      /\ \A i \in DOMAIN callbacks' : i + 1 \in DOMAIN callbacks /\ callbacks'[i] = callbacks[i + 1]
  BY TypeCallNext
<1>2. timers' = timers /\ made' = made /\ handle' = handle /\ calls' = calls
  BY DEF CallNext, listVars, histVars
<1>3. inbox' = inbox \/ inbox' = callbacks[1].inst
  BY <1>1 DEF CallNext
<1>4. \A i \in DOMAIN callbacks' : i \in Nat /\ i >= 1
  <2>1. callbacks' \in Seq(Call)
    BY <1>1 DEF TypeInv
  <2>2. DOMAIN callbacks' = 1..Len(callbacks') /\ Len(callbacks') \in Nat
    BY <2>1, LenProperties
  <2>. QED  BY <2>2
<1>5. \A n : Unfired(n) => Unfired(n)'
  BY <1>1, <1>2, <1>3 DEF Unfired, Range
<1>6. \A i \in DOMAIN timers : NodeOK(timers[i])'
  <2>. SUFFICES ASSUME NEW i \in DOMAIN timers
                PROVE  NodeOK(timers[i])'
    OBVIOUS
  <2>1. NodeOK(timers[i])
    BY DEF OnceInv
  <2>. QED  BY <1>2, <1>5, <2>1 DEF NodeOK
<1>7. \A i \in DOMAIN callbacks' :
        LET n == callbacks'[i].inst IN
        /\ n <= made
        /\ ~handle[n].repeat =>
             /\ calls[n] = 0 /\ inbox' # n
             /\ \A j \in DOMAIN callbacks' : callbacks'[j].inst = n => i = j
  <2>. SUFFICES ASSUME NEW i \in DOMAIN callbacks', NEW n, n = callbacks'[i].inst
                PROVE  /\ n <= made
                       /\ ~handle[n].repeat =>
                            /\ calls[n] = 0 /\ inbox' # n
                            /\ \A j \in DOMAIN callbacks' : callbacks'[j].inst = n => i = j
    OBVIOUS
  <2>1. i + 1 \in DOMAIN callbacks /\ n = callbacks[i + 1].inst /\ i \in Nat /\ i + 1 # 1
    <3>1. i \in Nat /\ i + 1 # 1
      BY <1>4
    <3>2. i + 1 \in DOMAIN callbacks /\ callbacks'[i] = callbacks[i + 1]
      BY <1>1
    <3>. QED  BY <3>1, <3>2
  <2>2. /\ n <= made
        /\ ~handle[n].repeat =>
             /\ calls[n] = 0 /\ inbox # n
             /\ \A j \in DOMAIN callbacks : callbacks[j].inst = n => i + 1 = j
    BY <2>1 DEF OnceInv
  <2>3. ~handle[n].repeat => inbox' # n
    BY <1>1, <1>3, <2>1, <2>2
  <2>4. ~handle[n].repeat => \A j \in DOMAIN callbacks' : callbacks'[j].inst = n => i = j
    BY <1>1, <1>4, <2>1, <2>2
  <2>. QED  BY <2>2, <2>3, <2>4
<1>8. inbox' # None => inbox' <= made /\ (~handle[inbox'].repeat => calls[inbox'] = 0)
  BY <1>1, <1>3 DEF OnceInv
<1>. QED  BY <1>2, <1>6, <1>7, <1>8 DEF OnceInv

LEMMA OnceRunCallback ==
  ASSUME TypeInv, OnceInv, RunCallback
  PROVE  OnceInv'
<1>0. PICK b : b = inbox
  OBVIOUS
<1>1. /\ TypeInv' /\ b \in Insts /\ calls'[b] = Counted(b)
      /\ \A n \in Insts : n # b => calls'[n] = calls[n]
  BY <1>0, TypeRunCallback
<1>2. /\ timers' = timers /\ callbacks' = callbacks /\ made' = made /\ handle' = handle
      /\ inbox' = None
  BY DEF RunCallback, listVars
<1>3. b # None /\ b <= made /\ (~handle[b].repeat => calls[b] = 0)
  BY <1>0 DEF RunCallback, OnceInv
<1>4. None \notin Insts /\ made \in Nat /\ Insts \subseteq Nat /\ calls \in [Insts -> 0..2]
  BY TimerConstants DEF None, Insts, TypeInv
<1>5. \A n \in Insts : Unfired(n) => n # b /\ Unfired(n)'
  BY <1>0, <1>1, <1>2, <1>4 DEF Unfired
<1>6. \A i \in DOMAIN timers : NodeOK(timers[i])'
  <2>. SUFFICES ASSUME NEW i \in DOMAIN timers
                PROVE  NodeOK(timers[i])'
    OBVIOUS
  <2>1. NodeOK(timers[i]) /\ timers[i].inst \in Insts
    BY Lists, NodeFields DEF OnceInv
  <2>. QED  BY <1>2, <1>5, <2>1 DEF NodeOK
<1>7. \A i \in DOMAIN callbacks :
        LET n == callbacks[i].inst IN
        /\ n <= made
        /\ ~handle[n].repeat =>
             /\ calls'[n] = 0 /\ inbox' # n
             /\ \A j \in DOMAIN callbacks : callbacks[j].inst = n => i = j
  <2>. SUFFICES ASSUME NEW i \in DOMAIN callbacks, NEW n, n = callbacks[i].inst
                PROVE  /\ n <= made
                       /\ ~handle[n].repeat =>
                            /\ calls'[n] = 0 /\ inbox' # n
                            /\ \A j \in DOMAIN callbacks : callbacks[j].inst = n => i = j
    OBVIOUS
  <2>1. n \in Insts
    BY Lists
  <2>2. /\ n <= made
        /\ ~handle[n].repeat =>
             /\ calls[n] = 0 /\ inbox # n
             /\ \A j \in DOMAIN callbacks : callbacks[j].inst = n => i = j
    BY DEF OnceInv
  <2>. QED  BY <1>0, <1>1, <1>2, <1>4, <2>1, <2>2
<1>8. ~handle[b].repeat => calls'[b] = 1
  BY <1>1, <1>3 DEF Counted
<1>9. \A n \in Insts : (n > made => calls'[n] = 0) /\ (~handle[n].repeat => calls'[n] <= 1)
  <2>. SUFFICES ASSUME NEW n \in Insts
                PROVE  (n > made => calls'[n] = 0) /\ (~handle[n].repeat => calls'[n] <= 1)
    OBVIOUS
  <2>1. CASE n = b
    BY <1>3, <1>4, <1>8, <2>1
  <2>2. CASE n # b
    BY <1>1, <2>2 DEF OnceInv
  <2>. QED  BY <2>1, <2>2
<1>10. inbox' # None => inbox' <= made' /\ (~handle'[inbox'].repeat => calls'[inbox'] = 0)
  BY <1>2
<1>. QED  BY <1>2, <1>6, <1>7, <1>9, <1>10 DEF OnceInv

\* A dropped callback is on its way no more.
LEMMA OnceDropCallback ==
  ASSUME TypeInv, OnceInv, DropCallback
  PROVE  OnceInv'
<1>1. /\ timers' = timers /\ callbacks' = callbacks /\ made' = made /\ handle' = handle
      /\ calls' = calls /\ inbox' = None
  BY DEF DropCallback, listVars, timerVars, histVars
<1>2. \A n \in Insts : Unfired(n) => Unfired(n)'
  BY <1>1 DEF Unfired, Insts, None
<1>3. \A i \in DOMAIN timers : NodeOK(timers[i])'
  <2>. SUFFICES ASSUME NEW i \in DOMAIN timers
                PROVE  NodeOK(timers[i])'
    OBVIOUS
  <2>1. NodeOK(timers[i]) /\ timers[i].inst \in Insts
    BY Lists, NodeFields DEF OnceInv
  <2>. QED  BY <1>1, <1>2, <2>1 DEF NodeOK
<1>4. \A n \in Insts : n # None
  BY DEF Insts, None
<1>5. \A i \in DOMAIN callbacks : callbacks[i].inst # inbox'
  BY <1>1, <1>4, Lists
<1>. QED  BY <1>1, <1>3, <1>5 DEF OnceInv

(***************************************************************************)
(* The counted time of a timer is ahead of the real one by at most Slack.  *)
(***************************************************************************)
LEMMA SlackRange ==
  ASSUME TypeInv, NEW i
  PROVE  Slack(i) \in 0..sleep_time /\ sleep_time \in Nat
BY TimerConstants DEF TypeInv, Slack

\* Every node was in the list before, with no more slack than it has now.
LEMMA TimeSameNodes ==
  ASSUME TypeInv, TypeInv', TimeInv,
         timerPc' = "none" => timers' = <<>> /\ slept' = 0,
         \A k \in DOMAIN timers' :
           \E i \in DOMAIN timers : timers'[k] = timers[i] /\ Slack(i) <= Slack(k)'
  PROVE  TimeInv'
<1>. SUFFICES ASSUME NEW k \in DOMAIN timers'
              PROVE  /\ timers'[k].age <= timers'[k].delay
                     /\ timers'[k].elapsed = 0 \/ timers'[k].elapsed < timers'[k].delay
                     /\ timers'[k].null \/ timers'[k].elapsed <= timers'[k].age + Slack(k)'
  BY DEF TimeInv
<1>1. PICK i \in DOMAIN timers : timers'[k] = timers[i] /\ Slack(i) <= Slack(k)'
  OBVIOUS
<1>2. PICK x : x = timers[i]
  OBVIOUS
<1>3. PICK a : a = Slack(i)
  OBVIOUS
<1>4. PICK b : b = Slack(k)'
  OBVIOUS
<1>5. x.age \in Int /\ x.elapsed \in Int
  BY <1>2, Lists, NodeFields
<1>6. a \in Int
  BY <1>3, SlackRange
<1>7. b \in Int
  <2>1. b = Slack(k)' /\ slept' \in 0..sleep_time
    BY <1>4 DEF TypeInv
  <2>. QED  BY <2>1, TimerConstants DEF Slack
<1>8. /\ x.age <= x.delay /\ (x.elapsed = 0 \/ x.elapsed < x.delay)
      /\ x.null \/ x.elapsed <= x.age + a
  BY <1>2, <1>3 DEF TimeInv
<1>9. x.elapsed <= x.age + a => x.elapsed <= x.age + b
  BY <1>1, <1>3, <1>4, <1>5, <1>6, <1>7
<1>. QED  BY <1>1, <1>2, <1>4, <1>8, <1>9

\* The case that the list stays, and the thread has moved on without a scan.
LEMMA TimeSameList ==
  ASSUME TypeInv, TypeInv', TimeInv, timers' = timers,
         timerPc' = "none" => timerPc = "none" /\ slept' = slept,
         \A k \in DOMAIN timers : Slack(k) <= Slack(k)'
  PROVE  TimeInv'
<1>1. timerPc' = "none" => timers' = <<>> /\ slept' = 0
  BY DEF TimeInv
<1>2. \A k \in DOMAIN timers' :
        \E i \in DOMAIN timers : timers'[k] = timers[i] /\ Slack(i) <= Slack(k)'
  OBVIOUS
<1>. QED  BY <1>1, <1>2, TimeSameNodes

LEMMA TimeFullSlack ==
  ASSUME TypeInv, TypeInv', TimeInv,
         timerPc' \in {"remove", "erase", "call", "wait"} \/ (timerPc' = "sleep" /\ slept' = 0),
         \A k \in DOMAIN timers' : \E i \in DOMAIN timers : timers'[k] = timers[i]
  PROVE  TimeInv'
<1>1. \A k : Slack(k)' = sleep_time
  BY TimerConstants DEF Slack
<1>2. \A i : Slack(i) <= sleep_time
  BY SlackRange
<1>3. \A k \in DOMAIN timers' :
        \E i \in DOMAIN timers : timers'[k] = timers[i] /\ Slack(i) <= Slack(k)'
  BY <1>1, <1>2
<1>. QED  BY <1>3, TimeSameNodes

LEMMA TimeEraseAt ==
  ASSUME TypeInv, TimeInv, NEW i \in DOMAIN timers, EraseAt(i),
         UNCHANGED <<timerVars, inbox, loopVars, made, handle, calls>>
  PROVE  TimeInv'
<1>1. TypeInv'
  BY TypeEraseAt
<1>2. timers \in Seq(Node) /\ i \in 1..Len(timers) /\ timers' = RemoveAt(timers, i)
  BY Lists DEF TypeInv, EraseAt
<1>3. PICK L \in Nat : L = Len(timers)
  BY Lists
<1>4. /\ DOMAIN timers' = 1..(L - 1) /\ DOMAIN timers = 1..L /\ i \in 1..L /\ cursor \in Nat
      /\ \A k \in 1..(L - 1) : timers'[k] = IF k < i THEN timers[k] ELSE timers[k + 1]
  BY <1>2, <1>3, RemoveAtElements, LenProperties, Lists
<1>5. timerPc' = timerPc /\ slept' = slept
  BY DEF timerVars
<1>6. cursor' = IF i <= cursor THEN cursor - 1 ELSE cursor
  BY DEF EraseAt
<1>7. timerPc # "none"
  BY <1>3, <1>4 DEF TimeInv
<1>8. slept \in Int /\ sleep_time \in Nat
  BY TimerConstants DEF TypeInv
<1>9. \A k \in 1..(L - 1) :
        \E j \in DOMAIN timers : timers'[k] = timers[j] /\ Slack(j) <= Slack(k)'
  <2>. SUFFICES ASSUME NEW k \in 1..(L - 1)
                PROVE  \E j \in DOMAIN timers : timers'[k] = timers[j] /\ Slack(j) <= Slack(k)'
    OBVIOUS
  <2>1. CASE k < i
    <3>1. k \in DOMAIN timers /\ timers'[k] = timers[k]
      BY <1>4, <2>1
    <3>2. k > cursor' => k > cursor
      BY <1>4, <1>6, <2>1
    <3>3. Slack(k) <= Slack(k)'
      BY <1>5, <1>8, <3>2 DEF Slack
    <3>. QED  BY <3>1, <3>3
  <2>2. CASE ~(k < i)
    <3>1. k + 1 \in DOMAIN timers /\ timers'[k] = timers[k + 1]
      BY <1>4, <2>2
    <3>2. k > cursor' => k + 1 > cursor
      BY <1>4, <1>6, <2>2
    <3>3. Slack(k + 1) <= Slack(k)'
      BY <1>5, <1>8, <3>2 DEF Slack
    <3>. QED  BY <3>1, <3>3
  <2>. QED  BY <2>1, <2>2
<1>. QED  BY <1>1, <1>4, <1>5, <1>7, <1>9, TimeSameNodes

LEMMA TimeSetTimer ==
  ASSUME TypeInv, TimeInv, NEW d \in Delays, NEW r \in BOOLEAN, SetTimer(d, r)
  PROVE  TimeInv'
<1>1. PICK N \in Nat : N = Len(timers)
  BY Lists
<1>2. /\ TypeInv' /\ Len(timers') = N + 1
      /\ \A i \in 1..N : timers'[i] = timers[i]
  BY <1>1, TypeSetTimer
<1>3. timers'[Len(timers) + 1] =
          [inst |-> made + 1, id |-> Len(timers) + 1, delay |-> d, elapsed |-> 0,
           repeat |-> r, ctx |-> ctx, null |-> FALSE, age |-> 0]
  BY TypeSetTimer
<1>4. /\ timers'[N + 1].age = 0 /\ timers'[N + 1].elapsed = 0 /\ timers'[N + 1].delay = d
  BY <1>1, <1>3
<1>5. DOMAIN timers' = 1..(N + 1) /\ DOMAIN timers = 1..N
  <2>1. timers' \in Seq(Node)
    BY <1>2 DEF TypeInv
  <2>. QED  BY <1>1, <1>2, <2>1, Lists, LenProperties
<1>6. cursor' = cursor /\ slept' = slept
  BY DEF SetTimer
<1>7. timerPc' # "none" /\ (timerPc # "none" => timerPc' = timerPc)
  BY DEF SetTimer
<1>8. \A i \in 1..N : /\ timers'[i].age <= timers'[i].delay
                      /\ timers'[i].elapsed = 0 \/ timers'[i].elapsed < timers'[i].delay
                      /\ timers'[i].null \/ timers'[i].elapsed <= timers'[i].age + Slack(i)'
  <2>. SUFFICES ASSUME NEW i \in 1..N
                PROVE  /\ timers'[i].age <= timers'[i].delay
                       /\ timers'[i].elapsed = 0 \/ timers'[i].elapsed < timers'[i].delay
                       /\ timers'[i].null \/ timers'[i].elapsed <= timers'[i].age + Slack(i)'
    OBVIOUS
  <2>1. timers # <<>>
    BY <1>5
  <2>2. timerPc' = timerPc
    BY <1>7, <2>1 DEF TimeInv
  <2>3. Slack(i)' = Slack(i)
    BY <1>6, <2>2 DEF Slack
  <2>. QED  BY <1>2, <1>5, <2>3 DEF TimeInv
<1>9. d \in Int /\ d >= 0
  BY TimerConstants
<1>10. Slack(N + 1)' \in Int /\ Slack(N + 1)' >= 0
  <2>1. slept' \in 0..sleep_time
    BY <1>2 DEF TypeInv
  <2>2. sleep_time \in Nat
    BY TimerConstants
  <2>3. sleep_time - slept' \in Int /\ sleep_time - slept' >= 0
    <3>1. \A s \in 0..sleep_time : sleep_time - s \in Int /\ sleep_time - s >= 0
      BY <2>2
    <3>. QED  BY <2>1, <3>1
  <2>4. \/ Slack(N + 1)' = sleep_time - slept' \/ Slack(N + 1)' = 0
        \/ Slack(N + 1)' = sleep_time
    BY DEF Slack
  <2>. QED  BY <2>2, <2>3, <2>4
<1>11. /\ timers'[N + 1].age <= timers'[N + 1].delay
       /\ timers'[N + 1].elapsed = 0
       /\ timers'[N + 1].elapsed <= timers'[N + 1].age + Slack(N + 1)'
  BY <1>4, <1>9, <1>10
<1>12. \A i \in 1..(N + 1) : i \in 1..N \/ i = N + 1
  OBVIOUS
<1>. QED  BY <1>5, <1>7, <1>8, <1>11, <1>12 DEF TimeInv

LEMMA TimeRemoveNext ==
  ASSUME TypeInv, TimeInv, RemoveNext
  PROVE  TimeInv'
<1>1. TypeInv' /\ timerPc' = "remove"
  BY TypeRemoveNext DEF RemoveNext
<1>2. \A k \in DOMAIN timers' : \E i \in DOMAIN timers : timers'[k] = timers[i]
  BY TypeRemoveNext
<1>. QED  BY <1>1, <1>2, TimeFullSlack

LEMMA TimeEraseNulls ==
  ASSUME TypeInv, TimeInv, EraseNulls
  PROVE  TimeInv'
<1>1. TypeInv' /\ timerPc' = "call"
  BY TypeEraseNulls DEF EraseNulls
<1>2. \A k \in DOMAIN timers' : \E i \in DOMAIN timers : timers'[k] = timers[i]
  BY TypeEraseNulls
<1>. QED  BY <1>1, <1>2, TimeFullSlack

LEMMA TimeWakeUp ==
  ASSUME TypeInv, TypeInv', TimeInv, WakeUp
  PROVE  TimeInv'
<1>1. timerPc = "sleep" /\ slept = sleep_time /\ timerPc' = "scan" /\ timers' = timers
  BY TimerConstants DEF TypeInv, WakeUp
<1>2. \A k : Slack(k) = 0
  BY <1>1, TimerConstants DEF Slack
<1>3. \A k : Slack(k)' = 0 \/ Slack(k)' = sleep_time
  BY <1>1 DEF Slack
<1>4. 0 <= 0 /\ 0 <= sleep_time
  BY TimerConstants
<1>5. \A k \in DOMAIN timers : Slack(k) <= Slack(k)'
  BY <1>2, <1>3, <1>4
<1>. QED  BY <1>1, <1>5, TimeSameList

LEMMA TimeScanNext ==
  ASSUME TypeInv, TimeInv, ScanNext
  PROVE  TimeInv'
<1>0. PICK c \in Nat : c = cursor + 1
  BY Lists
<1>1. /\ TypeInv' /\ c \in DOMAIN timers /\ timers[c] \in Node
      /\ DOMAIN timers' = DOMAIN timers /\ timers'[c] = Visited(timers[c])
      /\ \A i \in DOMAIN timers : i # c => timers'[i] = timers[i]
  BY <1>0, TypeScanNext
<1>2. /\ timerPc = "scan" /\ timerPc' = "scan" /\ cursor' = cursor + 1 /\ cursor \in Nat
      /\ DOMAIN timers \subseteq Nat
  BY Lists DEF ScanNext
<1>3. Slack(c) = 0
  BY <1>0, <1>2 DEF Slack
<1>4. Slack(c)' = sleep_time
  BY <1>0, <1>2 DEF Slack
<1>5. /\ timers[c].age <= timers[c].delay
      /\ timers[c].elapsed = 0 \/ timers[c].elapsed < timers[c].delay
      /\ timers[c].null \/ timers[c].elapsed <= timers[c].age + 0
  BY <1>1, <1>3 DEF TimeInv
<1>6. timers[c].age + 0 = timers[c].age
  BY <1>1, NodeFields
<1>7. LET v == Visited(timers[c]) IN
      /\ v.elapsed = 0 \/ v.elapsed < v.delay
      /\ v.age <= v.delay
      /\ timers[c].null => v.null
      /\ ~timers[c].null /\ timers[c].elapsed <= timers[c].age => v.elapsed <= v.age + sleep_time
  BY <1>1, <1>5, VisitedNode
<1>8. /\ timers'[c].age <= timers'[c].delay
      /\ timers'[c].elapsed = 0 \/ timers'[c].elapsed < timers'[c].delay
      /\ timers'[c].null \/ timers'[c].elapsed <= timers'[c].age + Slack(c)'
  BY <1>1, <1>4, <1>5, <1>6, <1>7
<1>9. \A i \in DOMAIN timers : i # c => Slack(i)' = Slack(i)
  <2>. SUFFICES ASSUME NEW i \in DOMAIN timers, i # c
                PROVE  Slack(i)' = Slack(i)
    OBVIOUS
  <2>1. i > cursor' <=> i > cursor
    BY <1>0, <1>2
  <2>. QED  BY <1>2, <2>1 DEF Slack
<1>10. \A i \in DOMAIN timers : i # c =>
         /\ timers'[i].age <= timers'[i].delay
         /\ timers'[i].elapsed = 0 \/ timers'[i].elapsed < timers'[i].delay
         /\ timers'[i].null \/ timers'[i].elapsed <= timers'[i].age + Slack(i)'
  BY <1>1, <1>9 DEF TimeInv
<1>. QED  BY <1>1, <1>2, <1>8, <1>10 DEF TimeInv

LEMMA TimePassTime ==
  ASSUME TypeInv, TimeInv, PassTime
  PROVE  TimeInv'
<1>1. /\ TypeInv' /\ DOMAIN timers' = DOMAIN timers
      /\ \A i \in DOMAIN timers : timers'[i] = Older(timers[i])
  BY TypePassTime
<1>2. timerPc' = timerPc /\ cursor' = cursor
  BY DEF PassTime
<1>3. slept' = slept \/ (slept' = slept + 1 /\ slept < sleep_time)
  BY DEF PassTime
<1>4. slept \in Nat /\ sleep_time \in Nat /\ slept <= sleep_time
  BY TimerConstants DEF TypeInv
<1>5. timerPc = "none" => timers' = <<>> /\ slept' = 0
  <2>. SUFFICES ASSUME timerPc = "none"
                PROVE  timers' = <<>> /\ slept' = 0
    OBVIOUS
  <2>1. slept' = 0 /\ DOMAIN timers' = {}
    BY <1>1 DEF PassTime, TimeInv
  <2>2. timers' \in Seq(Node)
    BY <1>1 DEF TypeInv
  <2>. QED  BY <2>1, <2>2, EmptySeq, LenProperties
<1>6. ASSUME NEW i \in DOMAIN timers
      PROVE  /\ timers'[i].age <= timers'[i].delay
             /\ timers'[i].elapsed = 0 \/ timers'[i].elapsed < timers'[i].delay
             /\ timers'[i].null \/ timers'[i].elapsed <= timers'[i].age + Slack(i)'
  <2>1. PICK x \in Node : x = timers[i]
    BY Lists
  <2>2. PICK y : y = timers'[i]
    OBVIOUS
  <2>3. /\ x.age <= x.delay /\ (x.elapsed = 0 \/ x.elapsed < x.delay)
        /\ x.null \/ x.elapsed <= x.age + Slack(i)
    BY <2>1 DEF TimeInv
  <2>4. /\ y.delay = x.delay /\ y.null = x.null /\ y.elapsed = x.elapsed
        /\ y.age = IF x.age < x.delay THEN x.age + 1 ELSE x.delay
    BY <1>1, <2>1, <2>2, <2>3, OlderNode
  <2>5. /\ x.age \in Int /\ x.delay \in Int /\ x.elapsed \in Int /\ x.age >= 0 /\ x.delay >= 0
    BY NodeFields
  <2>6. PICK a, b \in Int : a = Slack(i) /\ b = Slack(i)' /\ a >= 0 /\ b >= 0 /\ b >= a - 1
    <3>1. Slack(i) \in 0..sleep_time
      BY SlackRange
    <3>2. CASE timerPc = "sleep"
      <4>1. Slack(i) = sleep_time - slept /\ Slack(i)' = sleep_time - slept'
        BY <1>2, <3>2 DEF Slack
      <4>. QED  BY <1>3, <1>4, <4>1
    <3>3. CASE timerPc # "sleep"
      <4>1. Slack(i)' = Slack(i)
        BY <1>2, <3>3 DEF Slack
      <4>. QED  BY <1>4, <3>1, <4>1
    <3>. QED  BY <3>2, <3>3
  <2>7. y.age <= y.delay
    BY <2>3, <2>4, <2>5
  <2>8. x.null \/ x.elapsed <= y.age + b
    <3>1. CASE x.age < x.delay
      BY <2>3, <2>4, <2>5, <2>6, <3>1
    <3>2. CASE ~(x.age < x.delay)
      BY <2>3, <2>4, <2>5, <2>6, <3>2
    <3>. QED  BY <3>1, <3>2
  <2>. QED  BY <2>2, <2>3, <2>4, <2>6, <2>7, <2>8
<1>. QED  BY <1>1, <1>2, <1>5, <1>6 DEF TimeInv

(***************************************************************************)
(* The steps.                                                              *)
(***************************************************************************)
LEMMA TimerInit == Init => TimerInv
<1>. SUFFICES ASSUME Init
              PROVE  TimerInv
  OBVIOUS
<1>1. /\ timers = <<>> /\ cursor = 0 /\ kept = 0 /\ timerPc = "none" /\ callbacks = <<>> /\ inbox = None
      /\ slept = 0 /\ ctx = 1 /\ made = 0 /\ calls = [n \in Insts |-> 0]
      /\ handle = [n \in Insts |-> [id |-> 0, repeat |-> FALSE, ctx |-> 1]]
  BY DEF Init
<1>2. TypeInv
  <2>1. <<>> \in Seq(Node) /\ <<>> \in Seq(Call) /\ Len(<<>>) = 0
    BY EmptySeq
  <2>2. handle \in [Insts -> [id : Nat, repeat : BOOLEAN, ctx : Nat]] /\ calls \in [Insts -> 0..2]
    BY <1>1
  <2>3. 0 \in 0..0 /\ 0 \in 0..sleep_time /\ 0 \in 0..MaxTimers /\ 1 \in Nat
    BY TimerConstants
  <2>. QED  BY <1>1, <2>1, <2>2, <2>3 DEF TypeInv
<1>3. DOMAIN timers = {} /\ DOMAIN callbacks = {}
  BY <1>1
<1>4. OnceInv
  BY <1>1, <1>3 DEF OnceInv
<1>5. TimeInv
  BY <1>1, <1>3 DEF TimeInv
<1>. QED  BY <1>2, <1>4, <1>5 DEF TimerInv

LEMMA KeepsSetTimer ==
  ASSUME TimerInv, NEW d \in Delays, NEW r \in BOOLEAN, SetTimer(d, r)
  PROVE  TimerInv'
BY TypeSetTimer, OnceSetTimer, TimeSetTimer DEF TimerInv

LEMMA KeepsAll ==
  ASSUME TypeInv, UNCHANGED vars
  PROVE  TypeInv'
BY DEF TypeInv, vars, listVars, timerVars, loopVars, histVars

LEMMA KeepsStutter ==
  ASSUME TimerInv, UNCHANGED vars
  PROVE  TimerInv'
<1>1. TypeInv'
  BY KeepsAll DEF TimerInv
<1>2. OnceInv'
  BY OnceSameNodes DEF TimerInv, vars, listVars, timerVars, histVars
<1>3. timers' = timers /\ timerPc' = timerPc /\ slept' = slept /\ cursor' = cursor
  BY DEF vars, listVars, timerVars
<1>4. \A k : Slack(k)' = Slack(k)
  BY <1>3 DEF Slack
<1>5. TimeInv'
  BY <1>3, <1>4 DEF TimerInv, TimeInv
<1>. QED  BY <1>1, <1>2, <1>5 DEF TimerInv

LEMMA KeepsClear ==
  ASSUME TimerInv, NEW n \in Insts, clearTimeout(n)
  PROVE  TimerInv'
<1>1. CASE UNCHANGED <<listVars, erased>>
  <2>1. UNCHANGED vars
    BY <1>1 DEF clearTimeout, vars, histVars
  <2>. QED  BY <2>1, KeepsStutter
<1>2. ASSUME NEW i \in Matches(handle[n].id), EraseAt(i)
      PROVE  TimerInv'
  <2>1. i \in DOMAIN timers
    BY <1>2 DEF Matches
  <2>2. UNCHANGED <<timerVars, inbox, loopVars, made, handle, calls>>
    BY DEF clearTimeout
  <2>. QED  BY <1>2, <2>1, <2>2, TypeEraseAt, OnceEraseAt, TimeEraseAt DEF TimerInv
<1>. QED  BY <1>1, <1>2 DEF clearTimeout

LEMMA KeepsRunCallback ==
  ASSUME TimerInv, RunCallback
  PROVE  TimerInv'
<1>1. TypeInv' /\ OnceInv'
  BY TypeRunCallback, OnceRunCallback DEF TimerInv
<1>2. timerPc' = "call" /\ timers' = timers
  BY DEF RunCallback, listVars
<1>3. TimeInv'
  BY <1>1, <1>2, TimeFullSlack DEF TimerInv
<1>. QED  BY <1>1, <1>3 DEF TimerInv

LEMMA KeepsDropCallback ==
  ASSUME TimerInv, DropCallback
  PROVE  TimerInv'
<1>1. TypeInv'
  BY DEF TimerInv, TypeInv, DropCallback, listVars, timerVars, histVars
<1>2. OnceInv'
  BY OnceDropCallback DEF TimerInv
<1>3. timers' = timers /\ timerPc' = timerPc /\ slept' = slept /\ cursor' = cursor
  BY DEF DropCallback, listVars, timerVars
<1>4. \A k : Slack(k)' = Slack(k)
  BY <1>3 DEF Slack
<1>5. TimeInv'
  BY <1>3, <1>4 DEF TimerInv, TimeInv
<1>. QED  BY <1>1, <1>2, <1>5 DEF TimerInv

\* A reload touches neither the list nor what is on its way to a call.
LEMMA KeepsReload ==
  ASSUME TimerInv, Reset \/ LoopEnds \/ NewRuntime
  PROVE  TimerInv'
<1>1. /\ UNCHANGED <<listVars, timerVars, inbox, histVars>>
      /\ ctx' = ctx \/ ctx' = ctx + 1
  BY DEF Reset, LoopEnds, NewRuntime
<1>2. TypeInv'
  BY <1>1 DEF TimerInv, TypeInv, listVars, timerVars, histVars
<1>3. OnceInv'
  BY <1>1, OnceSameNodes DEF TimerInv, listVars, timerVars, histVars
<1>4. timers' = timers /\ timerPc' = timerPc /\ slept' = slept /\ cursor' = cursor
  BY <1>1 DEF listVars, timerVars
<1>5. \A k : Slack(k)' = Slack(k)
  BY <1>4 DEF Slack
<1>6. TimeInv'
  BY <1>4, <1>5 DEF TimerInv, TimeInv
<1>. QED  BY <1>2, <1>3, <1>6 DEF TimerInv

LEMMA KeepsLoopStep ==
  ASSUME TimerInv, LoopStep
  PROVE  TimerInv'
BY KeepsRunCallback, KeepsDropCallback, KeepsReload DEF LoopStep

LEMMA KeepsTimerStep ==
  ASSUME TimerInv, TimerStep
  PROVE  TimerInv'
<1>. USE DEF TimerInv
<1>1. CASE WakeUp
  <2>1. TypeInv'
    <3>1. cursor' \in 0..Len(timers') /\ timerPc' = "scan"
      BY <1>1, Lists DEF WakeUp
    <3>. QED  BY <1>1, <3>1 DEF TypeInv, WakeUp, loopVars, histVars
  <2>2. OnceInv'
    BY <1>1, OnceSameNodes DEF WakeUp, histVars
  <2>. QED  BY <1>1, <2>1, <2>2, TimeWakeUp
<1>2. CASE ScanNext
  BY <1>2, TypeScanNext, OnceScanNext, TimeScanNext
<1>3. CASE FreedNode
  <2>1. TypeInv'
    BY <1>3 DEF TypeInv, FreedNode, loopVars, histVars
  <2>2. OnceInv'
    BY <1>3, OnceSameNodes DEF FreedNode, histVars
  <2>3. timers' = timers /\ timerPc' = timerPc /\ slept' = slept /\ cursor' = cursor
    BY <1>3 DEF FreedNode
  <2>4. \A k : Slack(k)' = Slack(k)
    BY <2>3 DEF Slack
  <2>5. TimeInv'
    BY <2>3, <2>4 DEF TimeInv
  <2>. QED  BY <2>1, <2>2, <2>5
<1>4. CASE ScanDone
  <2>1. TypeInv'
    <3>1. 0 \in 0..Len(timers) /\ 0 <= 0
      BY Lists
    <3>. QED  BY <1>4, <3>1 DEF TypeInv, ScanDone, loopVars, histVars
  <2>2. OnceInv'
    BY <1>4, OnceSameNodes DEF ScanDone, histVars
  <2>3. timers' = timers /\ timerPc' = "remove"
    BY <1>4 DEF ScanDone
  <2>. QED  BY <2>1, <2>2, <2>3, TimeFullSlack
<1>5. CASE RemoveNext
  BY <1>5, TypeRemoveNext, OnceRemoveNext, TimeRemoveNext
<1>6. CASE RemoveDone
  <2>1. TypeInv'
    BY <1>6 DEF TypeInv, RemoveDone, listVars, loopVars, histVars
  <2>2. OnceInv'
    BY <1>6, OnceSameNodes DEF RemoveDone, listVars, histVars
  <2>3. timers' = timers /\ timerPc' \in {"erase", "call"}
    BY <1>6 DEF RemoveDone, listVars
  <2>. QED  BY <2>1, <2>2, <2>3, TimeFullSlack
<1>7. CASE EraseNulls
  BY <1>7, TypeEraseNulls, OnceEraseNulls, TimeEraseNulls
<1>8. CASE CallNext
  <2>1. TypeInv' /\ OnceInv'
    BY <1>8, TypeCallNext, OnceCallNext
  <2>2. timers' = timers /\ timerPc' \in {"call", "wait"}
    BY <1>8 DEF CallNext, listVars
  <2>. QED  BY <2>1, <2>2, TimeFullSlack
<1>9. CASE CallsDone
  <2>1. TypeInv'
    <3>1. slept' \in 0..sleep_time
      BY <1>9, TimerConstants DEF CallsDone
    <3>. QED  BY <1>9, <3>1 DEF TypeInv, CallsDone, listVars, loopVars, histVars
  <2>2. OnceInv'
    BY <1>9, OnceSameNodes DEF CallsDone, listVars, histVars
  <2>3. timers' = timers /\ timerPc' = "sleep" /\ slept' = 0
    BY <1>9 DEF CallsDone, listVars
  <2>. QED  BY <2>1, <2>2, <2>3, TimeFullSlack
<1>. QED  BY <1>1, <1>2, <1>3, <1>4, <1>5, <1>6, <1>7, <1>8, <1>9 DEF TimerStep

LEMMA TimerNext ==
  ASSUME TimerInv, Next
  PROVE  TimerInv'
<1>1. ASSUME NEW d \in Delays, setTimeout(d) \/ setInterval(d)
      PROVE  TimerInv'
  BY <1>1, KeepsSetTimer DEF setTimeout, setInterval
<1>2. CASE PassTime
  BY <1>2, TypePassTime, OncePassTime, TimePassTime DEF TimerInv
<1>. QED  BY <1>1, <1>2, KeepsClear, KeepsReload, KeepsLoopStep, KeepsTimerStep DEF Next

LEMMA TimerInvHolds == Spec => []TimerInv
<1>1. TimerInv /\ [Next]_vars => TimerInv'
  BY TimerNext, KeepsStutter
<1>. QED  BY <1>1, TimerInit, PTL DEF Spec

(***************************************************************************)
(* The properties.                                                         *)
(***************************************************************************)
LEMMA OnceImpliesFiresOnce ==
  ASSUME TypeInv, OnceInv
  PROVE  FiresOnce
<1>. SUFFICES ASSUME NEW n \in Insts
              PROVE  /\ Cardinality(Live(n)) <= 1
                     /\ ~handle[n].repeat =>
                          Cardinality(Live(n)) + Cardinality(Collected(n))
                            + (IF inbox = n THEN 1 ELSE 0) + calls[n] <= 1
  BY DEF FiresOnce
<1>1. Cardinality(Live(n)) \in 0..1
  <2>1. \A x, y \in Live(n) : x = y
    BY DEF Live, OnceInv
  <2>. QED  BY <2>1, AtMostOne
<1>2. ASSUME ~handle[n].repeat
      PROVE  Cardinality(Live(n)) + Cardinality(Collected(n))
               + (IF inbox = n THEN 1 ELSE 0) + calls[n] <= 1
  <2>1. Cardinality(Collected(n)) \in 0..1
    <3>1. \A x, y \in Collected(n) : x = y
      BY <1>2 DEF Collected, OnceInv
    <3>. QED  BY <3>1, AtMostOne
  <2>2. calls[n] \in 0..1
    BY <1>2 DEF OnceInv, TypeInv
  <2>3. Live(n) # {} => Unfired(n)
    <3>. SUFFICES ASSUME NEW i \in DOMAIN timers, timers[i].inst = n, ~timers[i].null
                  PROVE  Unfired(n)
      BY DEF Live
    <3>1. NodeOK(timers[i])
      BY DEF OnceInv
    <3>. QED  BY <1>2, <3>1 DEF NodeOK
  <2>4. Unfired(n) => calls[n] = 0 /\ inbox # n /\ Collected(n) = {}
    BY DEF Unfired, Collected, Range
  <2>5. Collected(n) # {} => calls[n] = 0 /\ inbox # n
    BY <1>2 DEF Collected, OnceInv
  <2>6. inbox = n => calls[n] = 0
    <3>1. n # None
      BY DEF Insts, None
    <3>. QED  BY <1>2, <3>1 DEF OnceInv
  <2>7. Cardinality({}) = 0
    BY FS_EmptySet
  <2>8. CASE Live(n) # {}
    BY <1>1, <2>3, <2>4, <2>7, <2>8
  <2>9. CASE Live(n) = {} /\ Collected(n) # {}
    BY <2>1, <2>5, <2>7, <2>9
  <2>10. CASE Live(n) = {} /\ Collected(n) = {}
    BY <2>2, <2>6, <2>7, <2>10
  <2>. QED  BY <2>8, <2>9, <2>10
<1>. QED  BY <1>1, <1>2

\* A timer is in the list once at most, and a timeout is armed, collected,
\* posted or called, never two of these: whatever the interleaving of
\* setTimeout, clearTimeout, reloads and the timer thread's unlocked scan
\* (infra.cc), for any number of timers.
THEOREM FiresAtMostOnce == Spec => []FiresOnce
<1>1. TimerInv => FiresOnce
  BY OnceImpliesFiresOnce DEF TimerInv
<1>. QED  BY <1>1, TimerInvHolds, PTL

LEMMA OnlyScanCollects ==
  ASSUME TypeInv, Next, Len(callbacks') > Len(callbacks)
  PROVE  ScanNext
<1>1. Len(callbacks) \in Nat
  BY Lists
<1>2. callbacks' # callbacks
  BY <1>1
<1>3. ~CallNext
  <2>1. CallNext => Len(callbacks') = Len(callbacks) - 1
    BY TypeCallNext
  <2>. QED  BY <1>1, <2>1
<1>4. \A n \in Insts : clearTimeout(n) => callbacks' = callbacks
  BY DEF clearTimeout, timerVars
<1>5. RunCallback \/ DropCallback \/ PassTime => callbacks' = callbacks
  BY DEF RunCallback, DropCallback, PassTime, timerVars
<1>6. Reset \/ LoopEnds \/ NewRuntime => callbacks' = callbacks
  BY DEF Reset, LoopEnds, NewRuntime, timerVars
<1>7. \A d, r : SetTimer(d, r) => callbacks' = callbacks
  BY DEF SetTimer
<1>8. WakeUp \/ FreedNode \/ ScanDone \/ CallsDone => callbacks' = callbacks
  BY DEF WakeUp, FreedNode, ScanDone, CallsDone
<1>9. RemoveNext \/ RemoveDone \/ EraseNulls => callbacks' = callbacks
  BY DEF RemoveNext, RemoveDone, EraseNulls
<1>. QED  BY <1>2, <1>3, <1>4, <1>5, <1>6, <1>7, <1>8, <1>9
         DEF Next, LoopStep, TimerStep, setTimeout, setInterval

LEMMA CollectsInTime ==
  ASSUME TypeInv, TimeInv, ScanNext, callbacks' # callbacks
  PROVE  timers[cursor + 1].age >= timers[cursor + 1].delay - sleep_time
<1>1. PICK t \in Node : t = timers[cursor + 1] /\ cursor + 1 \in DOMAIN timers
  BY TypeScanNext
<1>2. Collects(t)
  BY <1>1 DEF ScanNext
<1>3. Slack(cursor + 1) = 0
  <2>1. timerPc = "scan"
    BY DEF ScanNext
  <2>2. cursor + 1 > cursor
    BY Lists
  <2>. QED  BY <2>1, <2>2 DEF Slack
<1>4. ~t.null /\ t.elapsed <= t.age + 0 /\ (t.elapsed = 0 \/ t.elapsed < t.delay)
  BY <1>1, <1>2, <1>3 DEF TimeInv, Collects
<1>5. t.elapsed + sleep_time >= t.delay
  BY <1>2, <1>4, NoWrap DEF Collects, Due
<1>6. t.age >= t.delay - sleep_time
  BY <1>4, <1>5, NodeFields, TimerConstants
<1>. QED  BY <1>1, <1>6

\* No timer is collected more than one period of the timer thread before its
\* delay has elapsed (timer_thread_func in infra.cc counts whole periods, and a
\* timer may be set in the middle of one), for any delays up to the overflow
\* bound and any period.
THEOREM NeverTooEarly == Spec => NotTooEarly
<1>1. ASSUME TimerInv, [Next]_vars
      PROVE  [\A i \in DOMAIN timers :
                i = cursor + 1 /\ Len(callbacks') > Len(callbacks)
                  => timers[i].age >= timers[i].delay - sleep_time]_vars
  <2>. SUFFICES ASSUME Next, NEW i \in DOMAIN timers, i = cursor + 1,
                       Len(callbacks') > Len(callbacks)
                PROVE  timers[i].age >= timers[i].delay - sleep_time
    BY <1>1
  <2>1. ScanNext
    BY <1>1, OnlyScanCollects DEF TimerInv
  <2>2. callbacks' # callbacks
    BY <1>1, Lists DEF TimerInv
  <2>. QED  BY <1>1, <2>1, <2>2, CollectsInTime DEF TimerInv
<1>. QED  BY <1>1, TimerInvHolds, PTL DEF Spec, NotTooEarly
=============================================================================
