--------------------------- MODULE SequenceLemmas ---------------------------
(***************************************************************************)
(* Facts about sequences that the proofs of several components need: what  *)
(* appending, removing and filtering do to the elements and their order.   *)
(* Filter is defined by recursion, so its facts are proved by induction.   *)
(***************************************************************************)
EXTENDS Filters, SequencesExt, SequenceTheorems, FiniteSetTheorems, WellFoundedInduction,
        TLAPS

(***************************************************************************)
(* Induction over the naturals, from the library's theorem that a          *)
(* well-founded relation has minimal elements.                             *)
(***************************************************************************)
\* A set of naturals that has an element has a least one.
LEMMA NatLeast ==
  ASSUME NEW T, T \subseteq Nat, T # {}
  PROVE  \E n \in T : \A m \in T : n <= m
<1>. DEFINE R == {ss \in Nat \X Nat : ss[1] < ss[2]}
<1>1. IsWellFoundedOn(R, Nat)
  <2>1. R = OpToRel(<, Nat)
    BY DEF OpToRel
  <2>. QED  BY <2>1, NatLessThanWellFounded
<1>2. PICK x \in T : \A y \in T : <<y, x>> \notin R
  <2>. HIDE DEF R
  <2>. QED  BY <1>1, WFMin
<1>3. \A y \in T : ~(y < x)
  BY <1>2
<1>. QED  BY <1>3

\* A set of naturals with 0 and the successor of each of its elements is Nat.
LEMMA NatInductive ==
  ASSUME NEW S, S \subseteq Nat, 0 \in S, \A n \in S : n + 1 \in S
  PROVE  S = Nat
<1>1. SUFFICES ASSUME Nat \ S # {} PROVE FALSE
  OBVIOUS
<1>2. PICK n \in Nat \ S : \A m \in Nat \ S : n <= m
  <2>1. Nat \ S \subseteq Nat
    OBVIOUS
  <2>. QED  BY <2>1, <1>1, NatLeast
<1>3. n # 0 /\ n - 1 \in S
  BY <1>2
<1>. QED  BY <1>3

(***************************************************************************)
(* Append and RemoveAt.                                                    *)
(***************************************************************************)
LEMMA RangeOfAppend ==
  ASSUME NEW S, NEW s \in Seq(S), NEW e \in S
  PROVE  Range(Append(s, e)) = Range(s) \cup {e}
<1>1. DOMAIN Append(s, e) = 1..(Len(s) + 1) /\ DOMAIN s = 1..Len(s) /\ Len(s) \in Nat
  BY AppendProperties, LenProperties
<1>2. \A i \in 1..Len(s) : Append(s, e)[i] = s[i]
  BY AppendProperties
<1>3. Append(s, e)[Len(s) + 1] = e
  BY AppendProperties
<1>. QED  BY <1>1, <1>2, <1>3 DEF Range

\* Elements before position i keep their place, the others move down by one.
LEMMA RemoveAtElements ==
  ASSUME NEW S, NEW s \in Seq(S), NEW i \in 1..Len(s)
  PROVE  /\ RemoveAt(s, i) \in Seq(S)
         /\ Len(RemoveAt(s, i)) = Len(s) - 1
         /\ \A k \in 1..(Len(s) - 1) :
              RemoveAt(s, i)[k] = IF k < i THEN s[k] ELSE s[k + 1]
<1>. DEFINE left  == SubSeq(s, 1, i - 1)
            right == SubSeq(s, i + 1, Len(s))
<1>0. Len(s) \in Nat /\ i \in Int
  BY LenProperties
<1>1. /\ left \in Seq(S) /\ Len(left) = i - 1
      /\ \A k \in 1..(i - 1) : left[k] = s[k]
  BY <1>0, SubSeqProperties
<1>2. /\ right \in Seq(S) /\ Len(right) = Len(s) - i
      /\ \A k \in 1..(Len(s) - i) : right[k] = s[i + k]
  <2>1. \A k \in (i + 1)..Len(s) : s[k] \in S
    BY <1>0, ElementOfSeq
  <2>2. /\ right \in Seq(S)
        /\ Len(right) = IF i + 1 <= Len(s) THEN Len(s) - (i + 1) + 1 ELSE 0
        /\ \A k \in 1..(Len(s) - (i + 1) + 1) : right[k] = s[(i + 1) + k - 1]
    BY <1>0, <2>1, SubSeqProperties
  <2>. HIDE DEF right
  <2>3. \A k \in 1..(Len(s) - i) : right[k] = s[i + k]
    <3>. TAKE k \in 1..(Len(s) - i)
    <3>1. k \in 1..(Len(s) - (i + 1) + 1) /\ (i + 1) + k - 1 = i + k
      BY <1>0
    <3>. QED  BY <3>1, <2>2
  <2>. QED  BY <1>0, <2>2, <2>3
<1>3. RemoveAt(s, i) = left \o right
  BY DEF RemoveAt
<1>. HIDE DEF left, right
<1>4. /\ left \o right \in Seq(S) /\ Len(left \o right) = Len(left) + Len(right)
      /\ \A k \in 1..(Len(left) + Len(right)) :
           (left \o right)[k] = IF k <= Len(left) THEN left[k] ELSE right[k - Len(left)]
  BY <1>1, <1>2, ConcatProperties
<1>5. ASSUME NEW k \in 1..(Len(s) - 1)
      PROVE  RemoveAt(s, i)[k] = IF k < i THEN s[k] ELSE s[k + 1]
  <2>1. CASE k < i
    BY <2>1, <1>0, <1>1, <1>2, <1>3, <1>4
  <2>2. CASE ~(k < i)
    <3>1. k - Len(left) \in 1..(Len(s) - i) /\ i + (k - Len(left)) = k + 1
      BY <2>2, <1>0, <1>1
    <3>2. right[k - Len(left)] = s[k + 1]
      BY <3>1, <1>2
    <3>. QED  BY <2>2, <3>2, <1>0, <1>1, <1>2, <1>3, <1>4
  <2>. QED  BY <2>1, <2>2
<1>. QED  BY <1>0, <1>1, <1>2, <1>3, <1>4, <1>5

LEMMA RangeOfRemoveAt ==
  ASSUME NEW S, NEW s \in Seq(S), NEW i \in 1..Len(s)
  PROVE  Range(s) = Range(RemoveAt(s, i)) \cup {s[i]}
<1>. DEFINE t == RemoveAt(s, i)
<1>1. Len(s) \in Nat /\ DOMAIN s = 1..Len(s) /\ DOMAIN t = 1..(Len(s) - 1)
  BY RemoveAtElements, LenProperties
<1>2. \A k \in 1..(Len(s) - 1) : t[k] = IF k < i THEN s[k] ELSE s[k + 1]
  BY RemoveAtElements
<1>. HIDE DEF t
<1>3. ASSUME NEW k \in 1..Len(s), k # i PROVE s[k] \in Range(t)
  <2>1. CASE k < i
    BY <2>1, <1>1, <1>2 DEF Range
  <2>2. CASE k > i
    <3>1. k - 1 \in DOMAIN t /\ t[k - 1] = s[k]
      BY <2>2, <1>1, <1>2
    <3>. QED  BY <3>1 DEF Range
  <2>. QED  BY <2>1, <2>2, <1>3, <1>1
<1>4. ASSUME NEW k \in DOMAIN t PROVE t[k] \in Range(s)
  BY <1>1, <1>2 DEF Range
<1>5. Range(t) \subseteq Range(s)
  BY <1>4 DEF Range
<1>6. Range(s) \subseteq Range(t) \cup {s[i]}
  BY <1>1, <1>3 DEF Range
<1>7. s[i] \in Range(s)
  BY <1>1 DEF Range
<1>. QED  BY <1>5, <1>6, <1>7 DEF t

(***************************************************************************)
(* Filter.                                                                 *)
(***************************************************************************)
\* The equation that defines the function F of Filter, on the first n elements.
Filters(s, K, n, g) ==
  g = [i \in 0..n |-> IF i = 0 THEN <<>>
                      ELSE IF s[i] \in K THEN Append(g[i - 1], s[i]) ELSE g[i - 1]]

\* The recursion in Filter defines a function.
LEMMA FilterRecursion ==
  ASSUME NEW S, NEW s \in Seq(S), NEW K
  PROVE  \E g : Filters(s, K, Len(s), g) /\ Filter(s, K) = g[Len(s)]
<1>. DEFINE Done == {n \in Nat : \E g : Filters(s, K, n, g)}
<1>1. 0 \in Done
  <2>. DEFINE g == [i \in 0..0 |-> <<>>]
  <2>1. Filters(s, K, 0, g)
    BY DEF Filters
  <2>. QED  BY <2>1
<1>2. ASSUME NEW n \in Done PROVE n + 1 \in Done
  <2>1. PICK g : Filters(s, K, n, g)
    OBVIOUS
  <2>. DEFINE last == IF s[n + 1] \in K THEN Append(g[n], s[n + 1]) ELSE g[n]
              h == [i \in 0..(n + 1) |-> IF i = n + 1 THEN last ELSE g[i]]
  <2>2. \A i \in 0..n : h[i] = g[i]
    OBVIOUS
  <2>3. \A i \in 0..n : g[i] = IF i = 0 THEN <<>>
                               ELSE IF s[i] \in K THEN Append(g[i - 1], s[i]) ELSE g[i - 1]
    BY <2>1 DEF Filters
  <2>. HIDE DEF last
  <2>4. ASSUME NEW i \in 0..(n + 1)
        PROVE  h[i] = IF i = 0 THEN <<>>
                      ELSE IF s[i] \in K THEN Append(h[i - 1], s[i]) ELSE h[i - 1]
    <3>1. CASE i = n + 1
      <4>1. h[n + 1] = last /\ h[n] = g[n]
        BY <2>2
      <4>2. i - 1 = n /\ i # 0
        BY <3>1
      <4>. QED  BY <3>1, <4>1, <4>2 DEF last
    <3>2. CASE i \in 1..n
      <4>1. h[i] = g[i] /\ h[i - 1] = g[i - 1] /\ i # 0
        BY <3>2, <2>2
      <4>. QED  BY <3>2, <4>1, <2>3
    <3>3. CASE i = 0
      BY <3>3, <2>2, <2>3
    <3>. QED  BY <3>1, <3>2, <3>3
  <2>. HIDE DEF h
  <2>5. Filters(s, K, n + 1, h)
    <3>1. h = [i \in 0..(n + 1) |-> h[i]]
      BY DEF h
    <3>. QED  BY <3>1, <2>4 DEF Filters
  <2>. QED  BY <2>5
<1>3. Done = Nat
  <2>. HIDE DEF Done
  <2>1. Done \subseteq Nat
    BY DEF Done
  <2>. QED  BY <1>1, <1>2, <2>1, NatInductive
<1>4. Len(s) \in Done
  BY <1>3, LenProperties
<1>5. PICK g : Filters(s, K, Len(s), g)
  BY <1>4
<1>. DEFINE F == CHOOSE f : Filters(s, K, Len(s), f)
<1>6. Filters(s, K, Len(s), F)
  BY <1>5
<1>7. Filter(s, K) = F[Len(s)]
  BY DEF Filter, Filters
<1>. QED  BY <1>6, <1>7

\* f takes the elements of t, in order, to the first n elements of s in K.
Embeds(s, K, n, t, f) ==
  /\ f \in [1..Len(t) -> 1..n]
  /\ \A i, j \in 1..Len(t) : i < j => f[i] < f[j]
  /\ \A i \in 1..Len(t) : t[i] = s[f[i]] /\ s[f[i]] \in K
  /\ \A j \in 1..n : s[j] \in K => \E i \in 1..Len(t) : f[i] = j

LEMMA EmbedsSkip ==
  ASSUME NEW S, NEW s \in Seq(S), NEW K, NEW n \in Nat, NEW t \in Seq(S), NEW f,
         Embeds(s, K, n, t, f), s[n + 1] \notin K
  PROVE  Embeds(s, K, n + 1, t, f)
BY LenProperties DEF Embeds

LEMMA EmbedsTake ==
  ASSUME NEW S, NEW s \in Seq(S), NEW K, NEW n \in Nat, NEW t \in Seq(S), NEW f,
         Embeds(s, K, n, t, f), s[n + 1] \in K, s[n + 1] \in S
  PROVE  \E h : Embeds(s, K, n + 1, Append(t, s[n + 1]), h)
<1>. DEFINE m == Len(t)
            u == Append(t, s[n + 1])
            h == [i \in 1..(m + 1) |-> IF i = m + 1 THEN n + 1 ELSE f[i]]
<1>1. /\ m \in Nat /\ Len(u) = m + 1 /\ u[m + 1] = s[n + 1]
      /\ \A i \in 1..m : u[i] = t[i]
  BY AppendProperties, LenProperties
<1>. HIDE DEF m, u
<1>2. \A i \in 1..m : h[i] = f[i] /\ f[i] \in 1..n
  <2>1. f \in [1..m -> 1..n]
    BY DEF Embeds, m
  <2>2. \A i \in 1..m : i \in 1..(m + 1) /\ i # m + 1
    BY <1>1
  <2>. QED  BY <2>1, <2>2
<1>3. h[m + 1] = n + 1 /\ h \in [1..(m + 1) -> 1..(n + 1)]
  <2>1. m + 1 \in 1..(m + 1)
    BY <1>1
  <2>2. ASSUME NEW i \in 1..(m + 1) PROVE h[i] \in 1..(n + 1)
    <3>1. CASE i = m + 1
      BY <3>1
    <3>2. CASE i \in 1..m
      <4>. HIDE DEF h
      <4>1. h[i] \in 1..n
        BY <3>2, <1>2
      <4>. QED  BY <4>1
    <3>. QED  BY <3>1, <3>2, <1>1
  <2>. QED  BY <2>1, <2>2
<1>. HIDE DEF h
<1>4. ASSUME NEW i \in 1..(m + 1), NEW j \in 1..(m + 1), i < j PROVE h[i] < h[j]
  <2>1. i \in 1..m
    BY <1>1, <1>4
  <2>2. CASE j = m + 1
    BY <2>1, <2>2, <1>2, <1>3
  <2>3. CASE j \in 1..m
    <3>1. f[i] < f[j]
      BY <2>1, <2>3, <1>4 DEF Embeds, m
    <3>. QED  BY <3>1, <2>1, <2>3, <1>2
  <2>. QED  BY <2>2, <2>3, <1>1
<1>5. ASSUME NEW i \in 1..(m + 1) PROVE u[i] = s[h[i]] /\ s[h[i]] \in K
  <2>1. CASE i = m + 1
    BY <2>1, <1>1, <1>3
  <2>2. CASE i \in 1..m
    BY <2>2, <1>1, <1>2 DEF Embeds, m
  <2>. QED  BY <2>1, <2>2, <1>1
<1>6. ASSUME NEW j \in 1..(n + 1), s[j] \in K PROVE \E i \in 1..(m + 1) : h[i] = j
  <2>1. CASE j = n + 1
    BY <2>1, <1>1, <1>3
  <2>2. CASE j \in 1..n
    <3>1. PICK i \in 1..m : f[i] = j
      BY <2>2, <1>6 DEF Embeds, m
    <3>2. i \in 1..(m + 1) /\ h[i] = j
      BY <3>1, <1>1, <1>2
    <3>. QED  BY <3>2
  <2>. QED  BY <2>1, <2>2
<1>7. Embeds(s, K, n + 1, u, h)
  BY <1>1, <1>3, <1>4, <1>5, <1>6 DEF Embeds
<1>. QED  BY <1>7 DEF u

\* Filter leaves the elements in K, each of them once and in their order.
LEMMA FilterEmbeds ==
  ASSUME NEW S, NEW s \in Seq(S), NEW K
  PROVE  /\ Filter(s, K) \in Seq(S)
         /\ \E f : Embeds(s, K, Len(s), Filter(s, K), f)
<1>1. PICK g : Filters(s, K, Len(s), g) /\ Filter(s, K) = g[Len(s)]
  BY FilterRecursion
<1>2. Len(s) \in Nat
  BY LenProperties
<1>3. \A i \in 0..Len(s) : g[i] = IF i = 0 THEN <<>>
                           ELSE IF s[i] \in K THEN Append(g[i - 1], s[i]) ELSE g[i - 1]
  BY <1>1, <1>2 DEF Filters
<1>. DEFINE Good(n) == g[n] \in Seq(S) /\ \E f : Embeds(s, K, n, g[n], f)
            Done == {n \in Nat : n <= Len(s) => Good(n)}
<1>4. 0 \in Done
  <2>1. g[0] = <<>>
    BY <1>2, <1>3
  <2>2. Embeds(s, K, 0, <<>>, <<>>)
    BY DEF Embeds
  <2>3. Good(0)
    BY <2>1, <2>2
  <2>. HIDE DEF Good
  <2>. QED  BY <2>3
<1>5. ASSUME NEW n \in Done PROVE n + 1 \in Done
  <2>. SUFFICES ASSUME n + 1 <= Len(s) PROVE Good(n + 1)
    BY <1>5
  <2>1. Good(n) /\ n + 1 \in 1..Len(s)
    BY <1>2, <1>5
  <2>2. s[n + 1] \in S
    BY <2>1, ElementOfSeq
  <2>3. g[n + 1] = IF s[n + 1] \in K THEN Append(g[n], s[n + 1]) ELSE g[n]
    <3>1. n + 1 \in 0..Len(s) /\ n + 1 # 0 /\ (n + 1) - 1 = n
      BY <2>1, <1>2
    <3>. QED  BY <3>1, <1>3
  <2>4. PICK f : Embeds(s, K, n, g[n], f)
    BY <2>1
  <2>5. CASE s[n + 1] \in K
    BY <2>1, <2>2, <2>3, <2>4, <2>5, EmbedsTake, AppendProperties
  <2>6. CASE s[n + 1] \notin K
    BY <2>1, <2>3, <2>4, <2>6, EmbedsSkip
  <2>. QED  BY <2>5, <2>6
<1>6. Done = Nat
  <2>. HIDE DEF Done
  <2>1. Done \subseteq Nat
    BY DEF Done
  <2>. QED  BY <1>4, <1>5, <2>1, NatInductive
<1>7. Good(Len(s))
  BY <1>2, <1>6
<1>. QED  BY <1>1, <1>7

\* The elements that Filter leaves are those of the list in K.
LEMMA RangeOfFilter ==
  ASSUME NEW S, NEW s \in Seq(S), NEW K
  PROVE  Range(Filter(s, K)) = Range(s) \cap K
<1>. DEFINE t == Filter(s, K)
<1>1. PICK f : Embeds(s, K, Len(s), t, f)
  BY FilterEmbeds
<1>2. t \in Seq(S) /\ DOMAIN t = 1..Len(t) /\ DOMAIN s = 1..Len(s)
  BY FilterEmbeds, LenProperties
<1>. HIDE DEF t
<1>3. ASSUME NEW i \in 1..Len(t) PROVE t[i] \in Range(s) \cap K
  BY <1>1, <1>2 DEF Embeds, Range
<1>4. ASSUME NEW j \in 1..Len(s), s[j] \in K PROVE s[j] \in Range(t)
  <2>1. PICK i \in 1..Len(t) : f[i] = j
    BY <1>1, <1>4 DEF Embeds
  <2>2. t[i] = s[j]
    BY <1>1, <2>1 DEF Embeds
  <2>. QED  BY <1>2, <2>2 DEF Range
<1>5. Range(t) \subseteq Range(s) \cap K
  BY <1>2, <1>3 DEF Range
<1>6. Range(s) \cap K \subseteq Range(t)
  BY <1>2, <1>4 DEF Range
<1>. QED  BY <1>5, <1>6 DEF t

Increasing(s) == \A i, j \in 1..Len(s) : i < j => s[i] < s[j]

\* Filter keeps a list sorted.
LEMMA FilterIncreasing ==
  ASSUME NEW s \in Seq(Int), NEW K, Increasing(s)
  PROVE  Increasing(Filter(s, K))
<1>. DEFINE t == Filter(s, K)
<1>1. PICK f : Embeds(s, K, Len(s), t, f)
  BY FilterEmbeds
<1>. HIDE DEF t
<1>2. ASSUME NEW i \in 1..Len(t), NEW j \in 1..Len(t), i < j PROVE t[i] < t[j]
  <2>1. f[i] \in 1..Len(s) /\ f[j] \in 1..Len(s) /\ f[i] < f[j]
    BY <1>1, <1>2 DEF Embeds
  <2>2. s[f[i]] < s[f[j]]
    BY <2>1 DEF Increasing
  <2>. QED  BY <1>1, <2>2 DEF Embeds
<1>. QED  BY <1>2 DEF Increasing, t

\* A list to which something larger than its elements is appended stays sorted.
LEMMA AppendIncreasing ==
  ASSUME NEW s \in Seq(Int), NEW e \in Int, Increasing(s), \A x \in Range(s) : x < e
  PROVE  Increasing(Append(s, e))
<1>. DEFINE u == Append(s, e)
<1>1. /\ Len(s) \in Nat /\ DOMAIN s = 1..Len(s) /\ Len(u) = Len(s) + 1 /\ u[Len(s) + 1] = e
      /\ \A i \in 1..Len(s) : u[i] = s[i]
  BY AppendProperties, LenProperties
<1>. HIDE DEF u
<1>2. ASSUME NEW i \in 1..Len(u), NEW j \in 1..Len(u), i < j PROVE u[i] < u[j]
  <2>1. i \in 1..Len(s) /\ u[i] = s[i] /\ s[i] \in Range(s)
    BY <1>1, <1>2 DEF Range
  <2>2. CASE j = Len(s) + 1
    BY <1>1, <2>1, <2>2
  <2>3. CASE j \in 1..Len(s)
    BY <1>1, <1>2, <2>1, <2>3 DEF Increasing
  <2>. QED  BY <1>1, <2>2, <2>3
<1>. QED  BY <1>2 DEF Increasing, u

\* A function on 1..n is a sequence of length n.
LEMMA FunctionIsSeq ==
  ASSUME NEW S, NEW n \in Nat, NEW f \in [1..n -> S]
  PROVE  f \in Seq(S) /\ Len(f) = n /\ DOMAIN f = 1..n
<1>1. f \in Seq(S) /\ DOMAIN f = 1..n
  BY IsASeq
<1>. QED  BY <1>1, LenProperties

\* RemoveAt keeps the elements at the other places, in their order.
LEMMA RemoveAtEmbeds ==
  ASSUME NEW S, NEW s \in Seq(S), NEW i \in 1..Len(s)
  PROVE  \E f \in [1..(Len(s) - 1) -> 1..Len(s)] :
           /\ \A k \in 1..(Len(s) - 1) : f[k] # i /\ RemoveAt(s, i)[k] = s[f[k]]
           /\ \A k, m \in 1..(Len(s) - 1) : k < m => f[k] < f[m]
           /\ \A k, m \in 1..(Len(s) - 1) : f[k] = f[m] => k = m
<1>. DEFINE f == [k \in 1..(Len(s) - 1) |-> IF k < i THEN k ELSE k + 1]
<1>1. Len(s) \in Nat
  BY LenProperties
<1>2. f \in [1..(Len(s) - 1) -> 1..Len(s)]
  BY <1>1
<1>3. \A k \in 1..(Len(s) - 1) : f[k] # i /\ RemoveAt(s, i)[k] = s[f[k]]
  BY <1>1, RemoveAtElements
<1>4. \A k, m \in 1..(Len(s) - 1) : (k < m => f[k] < f[m]) /\ (f[k] = f[m] => k = m)
  BY <1>1
<1>. HIDE DEF f
<1>. QED  BY <1>2, <1>3, <1>4

\* A set whose elements are all the same has at most one.
LEMMA AtMostOne ==
  ASSUME NEW S, \A x, y \in S : x = y
  PROVE  IsFiniteSet(S) /\ Cardinality(S) \in 0..1
<1>1. CASE S = {}
  BY <1>1, FS_EmptySet
<1>2. CASE S # {}
  <2>1. PICK x : S = {x}
    BY <1>2
  <2>2. IsFiniteSet(S) /\ Cardinality(S) = 1
    BY <2>1, FS_Singleton
  <2>. QED  BY <2>2
<1>. QED  BY <1>1, <1>2
=============================================================================
