---------------------------- MODULE Heap_proofs ----------------------------
(***************************************************************************)
(* Proofs about Heap for any finite sets of objects, cells and fields and  *)
(* any number of weak records: counts are exact between operations,        *)
(* nothing in use is freed, and a collection finds the garbage exactly,    *)
(* until the first use of freed memory that the model has, after which     *)
(* nothing happens.                                                        *)
(***************************************************************************)
EXTENDS Heap, SequenceLemmas

(***************************************************************************)
(* References, counted over given values of slot, weak, roots and jobs.    *)
(***************************************************************************)
FieldSet(sl, P, x) == {f \in P \X Slots : sl[f[1]][f[2]] = x}
Fields(sl, P, x) == Cardinality(FieldSet(sl, P, x))
OfOwners(wk, P) == {r \in wk : r.owner \in P}

Slotting == [Nodes -> [Slots -> Nodes \cup {None}]]

\* The references that no node holds, and all references.
External(rt, jb, x) == (IF x \in rt THEN 1 ELSE 0) + (IF x \in Objects THEN jb[x] ELSE 0)
Internal(sl, wk, P, x) == Fields(sl, P, x) + RecordsTo(OfOwners(wk, P), x)
AllRefs(sl, wk, rt, jb, x) == Fields(sl, Nodes, x) + RecordsTo(wk, x) + External(rt, jb, x)

LEMMA FiniteNodes == IsFiniteSet(Nodes) /\ IsFiniteSet(Slots)
  BY HeapConstants, FS_Union DEF Nodes

LEMMA FieldsNat ==
  ASSUME NEW sl, NEW P, P \subseteq Nodes, NEW x
  PROVE  IsFiniteSet(FieldSet(sl, P, x)) /\ Fields(sl, P, x) \in Nat
<1>1. IsFiniteSet(P \X Slots)
  BY FiniteNodes, FS_Subset, FS_Product
<1>2. FieldSet(sl, P, x) \subseteq P \X Slots
  BY DEF FieldSet
<1>. QED  BY <1>1, <1>2, FS_Subset, FS_CardinalityType DEF Fields

LEMMA FieldsZero ==
  ASSUME NEW sl, NEW P, P \subseteq Nodes, NEW x
  PROVE  Fields(sl, P, x) = 0 <=> \A p \in P, s \in Slots : sl[p][s] # x
<1>1. Fields(sl, P, x) = 0 <=> FieldSet(sl, P, x) = {}
  BY FieldsNat, FS_EmptySet DEF Fields
<1>2. ASSUME FieldSet(sl, P, x) = {}, NEW p \in P, NEW s \in Slots, sl[p][s] = x
      PROVE  FALSE
  <2>1. <<p, s>> \in FieldSet(sl, P, x)
    BY <1>2 DEF FieldSet
  <2>. QED  BY <1>2, <2>1
<1>3. ASSUME \A p \in P, s \in Slots : sl[p][s] # x
      PROVE  FieldSet(sl, P, x) = {}
  BY <1>3 DEF FieldSet
<1>. QED  BY <1>1, <1>2, <1>3

LEMMA FieldsDisjoint ==
  ASSUME NEW sl, NEW P, P \subseteq Nodes, NEW Q, Q \subseteq Nodes, P \cap Q = {}, NEW x
  PROVE  Fields(sl, P \cup Q, x) = Fields(sl, P, x) + Fields(sl, Q, x)
<1>1. PICK A, B, C : /\ A = FieldSet(sl, P, x) /\ B = FieldSet(sl, Q, x)
                     /\ C = FieldSet(sl, P \cup Q, x)
  OBVIOUS
<1>2. C = A \cup B /\ A \cap B = {}
  BY <1>1 DEF FieldSet
<1>3. IsFiniteSet(A) /\ IsFiniteSet(B)
  BY <1>1, FieldsNat
<1>4. Cardinality(A \cup B) = Cardinality(A) + Cardinality(B) - Cardinality(A \cap B)
  BY <1>3, FS_Union
<1>5. Cardinality(A \cap B) = 0 /\ Cardinality(A) \in Nat /\ Cardinality(B) \in Nat
  BY <1>2, <1>3, FS_EmptySet, FS_CardinalityType
<1>6. Cardinality(C) = Cardinality(A) + Cardinality(B)
  BY <1>2, <1>4, <1>5
<1>. QED  BY <1>1, <1>6 DEF Fields

\* One field changes.
Alters(sl, tl, p, s) ==
  /\ p \in Nodes /\ s \in Slots
  /\ \A q \in Nodes, u \in Slots : q # p \/ u # s => tl[q][u] = sl[q][u]

LEMMA FieldsSet ==
  ASSUME NEW sl, NEW tl, NEW p, NEW s, Alters(sl, tl, p, s), NEW x
  PROVE  Fields(tl, Nodes, x) = Fields(sl, Nodes, x) - (IF sl[p][s] = x THEN 1 ELSE 0)
                                                    + (IF tl[p][s] = x THEN 1 ELSE 0)
<1>1. PICK A, B, e : A = FieldSet(sl, Nodes, x) /\ B = FieldSet(tl, Nodes, x) /\ e = <<p, s>>
  OBVIOUS
<1>2. \A f \in Nodes \X Slots : f # e => tl[f[1]][f[2]] = sl[f[1]][f[2]]
  BY <1>1 DEF Alters
<1>3. A \ {e} = B \ {e}
  BY <1>1, <1>2 DEF FieldSet
<1>4. (e \in A <=> sl[p][s] = x) /\ (e \in B <=> tl[p][s] = x)
  <2>1. e \in Nodes \X Slots /\ e[1] = p /\ e[2] = s
    BY <1>1 DEF Alters
  <2>2. e \in B <=> tl[e[1]][e[2]] = x
    BY <1>1, <2>1 DEF FieldSet
  <2>3. e \in A <=> sl[e[1]][e[2]] = x
    BY <1>1, <2>1 DEF FieldSet
  <2>. QED  BY <2>1, <2>2, <2>3
<1>5. IsFiniteSet(A) /\ IsFiniteSet(B)
  BY <1>1, FieldsNat
<1>6. /\ Cardinality(A \ {e}) = IF e \in A THEN Cardinality(A) - 1 ELSE Cardinality(A)
      /\ Cardinality(B \ {e}) = IF e \in B THEN Cardinality(B) - 1 ELSE Cardinality(B)
  BY <1>5, FS_RemoveElement
<1>7. Cardinality(A) \in Nat /\ Cardinality(B) \in Nat
  BY <1>5, FS_CardinalityType
<1>8. Cardinality(B) = Cardinality(A) - (IF e \in A THEN 1 ELSE 0) + (IF e \in B THEN 1 ELSE 0)
  <2>1. PICK n : n = Cardinality(A \ {e}) /\ n = Cardinality(B \ {e})
    BY <1>3
  <2>2. /\ n = IF e \in A THEN Cardinality(A) - 1 ELSE Cardinality(A)
        /\ n = IF e \in B THEN Cardinality(B) - 1 ELSE Cardinality(B)
    BY <1>6, <2>1
  <2>. QED  BY <1>7, <2>2
<1>9. Fields(sl, Nodes, x) = Cardinality(A) /\ Fields(tl, Nodes, x) = Cardinality(B)
  BY <1>1 DEF Fields
<1>. QED  BY <1>4, <1>8, <1>9

\* The fields of the nodes C are cleared.
Cleared(sl, C) == [y \in Nodes |-> IF y \in C THEN [s \in Slots |-> None] ELSE sl[y]]

LEMMA FieldsClear ==
  ASSUME NEW sl \in Slotting, NEW C, C \subseteq Nodes, NEW x \in Nodes
  PROVE  Fields(Cleared(sl, C), Nodes, x) = Fields(sl, Nodes, x) - Fields(sl, C, x)
<1>1. PICK tl, D : tl = Cleared(sl, C) /\ D = Nodes \ C
  OBVIOUS
<1>2. D \subseteq Nodes /\ D \cap C = {} /\ D \cup C = Nodes
  BY <1>1
<1>3. /\ Fields(sl, Nodes, x) = Fields(sl, D, x) + Fields(sl, C, x)
      /\ Fields(tl, Nodes, x) = Fields(tl, D, x) + Fields(tl, C, x)
  BY <1>2, FieldsDisjoint
<1>4. Fields(tl, C, x) = 0
  <2>1. x # None
    BY HeapConstants DEF Nodes
  <2>2. \A p \in C, s \in Slots : tl[p][s] # x
    BY <1>1, <2>1 DEF Cleared
  <2>. QED  BY <2>2, FieldsZero
<1>5. FieldSet(sl, D, x) = FieldSet(tl, D, x)
  BY <1>1 DEF FieldSet, Cleared
<1>6. Fields(sl, D, x) \in Nat /\ Fields(sl, C, x) \in Nat
  BY <1>2, FieldsNat
<1>7. Fields(tl, D, x) = Fields(sl, D, x)
  BY <1>5 DEF Fields
<1>8. Fields(tl, Nodes, x) = Fields(sl, Nodes, x) - Fields(sl, C, x)
  BY <1>3, <1>4, <1>6, <1>7
<1>. QED  BY <1>1, <1>8

\* What weak records hold.
LEMMA RecordsNat ==
  ASSUME NEW R, IsFiniteSet(R), NEW x
  PROVE  RecordsTo(R, x) \in Nat
BY FS_Subset, FS_CardinalityType DEF RecordsTo

LEMMA RecordsZero ==
  ASSUME NEW R, IsFiniteSet(R), NEW x
  PROVE  RecordsTo(R, x) = 0 <=> \A r \in R : r.value # x /\ r.token # x
<1>. DEFINE A == {r \in R : r.value = x}
            B == {r \in R : r.token = x}
<1>1. IsFiniteSet(A) /\ IsFiniteSet(B)
  BY FS_Subset
<1>2. Cardinality(A) \in Nat /\ Cardinality(B) \in Nat
  BY <1>1, FS_CardinalityType
<1>3. RecordsTo(R, x) = Cardinality(A) + Cardinality(B)
  BY DEF RecordsTo
<1>4. (Cardinality(A) = 0 <=> A = {}) /\ (Cardinality(B) = 0 <=> B = {})
  BY <1>1, FS_EmptySet
<1>5. A = {} /\ B = {} <=> \A r \in R : r.value # x /\ r.token # x
  OBVIOUS
<1>. HIDE DEF A, B
<1>. QED  BY <1>2, <1>3, <1>4, <1>5

LEMMA RecordsDisjoint ==
  ASSUME NEW Q, IsFiniteSet(Q), NEW R, IsFiniteSet(R), Q \cap R = {}, NEW x
  PROVE  RecordsTo(Q \cup R, x) = RecordsTo(Q, x) + RecordsTo(R, x)
<1>. DEFINE A == {r \in Q : r.value = x}
            B == {r \in R : r.value = x}
            C == {r \in Q : r.token = x}
            D == {r \in R : r.token = x}
<1>1. IsFiniteSet(A) /\ IsFiniteSet(B) /\ IsFiniteSet(C) /\ IsFiniteSet(D)
  BY FS_Subset
<1>2. {r \in Q \cup R : r.value = x} = A \cup B /\ {r \in Q \cup R : r.token = x} = C \cup D
  OBVIOUS
<1>3. A \cap B = {} /\ C \cap D = {}
  OBVIOUS
<1>4. /\ RecordsTo(Q, x) = Cardinality(A) + Cardinality(C)
      /\ RecordsTo(R, x) = Cardinality(B) + Cardinality(D)
      /\ RecordsTo(Q \cup R, x) = Cardinality(A \cup B) + Cardinality(C \cup D)
  BY <1>2 DEF RecordsTo
<1>. HIDE DEF A, B, C, D
<1>5. /\ Cardinality(A) \in Nat /\ Cardinality(B) \in Nat
      /\ Cardinality(C) \in Nat /\ Cardinality(D) \in Nat
  BY <1>1, FS_CardinalityType
<1>6. /\ Cardinality(A \cup B) = Cardinality(A) + Cardinality(B) - Cardinality(A \cap B)
      /\ Cardinality(C \cup D) = Cardinality(C) + Cardinality(D) - Cardinality(C \cap D)
  BY <1>1, FS_Union
<1>7. Cardinality(A \cap B) = 0 /\ Cardinality(C \cap D) = 0
  BY <1>3, FS_EmptySet
<1>. QED  BY <1>4, <1>5, <1>6, <1>7

LEMMA RecordsMinus ==
  ASSUME NEW Q, IsFiniteSet(Q), NEW R, R \subseteq Q, NEW x
  PROVE  RecordsTo(Q \ R, x) = RecordsTo(Q, x) - RecordsTo(R, x)
<1>1. IsFiniteSet(R) /\ IsFiniteSet(Q \ R)
  BY FS_Subset
<1>2. Q = (Q \ R) \cup R /\ (Q \ R) \cap R = {}
  OBVIOUS
<1>3. RecordsTo(Q, x) = RecordsTo(Q \ R, x) + RecordsTo(R, x)
  BY <1>1, <1>2, RecordsDisjoint
<1>4. RecordsTo(R, x) \in Nat /\ RecordsTo(Q \ R, x) \in Nat
  BY <1>1, RecordsNat
<1>. QED  BY <1>3, <1>4

LEMMA RecordsOne ==
  ASSUME NEW r, NEW x
  PROVE  RecordsTo({r}, x) = (IF r.value = x THEN 1 ELSE 0) + (IF r.token = x THEN 1 ELSE 0)
<1>1. /\ Cardinality({q \in {r} : q.value = x}) = IF r.value = x THEN 1 ELSE 0
      /\ Cardinality({q \in {r} : q.token = x}) = IF r.token = x THEN 1 ELSE 0
  <2>1. {q \in {r} : q.value = x} = IF r.value = x THEN {r} ELSE {}
    OBVIOUS
  <2>2. {q \in {r} : q.token = x} = IF r.token = x THEN {r} ELSE {}
    OBVIOUS
  <2>. QED  BY <2>1, <2>2, FS_Singleton, FS_EmptySet
<1>. QED  BY <1>1 DEF RecordsTo

\* What the nodes P hold.
LEMMA InternalNat ==
  ASSUME NEW sl, NEW wk, IsFiniteSet(wk), NEW P, P \subseteq Nodes, NEW x
  PROVE  /\ IsFiniteSet(OfOwners(wk, P)) /\ Internal(sl, wk, P, x) \in Nat
         /\ Fields(sl, P, x) \in Nat /\ RecordsTo(OfOwners(wk, P), x) \in Nat
<1>1. IsFiniteSet(OfOwners(wk, P))
  BY FS_Subset DEF OfOwners
<1>2. Fields(sl, P, x) \in Nat /\ RecordsTo(OfOwners(wk, P), x) \in Nat
  BY <1>1, FieldsNat, RecordsNat
<1>. QED  BY <1>1, <1>2 DEF Internal

LEMMA InternalZero ==
  ASSUME NEW sl, NEW wk, IsFiniteSet(wk), NEW P, P \subseteq Nodes, NEW x
  PROVE  Internal(sl, wk, P, x) = 0 <=>
           /\ \A p \in P, s \in Slots : sl[p][s] # x
           /\ \A r \in wk : r.owner \in P => r.value # x /\ r.token # x
<1>1. Internal(sl, wk, P, x) = 0 <=> Fields(sl, P, x) = 0 /\ RecordsTo(OfOwners(wk, P), x) = 0
  BY InternalNat DEF Internal
<1>2. RecordsTo(OfOwners(wk, P), x) = 0
      <=> \A r \in OfOwners(wk, P) : r.value # x /\ r.token # x
  BY InternalNat, RecordsZero
<1>. QED  BY <1>1, <1>2, FieldsZero DEF OfOwners

LEMMA InternalDisjoint ==
  ASSUME NEW sl, NEW wk, IsFiniteSet(wk), NEW P, P \subseteq Nodes, NEW Q, Q \subseteq Nodes,
         P \cap Q = {}, NEW x
  PROVE  Internal(sl, wk, P \cup Q, x) = Internal(sl, wk, P, x) + Internal(sl, wk, Q, x)
<1>1. /\ OfOwners(wk, P \cup Q) = OfOwners(wk, P) \cup OfOwners(wk, Q)
      /\ OfOwners(wk, P) \cap OfOwners(wk, Q) = {}
  BY DEF OfOwners
<1>2. PICK A, B : A = OfOwners(wk, P) /\ B = OfOwners(wk, Q)
  OBVIOUS
<1>3. RecordsTo(A \cup B, x) = RecordsTo(A, x) + RecordsTo(B, x)
  <2>1. IsFiniteSet(A) /\ IsFiniteSet(B) /\ A \cap B = {}
    BY <1>1, <1>2, InternalNat
  <2>. QED  BY <2>1, RecordsDisjoint
<1>4. RecordsTo(OfOwners(wk, P \cup Q), x) = RecordsTo(A, x) + RecordsTo(B, x)
  BY <1>1, <1>2, <1>3
<1>5. Fields(sl, P \cup Q, x) = Fields(sl, P, x) + Fields(sl, Q, x)
  BY FieldsDisjoint
<1>6. /\ Fields(sl, P, x) \in Nat /\ Fields(sl, Q, x) \in Nat
      /\ RecordsTo(A, x) \in Nat /\ RecordsTo(B, x) \in Nat
  BY <1>2, InternalNat
<1>. QED  BY <1>2, <1>4, <1>5, <1>6 DEF Internal

\* When only the nodes K have fields and records, theirs are all there are.
LEMMA AllRefsSplit ==
  ASSUME NEW sl, NEW wk, IsFiniteSet(wk), NEW rt, NEW jb, NEW K, K \subseteq Nodes,
         \A y \in Nodes \ K : \A s \in Slots : sl[y][s] = None,
         \A r \in wk : r.owner \in K, NEW x \in Nodes
  PROVE  AllRefs(sl, wk, rt, jb, x) = Internal(sl, wk, K, x) + External(rt, jb, x)
<1>1. PICK D : D = Nodes \ K
  OBVIOUS
<1>2. D \subseteq Nodes /\ K \cap D = {} /\ K \cup D = Nodes
  BY <1>1
<1>3. Fields(sl, Nodes, x) = Fields(sl, K, x) + Fields(sl, D, x)
  BY <1>2, FieldsDisjoint
<1>4. x # None
  BY HeapConstants DEF Nodes
<1>5. Fields(sl, D, x) = 0
  BY <1>1, <1>2, <1>4, FieldsZero
<1>6. Fields(sl, K, x) \in Nat
  BY FieldsNat
<1>7. Fields(sl, Nodes, x) = Fields(sl, K, x)
  BY <1>3, <1>5, <1>6
<1>8. OfOwners(wk, K) = wk
  BY DEF OfOwners
<1>. QED  BY <1>7, <1>8 DEF AllRefs, Internal

LEMMA AllRefsNat ==
  ASSUME NEW sl, NEW wk, IsFiniteSet(wk), NEW rt, NEW jb \in [Objects -> Nat], NEW x
  PROVE  /\ AllRefs(sl, wk, rt, jb, x) \in Nat /\ External(rt, jb, x) \in Nat
         /\ Fields(sl, Nodes, x) \in Nat /\ RecordsTo(wk, x) \in Nat
<1>1. Fields(sl, Nodes, x) \in Nat /\ RecordsTo(wk, x) \in Nat
  BY FieldsNat, RecordsNat
<1>2. External(rt, jb, x) \in Nat
  BY DEF External
<1>. QED  BY <1>1, <1>2 DEF AllRefs

\* Nothing refers to x, when its count is 0.
Unheld(sl, wk, rt, jb, x) ==
  /\ \A p \in Nodes, s \in Slots : sl[p][s] # x
  /\ \A r \in wk : r.value # x /\ r.token # x
  /\ x \notin rt /\ (x \in Objects => jb[x] = 0)

LEMMA NoRefs ==
  ASSUME NEW sl, NEW wk, IsFiniteSet(wk), NEW rt, NEW jb, jb \in [Objects -> Nat], NEW x
  PROVE  AllRefs(sl, wk, rt, jb, x) = 0 <=> Unheld(sl, wk, rt, jb, x)
<1>1. AllRefs(sl, wk, rt, jb, x) = 0 <=>
        Fields(sl, Nodes, x) = 0 /\ RecordsTo(wk, x) = 0 /\ External(rt, jb, x) = 0
  BY AllRefsNat DEF AllRefs
<1>2. External(rt, jb, x) = 0 <=> x \notin rt /\ (x \in Objects => jb[x] = 0)
  BY DEF External
<1>3. Fields(sl, Nodes, x) = 0 <=> \A p \in Nodes, s \in Slots : sl[p][s] # x
  BY FieldsZero
<1>4. RecordsTo(wk, x) = 0 <=> \A r \in wk : r.value # x /\ r.token # x
  BY RecordsZero
<1>. QED  BY <1>1, <1>2, <1>3, <1>4 DEF Unheld

(***************************************************************************)
(* What is reachable.                                                      *)
(***************************************************************************)
\* The equation of the function in ReachableFrom, on 0..n.
Spreads(base, n, g) ==
  g = [i \in 0..n |-> IF i = 0 THEN base ELSE LET P == g[i - 1] IN P \cup Successors(P)]

Steps(base, n, g) ==
  g[0] = base /\ \A i \in 1..n : g[i] = g[i - 1] \cup Successors(g[i - 1])

LEMMA SpreadsSteps ==
  ASSUME NEW base, NEW n \in Nat, NEW g, Spreads(base, n, g)
  PROVE  Steps(base, n, g)
<1>. DEFINE e(i) == IF i = 0 THEN base ELSE g[i - 1] \cup Successors(g[i - 1])
<1>1. g = [i \in 0..n |-> e(i)]
  BY DEF Spreads
<1>2. \A i \in 0..n : g[i] = e(i)
  <2>. HIDE DEF e
  <2>. QED  BY <1>1
<1>3. e(0) = base /\ 0 \in 0..n
  OBVIOUS
<1>4. \A i \in 1..n : i \in 0..n /\ e(i) = g[i - 1] \cup Successors(g[i - 1])
  OBVIOUS
<1>. HIDE DEF e
<1>. QED  BY <1>2, <1>3, <1>4 DEF Steps

LEMMA ReachRecursion ==
  ASSUME NEW base
  PROVE  \E g : Steps(base, Cardinality(Nodes), g) /\ ReachableFrom(base) = g[Cardinality(Nodes)]
<1>. DEFINE Done == {n \in Nat : \E g : Spreads(base, n, g)}
<1>1. 0 \in Done
  <2>. DEFINE g == [i \in 0..0 |-> base]
  <2>1. Spreads(base, 0, g)
    BY DEF Spreads
  <2>. QED  BY <2>1
<1>2. ASSUME NEW n \in Done PROVE n + 1 \in Done
  <2>1. PICK g : Spreads(base, n, g)
    OBVIOUS
  <2>2. g[0] = base /\ \A i \in 1..n : g[i] = g[i - 1] \cup Successors(g[i - 1])
    <3>1. n \in Nat
      OBVIOUS
    <3>2. Steps(base, n, g)
      <4>. HIDE DEF Done
      <4>. QED  BY <2>1, <3>1, SpreadsSteps
    <3>. QED  BY <3>2 DEF Steps
  <2>. DEFINE last == g[n] \cup Successors(g[n])
              h == [i \in 0..(n + 1) |-> IF i = n + 1 THEN last ELSE g[i]]
  <2>. HIDE DEF last
  <2>3. \A i \in 0..n : h[i] = g[i]
    OBVIOUS
  <2>4. h[n + 1] = last
    OBVIOUS
  <2>5. h = [i \in 0..(n + 1) |-> h[i]]
    OBVIOUS
  <2>. HIDE DEF h
  <2>6. ASSUME NEW i \in 0..(n + 1)
        PROVE  h[i] = IF i = 0 THEN base ELSE LET P == h[i - 1] IN P \cup Successors(P)
    <3>1. CASE i = n + 1
      <4>1. h[i - 1] = g[n] /\ i # 0
        BY <2>3, <3>1
      <4>. QED  BY <2>4, <3>1, <4>1 DEF last
    <3>2. CASE i \in 1..n
      <4>1. h[i] = g[i] /\ h[i - 1] = g[i - 1] /\ i # 0
        BY <2>3, <3>2
      <4>2. g[i] = g[i - 1] \cup Successors(g[i - 1])
        BY <2>2, <3>2
      <4>. QED  BY <4>1, <4>2
    <3>3. CASE i = 0
      BY <3>3, <2>2, <2>3
    <3>. QED  BY <3>1, <3>2, <3>3
  <2>7. Spreads(base, n + 1, h)
    BY <2>5, <2>6 DEF Spreads
  <2>. QED  BY <2>7
<1>3. Done = Nat
  <2>. HIDE DEF Done
  <2>1. Done \subseteq Nat
    BY DEF Done
  <2>. QED  BY <1>1, <1>2, <2>1, NatInductive
<1>4. Cardinality(Nodes) \in Nat
  BY FiniteNodes, FS_CardinalityType
<1>5. \E g : Spreads(base, Cardinality(Nodes), g)
  BY <1>3, <1>4
<1>. DEFINE F == CHOOSE f : Spreads(base, Cardinality(Nodes), f)
<1>6. Spreads(base, Cardinality(Nodes), F)
  BY <1>5
<1>7. ReachableFrom(base) = F[Cardinality(Nodes)]
  BY DEF ReachableFrom, Spreads
<1>. HIDE DEF F
<1>8. Steps(base, Cardinality(Nodes), F)
  BY <1>4, <1>6, SpreadsSteps
<1>. QED  BY <1>7, <1>8

\* The least set: whatever holds the base and its successors holds all.
LEMMA ReachLeast ==
  ASSUME NEW base, NEW K, base \subseteq K, \A P \in SUBSET K : Successors(P) \subseteq K
  PROVE  ReachableFrom(base) \subseteq K
<1>1. PICK N : N = Cardinality(Nodes) /\ N \in Nat
  BY FiniteNodes, FS_CardinalityType
<1>2. PICK g : Steps(base, N, g) /\ ReachableFrom(base) = g[N]
  BY <1>1, ReachRecursion
<1>. DEFINE Done == {n \in Nat : n <= N => g[n] \subseteq K}
<1>3. 0 \in Done
  BY <1>2 DEF Steps
<1>4. ASSUME NEW n \in Done PROVE n + 1 \in Done
  <2>1. CASE n + 1 <= N
    <3>1. n + 1 \in 1..N /\ (n + 1) - 1 = n /\ g[n] \subseteq K
      BY <1>1, <2>1
    <3>2. g[n + 1] = g[n] \cup Successors(g[n])
      BY <1>2, <3>1 DEF Steps
    <3>. QED  BY <3>1, <3>2
  <2>. QED  BY <2>1
<1>5. Done = Nat
  <2>. HIDE DEF Done
  <2>1. Done \subseteq Nat
    BY DEF Done
  <2>. QED  BY <1>3, <1>4, <2>1, NatInductive
<1>. QED  BY <1>1, <1>2, <1>5

\* It is closed: with Cardinality(Nodes) rounds nothing new can be left.
LEMMA ReachClosed ==
  ASSUME NEW base, base \subseteq Nodes, \A P \in SUBSET Nodes : Successors(P) \subseteq Nodes
  PROVE  /\ base \subseteq ReachableFrom(base) /\ ReachableFrom(base) \subseteq Nodes
         /\ Successors(ReachableFrom(base)) \subseteq ReachableFrom(base)
<1>1. PICK N : N = Cardinality(Nodes) /\ N \in Nat
  BY FiniteNodes, FS_CardinalityType
<1>2. PICK g : Steps(base, N, g) /\ ReachableFrom(base) = g[N]
  BY <1>1, ReachRecursion
<1>. DEFINE Closed(A) == Successors(A) \subseteq A
            Good(A, n) == /\ base \subseteq A /\ A \subseteq Nodes
                          /\ Closed(A) \/ Cardinality(A) >= n
            Done == {n \in Nat : n <= N => Good(g[n], n)}
<1>3. 0 \in Done
  <2>1. IsFiniteSet(base)
    BY FiniteNodes, FS_Subset
  <2>2. Cardinality(base) \in Nat
    BY <2>1, FS_CardinalityType
  <2>. QED  BY <1>2, <2>2 DEF Steps
<1>4. ASSUME NEW n \in Done PROVE n + 1 \in Done
  <2>1. SUFFICES ASSUME n + 1 <= N PROVE Good(g[n + 1], n + 1)
    OBVIOUS
  <2>2. n \in Nat /\ n + 1 \in 1..N /\ (n + 1) - 1 = n /\ Good(g[n], n)
    BY <1>1, <2>1
  <2>3. PICK A, B : A = g[n] /\ B = g[n + 1]
    OBVIOUS
  <2>4. B = A \cup Successors(A)
    BY <1>2, <2>2, <2>3 DEF Steps
  <2>5. base \subseteq A /\ A \subseteq Nodes /\ (Closed(A) \/ Cardinality(A) >= n)
    BY <2>2, <2>3
  <2>6. Successors(A) \subseteq Nodes
    BY <2>5
  <2>7. base \subseteq B /\ B \subseteq Nodes
    BY <2>4, <2>5, <2>6
  <2>8. CASE Closed(A)
    <3>1. B = A
      BY <2>4, <2>8
    <3>. QED  BY <2>3, <2>7, <2>8, <3>1
  <2>9. CASE ~Closed(A)
    <3>1. IsFiniteSet(B) /\ IsFiniteSet(A)
      BY <2>5, <2>7, FiniteNodes, FS_Subset
    <3>2. A \subseteq B /\ A # B
      BY <2>4, <2>9
    <3>3. Cardinality(A) <= Cardinality(B) /\ Cardinality(A) # Cardinality(B)
      BY <3>1, <3>2, FS_Subset
    <3>4. Cardinality(A) \in Nat /\ Cardinality(B) \in Nat
      BY <3>1, FS_CardinalityType
    <3>5. Cardinality(A) >= n
      BY <2>5, <2>9
    <3>6. Cardinality(B) >= n + 1
      BY <2>2, <3>3, <3>4, <3>5
    <3>. QED  BY <2>3, <2>7, <3>6
  <2>. QED  BY <2>8, <2>9
<1>5. Done = Nat
  <2>. HIDE DEF Done
  <2>1. Done \subseteq Nat
    BY DEF Done
  <2>. QED  BY <1>3, <1>4, <2>1, NatInductive
<1>6. PICK A : A = g[N]
  OBVIOUS
<1>7. Good(A, N)
  BY <1>1, <1>5, <1>6
<1>8. Closed(A)
  <2>1. CASE Cardinality(A) >= N
    <3>1. IsFiniteSet(A) /\ Cardinality(A) <= N
      BY <1>1, <1>7, FiniteNodes, FS_Subset
    <3>2. Cardinality(A) = N
      BY <1>1, <2>1, <3>1, FS_CardinalityType
    <3>3. A = Nodes
      BY <1>1, <1>7, <3>2, FiniteNodes, FS_Subset
    <3>. QED  BY <3>3
  <2>. QED  BY <1>7, <2>1
<1>. QED  BY <1>2, <1>6, <1>7, <1>8

(***************************************************************************)
(* The inductive invariant.                                                *)
(***************************************************************************)
TypeInv ==
  /\ ref \in [Nodes -> Nat]
  /\ mem \in [Nodes -> {"free", "live", "zombie"}]
  /\ slot \in Slotting
  /\ weak \subseteq Record /\ IsFiniteSet(weak)
  /\ roots \subseteq Objects /\ jobs \in [Objects -> Nat]
  /\ gc_obj_list \subseteq Nodes /\ tmp_obj_list \subseteq Nodes
  /\ gc_zero_ref_count_list \subseteq Nodes
  /\ pc \in {"run", "free", "gc_decref", "gc_scan", "gc_free_cycles"}

\* Only live nodes have fields, own records or are their targets; a live cell
\* is a field of some node, and refers to objects only.
Shape ==
  /\ \A x \in Nodes \ Live : \A s \in Slots : slot[x][s] = None
  /\ \A c \in Cells, s \in Slots : slot[c][s] \in Objects \cup {None}
  /\ \A r \in weak : r.owner \in Live /\ r.target \in Live
  /\ \A c \in Cells \cap Live : \E p \in Nodes, s \in Slots : slot[p][s] = c

\* The references of scripts, of jobs and of the nodes K lead to nodes of K.
Closed(K) ==
  /\ roots \subseteq K /\ \A x \in Objects : jobs[x] > 0 => x \in K
  /\ \A p \in K, s \in Slots : slot[p][s] \in K \cup {None}
  /\ \A r \in weak : r.owner \in K => r.value \in K \cup {None} /\ r.token \in K \cup {None}

\* What must survive: in a sweep, what gc_scan has kept.
Kept == IF pc = "gc_free_cycles" THEN gc_obj_list ELSE Live

ListsRun ==
  /\ gc_phase = "none" /\ gc_zero_ref_count_list = {} /\ gc_obj_list = Live
  /\ \A x \in Nodes : mem[x] # "zombie"

ListsFree ==
  /\ gc_phase = "decref"
  /\ gc_zero_ref_count_list \subseteq {x \in Objects \cap Live : ref[x] = 0}
  /\ gc_obj_list = Live \ gc_zero_ref_count_list
  /\ \A x \in Nodes : mem[x] # "zombie"

ListsScan ==
  /\ gc_phase = "none" /\ gc_zero_ref_count_list = {}
  /\ tmp_obj_list = {x \in Live : ref[x] = 0} /\ gc_obj_list = Live \ tmp_obj_list
  /\ visited \subseteq gc_obj_list /\ gc_obj_list \subseteq Reachable
  /\ \A x \in Nodes : mem[x] # "zombie"

ListsSweep ==
  /\ gc_phase = "remove_cycles"
  /\ gc_obj_list \cup tmp_obj_list \cup (gc_zero_ref_count_list \cap Cells) = Live
  /\ gc_obj_list \cap tmp_obj_list = {}
  /\ (gc_obj_list \cup tmp_obj_list) \cap gc_zero_ref_count_list = {}
  /\ \A x \in Objects : x \in gc_zero_ref_count_list <=> mem[x] = "zombie"
  /\ \A c \in Cells : mem[c] # "zombie"

Lists ==
  CASE pc = "run"       -> ListsRun
    [] pc = "gc_decref" -> ListsRun /\ visited = {}
    [] pc = "free"      -> ListsFree
    [] pc = "gc_scan"   -> ListsScan
    [] pc = "gc_free_cycles" -> ListsSweep

\* Counts are exact, but for what gc_decref took and gc_scan has yet to restore.
Exact == \A x \in Nodes : ref[x] = AllRefs(slot, weak, roots, jobs, x)
Scanned ==
  \A x \in Nodes : ref[x] = Internal(slot, weak, visited, x) + External(roots, jobs, x)
Counts == IF pc = "gc_scan" THEN Scanned ELSE Exact

Whole == TypeInv /\ Shape /\ Closed(Kept) /\ Lists /\ Counts
HeapInv == corrupt \/ Whole

LEMMA NodeFacts ==
  /\ Objects \subseteq Nodes /\ Cells \subseteq Nodes /\ Objects \cap Cells = {}
  /\ None \notin Nodes /\ Live \subseteq Nodes /\ Nodes = Objects \cup Cells
BY HeapConstants DEF Nodes, Live

LEMMA RecordFacts ==
  ASSUME NEW r \in Record
  PROVE  /\ r.owner \in Objects /\ r.target \in Objects
         /\ r.value \in Objects \cup {None} /\ r.token \in Objects \cup {None}
BY DEF Record

LEMMA InitWhole == Init => Whole
<1>. SUFFICES ASSUME Init PROVE Whole
  OBVIOUS
<1>1. Live = {} /\ IsFiniteSet(weak)
  BY FS_EmptySet DEF Init, Live
<1>2. TypeInv
  BY <1>1 DEF Init, TypeInv, Slotting
<1>3. Shape
  BY <1>1, NodeFacts DEF Init, Shape
<1>4. Closed(Kept) /\ Lists
  BY <1>1 DEF Init, Closed, Kept, Lists, ListsRun
<1>5. Counts
  <2>1. \A x \in Nodes : AllRefs(slot, weak, roots, jobs, x) = 0
    <3>. SUFFICES ASSUME NEW x \in Nodes
                  PROVE  AllRefs(slot, weak, roots, jobs, x) = 0
      OBVIOUS
    <3>1. Unheld(slot, weak, roots, jobs, x)
      BY NodeFacts DEF Init, Unheld
    <3>. QED  BY <1>1, <1>2, <3>1, NoRefs DEF TypeInv
  <2>. QED  BY <2>1 DEF Init, Counts, Exact
<1>. QED  BY <1>2, <1>3, <1>4, <1>5 DEF Whole

(***************************************************************************)
(* Steps of scripts.                                                       *)
(***************************************************************************)
\* Between operations the count is exact and references lead to live nodes.
LEMMA AtRun ==
  ASSUME Whole, pc \in {"run", "free", "gc_decref"}
  PROVE  /\ TypeInv /\ Shape /\ Closed(Live) /\ Exact
         /\ pc = "run" => ListsRun
         /\ pc = "free" => ListsFree
         /\ pc = "gc_decref" => ListsRun /\ visited = {}
<1>1. pc # "gc_free_cycles" /\ pc # "gc_scan"
  OBVIOUS
<1>2. TypeInv /\ Shape /\ Closed(Live) /\ Exact
  BY <1>1 DEF Whole, Kept, Counts
<1>. QED  BY <1>2 DEF Whole, Lists

\* What a script's step leaves: pc is still "run", or the nodes Z are queued.
Leaves(Z) ==
  /\ gc_obj_list' = gc_obj_list \ Z /\ gc_zero_ref_count_list' = Z
  /\ \/ Z = {} /\ pc' = pc /\ gc_phase' = gc_phase
     \/ pc' = "free" /\ gc_phase' = "decref"

LEMMA ScriptStep ==
  ASSUME Whole, pc = "run", mem' = mem, tmp_obj_list' = tmp_obj_list,
         slot' \in Slotting, weak' \subseteq Record, IsFiniteSet(weak'),
         roots' \subseteq Objects, jobs' \in [Objects -> Nat],
         Shape', Closed(Live)', ref' = [x \in Nodes |-> ref'[x]], Exact',
         NEW Z, Z \subseteq {x \in Objects \cap Live : ref'[x] = 0}, Leaves(Z)
  PROVE  Whole'
<1>1. TypeInv /\ ListsRun
  BY AtRun
<1>2. Live' = Live
  BY DEF Live
<1>3. ref' \in [Nodes -> Nat]
  <2>1. \A x \in Nodes : AllRefs(slot', weak', roots', jobs', x) \in Nat
    BY AllRefsNat
  <2>. QED  BY <2>1 DEF Exact
<1>4. pc' \in {"run", "free"}
  BY DEF Leaves
<1>5. TypeInv'
  <2>1. /\ gc_obj_list' \subseteq Nodes /\ tmp_obj_list' \subseteq Nodes
        /\ gc_zero_ref_count_list' \subseteq Nodes
    BY <1>1, NodeFacts DEF Leaves, TypeInv
  <2>. QED  BY <1>1, <1>3, <1>4, <2>1 DEF TypeInv
<1>6. Lists'
  <2>1. CASE Z = {} /\ pc' = pc /\ gc_phase' = gc_phase
    <3>1. ListsRun'
      BY <1>1, <1>2, <2>1 DEF ListsRun, Leaves
    <3>. QED  BY <2>1, <3>1 DEF Lists
  <2>2. CASE pc' = "free" /\ gc_phase' = "decref"
    <3>1. ListsFree'
      BY <1>1, <1>2, <2>2 DEF ListsRun, ListsFree, Leaves
    <3>. QED  BY <2>2, <3>1 DEF Lists
  <2>. QED  BY <2>1, <2>2 DEF Leaves
<1>7. Counts' /\ Closed(Kept)'
  BY <1>4 DEF Counts, Kept
<1>. QED  BY <1>5, <1>6, <1>7 DEF Whole

LEMMA KeepLeaves ==
  ASSUME Whole, pc = "run", Keep, gc_obj_list' = gc_obj_list
  PROVE  Leaves({})
<1>1. ListsRun
  BY AtRun
<1>. QED  BY <1>1 DEF ListsRun, Keep, Leaves

LEMMA LetGoLeaves ==
  ASSUME Whole, pc = "run", NEW x \in Objects \cap Live, NEW n \in Nat, ref'[x] = n - 1, LetGo(x, n)
  PROVE  \E Z : Z \subseteq {y \in Objects \cap Live : ref'[y] = 0} /\ Leaves(Z)
<1>1. ListsRun
  BY AtRun
<1>2. CASE n = 1
  <2>1. {x} \subseteq {y \in Objects \cap Live : ref'[y] = 0}
    BY <1>2
  <2>2. Leaves({x})
    BY <1>2 DEF LetGo, Leaves
  <2>. QED  BY <2>1, <2>2
<1>3. CASE n # 1
  <2>1. {} \subseteq {y \in Objects \cap Live : ref'[y] = 0}
    OBVIOUS
  <2>2. Leaves({})
    BY <1>1, <1>3 DEF LetGo, Leaves, ListsRun
  <2>. QED  BY <2>1, <2>2
<1>. QED  BY <1>2, <1>3

\* Only what scripts and jobs hold changes.
LEMMA HoldStep ==
  ASSUME Whole, pc = "run", UNCHANGED <<mem, slot, weak, tmp_obj_list>>,
         roots' \subseteq Objects \cap Live, jobs' \in [Objects -> Nat],
         \A x \in Objects : jobs'[x] > 0 => x \in Live,
         ref' = [x \in Nodes |-> ref'[x]],
         \A x \in Nodes : ref'[x] = ref[x] - External(roots, jobs, x) + External(roots', jobs', x),
         NEW Z, Z \subseteq {x \in Objects \cap Live : ref'[x] = 0}, Leaves(Z)
  PROVE  Whole'
<1>1. TypeInv /\ Shape /\ Closed(Live) /\ Exact
  BY AtRun
<1>2. Live' = Live
  BY DEF Live
<1>3. Shape' /\ Closed(Live)'
  <2>1. Shape'
    BY <1>1, <1>2 DEF Shape
  <2>2. Closed(Live)'
    BY <1>1, <1>2 DEF Closed
  <2>. QED  BY <2>1, <2>2
<1>4. Exact'
  <2>. SUFFICES ASSUME NEW x \in Nodes
                PROVE  ref'[x] = AllRefs(slot', weak', roots', jobs', x)
    BY DEF Exact
  <2>1. /\ Fields(slot, Nodes, x) \in Nat /\ RecordsTo(weak, x) \in Nat
        /\ External(roots, jobs, x) \in Nat
    BY <1>1, AllRefsNat DEF TypeInv
  <2>2. External(roots', jobs', x) \in Nat
    BY <1>1, AllRefsNat DEF TypeInv
  <2>3. ref[x] = Fields(slot, Nodes, x) + RecordsTo(weak, x) + External(roots, jobs, x)
    BY <1>1 DEF Exact, AllRefs
  <2>4. ref'[x] = Fields(slot, Nodes, x) + RecordsTo(weak, x) + External(roots', jobs', x)
    BY <2>1, <2>2, <2>3
  <2>. QED  BY <2>4 DEF AllRefs
<1>5. /\ slot' \in Slotting /\ weak' \subseteq Record /\ IsFiniteSet(weak')
      /\ roots' \subseteq Objects
  BY <1>1 DEF TypeInv
<1>. QED  BY <1>3, <1>4, <1>5, ScriptStep

\* A script takes one reference.
LEMMA TakeStep ==
  ASSUME Whole, pc = "run", NEW x \in Objects \cap Live, x \notin roots, roots' = roots \cup {x},
         ref' = [ref EXCEPT ![x] = @ + 1], Keep,
         UNCHANGED <<mem, slot, weak, jobs, gc_obj_list, tmp_obj_list>>
  PROVE  Whole'
<1>1. TypeInv /\ Closed(Live)
  BY AtRun
<1>2. /\ roots' \subseteq Objects \cap Live /\ jobs' \in [Objects -> Nat]
      /\ \A y \in Objects : jobs'[y] > 0 => y \in Live
  BY <1>1 DEF TypeInv, Closed
<1>3. ref' = [y \in Nodes |-> ref'[y]] /\ \A y \in Nodes : ref'[y] = IF y = x THEN ref[y] + 1 ELSE ref[y]
  BY <1>1, NodeFacts DEF TypeInv
<1>4. ASSUME NEW y \in Nodes
      PROVE  ref'[y] = ref[y] - External(roots, jobs, y) + External(roots', jobs', y)
  <2>1. External(roots', jobs', y) = External(roots, jobs, y) + (IF y = x THEN 1 ELSE 0)
    BY <1>1 DEF External, TypeInv
  <2>2. External(roots, jobs, y) \in Nat /\ ref[y] \in Nat
    BY <1>1 DEF External, TypeInv
  <2>. QED  BY <1>3, <2>1, <2>2
<1>5. Leaves({}) /\ {} \subseteq {y \in Objects \cap Live : ref'[y] = 0}
  BY KeepLeaves
<1>. QED  BY <1>2, <1>3, <1>4, <1>5, HoldStep

\* A closed set holds what is reachable, which therefore survives.
LEMMA ReachableIn ==
  ASSUME NEW K, Closed(K)
  PROVE  Reachable \subseteq K
<1>1. roots \cup {x \in Objects : jobs[x] > 0} \subseteq K
  BY DEF Closed
<1>2. ASSUME NEW P \in SUBSET K PROVE Successors(P) \subseteq K
  BY DEF Closed, Successors
<1>3. ReachableFrom(roots \cup {x \in Objects : jobs[x] > 0}) \subseteq K
  BY <1>1, <1>2, ReachLeast
<1>. QED  BY <1>3 DEF Reachable

LEMMA ReachableKept ==
  ASSUME Whole
  PROVE  Reachable \subseteq Kept /\ Kept \subseteq Live
<1>1. PICK K : K = Kept /\ Closed(K)
  BY DEF Whole
<1>2. Reachable \subseteq K
  BY <1>1, ReachableIn
<1>3. Kept \subseteq Live
  <2>1. CASE pc = "gc_free_cycles"
    <3>1. ListsSweep
      BY <2>1 DEF Whole, Lists
    <3>. QED  BY <2>1, <3>1 DEF Kept, ListsSweep
  <2>2. CASE pc # "gc_free_cycles"
    BY <2>2 DEF Kept
  <2>. QED  BY <2>1, <2>2
<1>. QED  BY <1>1, <1>2, <1>3

LEMMA LoadStep ==
  ASSUME Whole, NEW x \in Objects, Load(x)
  PROVE  Whole'
<1>1. x \in Live
  BY ReachableKept DEF Load
<1>. QED  BY <1>1, TakeStep DEF Load, Running, gcVars

LEMMA DerefStep ==
  ASSUME Whole, NEW r \in weak, Deref(r)
  PROVE  Whole'
<1>1. pc = "run"
  BY DEF Deref, Running
<1>2. TypeInv /\ Shape
  BY <1>1, AtRun
<1>3. r.target \in Objects \cap Live
  BY <1>2, RecordFacts DEF TypeInv, Shape
<1>. QED  BY <1>1, <1>3, TakeStep DEF Deref, gcVars

LEMMA DropStep ==
  ASSUME Whole, NEW x \in Objects, Drop(x)
  PROVE  Whole'
<1>1. pc = "run" /\ x \in roots
  BY DEF Drop, Running
<1>2. TypeInv /\ Closed(Live) /\ Exact
  BY <1>1, AtRun
<1>3. x \in Objects \cap Live /\ x \in Nodes
  BY <1>1, <1>2, NodeFacts DEF Closed
<1>4. ref' = [y \in Nodes |-> ref'[y]] /\ \A y \in Nodes : ref'[y] = IF y = x THEN ref[y] - 1 ELSE ref[y]
  BY <1>2, <1>3 DEF TypeInv, Drop
<1>5. ref[x] \in Nat
  BY <1>2, <1>3 DEF TypeInv
<1>6. PICK Z : Z \subseteq {y \in Objects \cap Live : ref'[y] = 0} /\ Leaves(Z)
  BY <1>1, <1>3, <1>4, <1>5, LetGoLeaves DEF Drop
<1>7. ASSUME NEW y \in Nodes
      PROVE  ref'[y] = ref[y] - External(roots, jobs, y) + External(roots', jobs', y)
  <2>1. External(roots, jobs, y) = External(roots', jobs', y) + (IF y = x THEN 1 ELSE 0)
    BY <1>1, <1>2 DEF External, TypeInv, Drop
  <2>2. External(roots', jobs', y) \in Nat /\ ref[y] \in Nat
    BY <1>2 DEF External, TypeInv, Drop
  <2>. QED  BY <1>4, <2>1, <2>2
<1>8. /\ roots' \subseteq Objects \cap Live /\ jobs' \in [Objects -> Nat]
      /\ \A y \in Objects : jobs'[y] > 0 => y \in Live
  BY <1>2 DEF TypeInv, Closed, Drop
<1>9. UNCHANGED <<mem, slot, weak, tmp_obj_list>>
  BY DEF Drop, gcVars
<1>. QED  BY <1>1, <1>4, <1>6, <1>7, <1>8, <1>9, HoldStep

LEMMA RunJobStep ==
  ASSUME Whole, NEW x \in Objects, RunJob(x)
  PROVE  Whole'
<1>1. pc = "run" /\ jobs[x] > 0
  BY DEF RunJob, Running
<1>2. TypeInv /\ Closed(Live) /\ Exact
  BY <1>1, AtRun
<1>3. x \in Objects \cap Live /\ x \in Nodes
  BY <1>1, <1>2, NodeFacts DEF Closed
<1>4. ref' = [y \in Nodes |-> ref'[y]] /\ \A y \in Nodes : ref'[y] = IF y = x THEN ref[y] - 1 ELSE ref[y]
  BY <1>2, <1>3 DEF TypeInv, RunJob
<1>5. ref[x] \in Nat
  BY <1>2, <1>3 DEF TypeInv
<1>6. PICK Z : Z \subseteq {y \in Objects \cap Live : ref'[y] = 0} /\ Leaves(Z)
  BY <1>1, <1>3, <1>4, <1>5, LetGoLeaves DEF RunJob
<1>7. jobs' \in [Objects -> Nat] /\ \A y \in Objects : jobs'[y] = IF y = x THEN jobs[y] - 1 ELSE jobs[y]
  BY <1>1, <1>2 DEF TypeInv, RunJob
<1>8. ASSUME NEW y \in Nodes
      PROVE  ref'[y] = ref[y] - External(roots, jobs, y) + External(roots', jobs', y)
  <2>1. External(roots, jobs, y) = External(roots', jobs', y) + (IF y = x THEN 1 ELSE 0)
    BY <1>2, <1>7 DEF External, TypeInv, RunJob
  <2>2. External(roots', jobs', y) \in Nat /\ ref[y] \in Nat
    BY <1>2, <1>7 DEF External, TypeInv
  <2>. QED  BY <1>4, <2>1, <2>2
<1>9. roots' \subseteq Objects \cap Live /\ \A y \in Objects : jobs'[y] > 0 => y \in Live
  BY <1>2, <1>3, <1>7 DEF TypeInv, Closed, RunJob
<1>10. UNCHANGED <<mem, slot, weak, tmp_obj_list>>
  BY DEF RunJob, gcVars
<1>. QED  BY <1>1, <1>4, <1>6, <1>7, <1>8, <1>9, <1>10, HoldStep

\* One field changes, with the counts of its old and new value.
Sets(p, s, v, old) ==
  /\ slot[p][s] = old /\ slot' = [slot EXCEPT ![p][s] = v]
  /\ ref' = [x \in Nodes |-> ref'[x]]
  /\ \A x \in Nodes : ref'[x] = ref[x] + (IF v = x THEN 1 ELSE 0) - (IF old = x THEN 1 ELSE 0)
  /\ UNCHANGED <<mem, weak, roots, jobs, tmp_obj_list>>

LEMMA FieldStep ==
  ASSUME Whole, pc = "run", NEW p \in Live, NEW s \in Slots, NEW v \in Live \cup {None},
         p \in Cells => v \in Objects \cup {None}, NEW old \in Objects \cup {None},
         Sets(p, s, v, old), NEW Z, Z \subseteq {x \in Objects \cap Live : ref'[x] = 0}, Leaves(Z)
  PROVE  Whole'
<1>1. TypeInv /\ Shape /\ Closed(Live) /\ Exact
  BY AtRun
<1>2. Live' = Live /\ UNCHANGED <<mem, weak, roots, jobs, tmp_obj_list>>
  BY DEF Live, Sets
<1>3. slot' \in Slotting /\ \A q \in Nodes, u \in Slots :
                              slot'[q][u] = IF q = p /\ u = s THEN v ELSE slot[q][u]
  BY <1>1, NodeFacts DEF TypeInv, Slotting, Sets
<1>4. Exact'
  <2>. SUFFICES ASSUME NEW x \in Nodes
                PROVE  ref'[x] = AllRefs(slot', weak', roots', jobs', x)
    BY DEF Exact
  <2>1. Fields(slot', Nodes, x) = Fields(slot, Nodes, x) - (IF old = x THEN 1 ELSE 0)
                                                        + (IF v = x THEN 1 ELSE 0)
    <3>1. PICK sl, tl : sl = slot /\ tl = slot'
      OBVIOUS
    <3>2. p \in Nodes /\ Alters(sl, tl, p, s)
      BY <1>3, <3>1, NodeFacts DEF Alters
    <3>3. Fields(tl, Nodes, x) = Fields(sl, Nodes, x) - (IF sl[p][s] = x THEN 1 ELSE 0)
                                                      + (IF tl[p][s] = x THEN 1 ELSE 0)
      BY <3>2, FieldsSet
    <3>4. sl[p][s] = old /\ tl[p][s] = v
      BY <1>3, <3>1, <3>2 DEF Sets
    <3>. QED  BY <3>1, <3>3, <3>4
  <2>2. /\ Fields(slot, Nodes, x) \in Nat /\ RecordsTo(weak, x) \in Nat
        /\ External(roots, jobs, x) \in Nat
    BY <1>1, AllRefsNat DEF TypeInv
  <2>3. ref[x] = Fields(slot, Nodes, x) + RecordsTo(weak, x) + External(roots, jobs, x)
    BY <1>1 DEF Exact, AllRefs
  <2>4. ref'[x] = Fields(slot', Nodes, x) + RecordsTo(weak, x) + External(roots, jobs, x)
    BY <2>1, <2>2, <2>3 DEF Sets
  <2>. QED  BY <1>2, <2>4 DEF AllRefs
<1>5. Shape'
  <2>1. \A x \in Nodes \ Live : \A u \in Slots : slot'[x][u] = None
    BY <1>1, <1>3 DEF Shape
  <2>2. \A c \in Cells, u \in Slots : slot'[c][u] \in Objects \cup {None}
    BY <1>1, <1>3, NodeFacts DEF Shape
  <2>3. \A c \in Cells \cap Live : \E q \in Nodes, u \in Slots : slot'[q][u] = c
    <3>. SUFFICES ASSUME NEW c \in Cells \cap Live
                  PROVE  \E q \in Nodes, u \in Slots : slot'[q][u] = c
      OBVIOUS
    <3>1. PICK q \in Nodes, u \in Slots : slot[q][u] = c
      BY <1>1 DEF Shape
    <3>2. slot[p][s] # c
      BY NodeFacts DEF Sets
    <3>3. slot'[q][u] = c
      BY <1>3, <3>1, <3>2
    <3>. QED  BY <3>3
  <2>. QED  BY <1>1, <1>2, <2>1, <2>2, <2>3 DEF Shape
<1>6. Closed(Live)'
  <2>1. \A q \in Live, u \in Slots : slot'[q][u] \in Live \cup {None}
    BY <1>1, <1>3, NodeFacts DEF Closed
  <2>. QED  BY <1>1, <1>2, <2>1 DEF Closed
<1>7. /\ weak' \subseteq Record /\ IsFiniteSet(weak')
      /\ roots' \subseteq Objects /\ jobs' \in [Objects -> Nat]
  BY <1>1, <1>2 DEF TypeInv
<1>8. ref' = [x \in Nodes |-> ref'[x]]
  BY DEF Sets
<1>. QED  BY <1>2, <1>3, <1>4, <1>5, <1>6, <1>7, <1>8, ScriptStep

LEMMA SetFieldStep ==
  ASSUME Whole, NEW p \in Nodes, NEW s \in Slots, NEW v \in Objects \cup {None}, SetField(p, s, v)
  PROVE  Whole'
<1>1. /\ pc = "run" /\ p \in Reachable /\ v \in roots \cup {None}
      /\ slot[p][s] \in Objects \cup {None} /\ slot' = [slot EXCEPT ![p][s] = v]
  BY DEF SetField, Running
<1>2. TypeInv /\ Closed(Live)
  BY <1>1, AtRun
<1>3. PICK old : old = slot[p][s]
  OBVIOUS
<1>4. p \in Live /\ v \in Live \cup {None} /\ old \in Live \cup {None}
  BY <1>1, <1>2, <1>3, ReachableKept DEF Closed
<1>5. UNCHANGED <<mem, weak, roots, jobs, tmp_obj_list>>
  BY DEF SetField, gcVars
<1>6. PICK r1 : r1 = [x \in Nodes |-> IF x = v THEN ref[x] + 1 ELSE ref[x]]
  OBVIOUS
<1>7. r1 \in [Nodes -> Nat]
  BY <1>2, <1>6 DEF TypeInv
<1>8. IF old = None THEN ref' = r1 /\ Keep /\ UNCHANGED gc_obj_list
      ELSE ref' = [r1 EXCEPT ![old] = @ - 1] /\ LetGo(old, r1[old])
  BY <1>3, <1>6 DEF SetField
<1>9. /\ ref' = [x \in Nodes |-> ref'[x]]
      /\ \A x \in Nodes : ref'[x] = ref[x] + (IF v = x THEN 1 ELSE 0) - (IF old = x THEN 1 ELSE 0)
  <2>1. CASE old = None
    BY <1>2, <1>6, <1>8, <2>1, NodeFacts DEF TypeInv
  <2>2. CASE old # None
    <3>1. \A x \in Nodes : ref'[x] = IF x = old THEN r1[x] - 1 ELSE r1[x]
      BY <1>7, <1>8, <2>2
    <3>2. \A x \in Nodes : r1[x] = ref[x] + (IF v = x THEN 1 ELSE 0) /\ ref[x] \in Nat
      BY <1>2, <1>6 DEF TypeInv
    <3>3. ref' = [x \in Nodes |-> ref'[x]]
      BY <1>7, <1>8, <2>2
    <3>. QED  BY <3>1, <3>2, <3>3
  <2>. QED  BY <2>1, <2>2
<1>10. PICK Z : Z \subseteq {x \in Objects \cap Live : ref'[x] = 0} /\ Leaves(Z)
  <2>1. CASE old = None
    <3>1. Leaves({}) /\ {} \subseteq {x \in Objects \cap Live : ref'[x] = 0}
      BY <1>1, <1>8, <2>1, KeepLeaves
    <3>. QED  BY <3>1
  <2>2. CASE old # None
    <3>1. old \in Objects \cap Live /\ r1[old] \in Nat
      BY <1>1, <1>3, <1>4, <1>7, <2>2, NodeFacts
    <3>2. ref'[old] = r1[old] - 1 /\ LetGo(old, r1[old])
      BY <1>7, <1>8, <2>2, <3>1, NodeFacts
    <3>. QED  BY <1>1, <3>1, <3>2, LetGoLeaves
  <2>. QED  BY <2>1, <2>2
<1>11. Sets(p, s, v, old)
  BY <1>1, <1>3, <1>5, <1>9 DEF Sets
<1>12. old \in Objects \cup {None}
  BY <1>1, <1>3
<1>. QED  BY <1>1, <1>4, <1>10, <1>11, <1>12, FieldStep

LEMMA ShareCellStep ==
  ASSUME Whole, NEW p \in Objects, NEW s \in Slots, NEW c \in Cells, ShareCell(p, s, c)
  PROVE  Whole'
<1>1. /\ pc = "run" /\ p \in roots /\ slot[p][s] = None /\ c \in Reachable
      /\ ref' = [ref EXCEPT ![c] = @ + 1] /\ slot' = [slot EXCEPT ![p][s] = c]
      /\ Keep /\ UNCHANGED <<mem, weak, roots, jobs, gc_obj_list, tmp_obj_list>>
  BY DEF ShareCell, Running, gcVars
<1>2. TypeInv /\ Closed(Live)
  BY <1>1, AtRun
<1>3. p \in Live /\ p \notin Cells /\ c \in Live
  BY <1>1, <1>2, ReachableKept, NodeFacts DEF Closed
<1>4. Sets(p, s, c, None)
  <2>1. /\ ref' = [x \in Nodes |-> ref'[x]]
        /\ \A x \in Nodes : ref'[x] = (IF x = c THEN ref[x] + 1 ELSE ref[x]) /\ ref[x] \in Nat
    BY <1>1, <1>2, NodeFacts DEF TypeInv
  <2>2. ASSUME NEW x \in Nodes
        PROVE  ref'[x] = ref[x] + (IF c = x THEN 1 ELSE 0) - (IF None = x THEN 1 ELSE 0)
    BY <2>1, NodeFacts
  <2>. QED  BY <1>1, <2>1, <2>2 DEF Sets
<1>5. Leaves({}) /\ {} \subseteq {x \in Objects \cap Live : ref'[x] = 0}
  BY <1>1, KeepLeaves
<1>6. None \in Objects \cup {None} /\ c \in Live \cup {None}
  BY <1>3
<1>. QED  BY <1>1, <1>3, <1>4, <1>5, <1>6, FieldStep

\* Only the weak records and the counts of what they hold change.
LEMMA RecordsStep ==
  ASSUME Whole, pc = "run", UNCHANGED <<mem, slot, roots, jobs, tmp_obj_list>>,
         weak' \subseteq Record, IsFiniteSet(weak'),
         \A r \in weak' : /\ r.owner \in Live /\ r.target \in Live
                          /\ r.value \in Live \cup {None} /\ r.token \in Live \cup {None},
         ref' = [x \in Nodes |-> ref'[x]],
         \A x \in Nodes : ref'[x] = ref[x] - RecordsTo(weak, x) + RecordsTo(weak', x),
         NEW Z, Z \subseteq {x \in Objects \cap Live : ref'[x] = 0}, Leaves(Z)
  PROVE  Whole'
<1>1. TypeInv /\ Shape /\ Closed(Live) /\ Exact
  BY AtRun
<1>2. Live' = Live
  BY DEF Live
<1>3. Shape'
  BY <1>1, <1>2 DEF Shape
<1>4. Closed(Live)'
  BY <1>1, <1>2 DEF Closed
<1>5. Exact'
  <2>. SUFFICES ASSUME NEW x \in Nodes
                PROVE  ref'[x] = AllRefs(slot', weak', roots', jobs', x)
    BY DEF Exact
  <2>1. /\ Fields(slot, Nodes, x) \in Nat /\ RecordsTo(weak, x) \in Nat
        /\ External(roots, jobs, x) \in Nat
    BY <1>1, AllRefsNat DEF TypeInv
  <2>2. RecordsTo(weak', x) \in Nat
    BY RecordsNat
  <2>3. ref[x] = Fields(slot, Nodes, x) + RecordsTo(weak, x) + External(roots, jobs, x)
    BY <1>1 DEF Exact, AllRefs
  <2>4. ref'[x] = Fields(slot, Nodes, x) + RecordsTo(weak', x) + External(roots, jobs, x)
    BY <2>1, <2>2, <2>3
  <2>. QED  BY <2>4 DEF AllRefs
<1>6. slot' \in Slotting /\ roots' \subseteq Objects /\ jobs' \in [Objects -> Nat]
  BY <1>1 DEF TypeInv
<1>. QED  BY <1>3, <1>4, <1>5, <1>6, ScriptStep

\* The records that there are lead to live nodes.
LEMMA RecordsLive ==
  ASSUME Whole, pc = "run", NEW r \in weak
  PROVE  /\ r \in Record /\ r.owner \in Live /\ r.target \in Live
         /\ r.value \in Live \cup {None} /\ r.token \in Live \cup {None}
BY AtRun DEF TypeInv, Shape, Closed

\* Outside of a sweep nothing refers to what is not live.
LEMMA Unreferenced ==
  ASSUME TypeInv, Shape, Closed(Live), NEW x \in Nodes \ Live
  PROVE  AllRefs(slot, weak, roots, jobs, x) = 0
<1>1. TypeInv /\ Shape /\ Closed(Live)
  OBVIOUS
<1>2. \A p \in Nodes, s \in Slots : slot[p][s] # x
  BY <1>1, NodeFacts DEF Shape, Closed
<1>3. \A r \in weak : r.value # x /\ r.token # x
  BY <1>1, NodeFacts DEF Shape, Closed
<1>4. x \notin roots /\ (x \in Objects => jobs[x] = 0)
  BY <1>1 DEF Closed, TypeInv
<1>5. IsFiniteSet(weak) /\ jobs \in [Objects -> Nat]
  BY <1>1 DEF TypeInv
<1>6. Unheld(slot, weak, roots, jobs, x)
  BY <1>2, <1>3, <1>4 DEF Unheld
<1>. QED  BY <1>5, <1>6, NoRefs

LEMMA NewNodeStep ==
  ASSUME Whole, pc = "run", NEW x \in Nodes, NewNode(x), Keep,
         UNCHANGED <<weak, jobs, tmp_obj_list>>, slot' \in Slotting, roots' \subseteq Objects,
         Shape', Closed(Live)', ref' = [y \in Nodes |-> ref'[y]], Exact'
  PROVE  Whole'
<1>1. TypeInv /\ ListsRun
  BY AtRun
<1>2. /\ mem' = [mem EXCEPT ![x] = "live"] /\ gc_obj_list' = gc_obj_list \cup {x}
      /\ gc_zero_ref_count_list' = gc_zero_ref_count_list /\ gc_phase' = gc_phase /\ pc' = pc
  BY DEF NewNode, Keep
<1>3. Live' = Live \cup {x}
  BY <1>1, <1>2 DEF Live, TypeInv
<1>4. ref' \in [Nodes -> Nat]
  <2>1. weak' = weak /\ jobs' = jobs /\ IsFiniteSet(weak) /\ jobs \in [Objects -> Nat]
    BY <1>1 DEF TypeInv
  <2>2. \A y \in Nodes : AllRefs(slot', weak', roots', jobs', y) \in Nat
    BY <2>1, AllRefsNat
  <2>. QED  BY <2>2 DEF Exact
<1>5. TypeInv'
  BY <1>1, <1>2, <1>4 DEF TypeInv
<1>6. ListsRun'
  BY <1>1, <1>2, <1>3 DEF ListsRun, TypeInv
<1>7. Lists' /\ Counts' /\ Closed(Kept)'
  BY <1>2, <1>6 DEF Lists, Counts, Kept
<1>. QED  BY <1>5, <1>7 DEF Whole

LEMMA NewObjectStep ==
  ASSUME Whole, NEW x \in Objects, NewObject(x)
  PROVE  Whole'
<1>1. /\ pc = "run" /\ NewNode(x) /\ mem[x] = "free" /\ mem' = [mem EXCEPT ![x] = "live"]
      /\ ref' = [ref EXCEPT ![x] = 1] /\ roots' = roots \cup {x}
      /\ Keep /\ UNCHANGED <<slot, weak, jobs, tmp_obj_list>>
  BY DEF NewObject, Running, NewNode
<1>2. TypeInv /\ Shape /\ Closed(Live) /\ Exact
  BY <1>1, AtRun
<1>3. Live' = Live \cup {x} /\ x \in Nodes \ Live
  BY <1>1, <1>2, NodeFacts DEF Live, TypeInv
<1>4. Exact'
  <2>. SUFFICES ASSUME NEW y \in Nodes
                PROVE  ref'[y] = AllRefs(slot', weak', roots', jobs', y)
    BY DEF Exact
  <2>1. /\ Fields(slot, Nodes, y) \in Nat /\ RecordsTo(weak, y) \in Nat
        /\ External(roots, jobs, y) \in Nat
    BY <1>2, AllRefsNat DEF TypeInv
  <2>2. ref[y] = Fields(slot, Nodes, y) + RecordsTo(weak, y) + External(roots, jobs, y)
    BY <1>2 DEF Exact, AllRefs
  <2>3. External(roots', jobs', y) = External(roots, jobs, y) + (IF y = x THEN 1 ELSE 0)
    <3>1. x \notin roots
      BY <1>2, <1>3 DEF Closed
    <3>. QED  BY <1>1, <1>2, <3>1 DEF External, TypeInv
  <2>4. y = x => ref[y] = 0
    BY <1>1, <1>2, <1>3, Unreferenced DEF Exact
  <2>5. ref'[y] = ref[y] + (IF y = x THEN 1 ELSE 0)
    BY <1>1, <1>2, <2>2, <2>1, <2>4 DEF TypeInv
  <2>6. ref'[y] = Fields(slot, Nodes, y) + RecordsTo(weak, y) + External(roots', jobs', y)
    BY <2>1, <2>2, <2>3, <2>5
  <2>. QED  BY <1>1, <2>6 DEF AllRefs
<1>5. Shape'
  BY <1>1, <1>2, <1>3, NodeFacts DEF Shape
<1>6. Closed(Live)'
  <2>1. \A s \in Slots : slot[x][s] = None
    BY <1>2, <1>3 DEF Shape
  <2>2. \A r \in weak : r.owner \in Live
    BY <1>2 DEF Shape
  <2>. QED  BY <1>1, <1>2, <1>3, <2>1, <2>2 DEF Closed
<1>7. slot' \in Slotting /\ roots' \subseteq Objects /\ ref' = [y \in Nodes |-> ref'[y]]
  BY <1>1, <1>2 DEF TypeInv
<1>. QED  BY <1>1, <1>3, <1>4, <1>5, <1>6, <1>7, NewNodeStep

LEMMA NewCellStep ==
  ASSUME Whole, NEW p \in Objects, NEW s \in Slots, NEW c \in Cells, NewCell(p, s, c)
  PROVE  Whole'
<1>1. /\ pc = "run" /\ p \in roots /\ slot[p][s] = None /\ NewNode(c)
      /\ mem[c] = "free" /\ mem' = [mem EXCEPT ![c] = "live"]
      /\ ref' = [ref EXCEPT ![c] = 1] /\ slot' = [slot EXCEPT ![p][s] = c]
      /\ Keep /\ UNCHANGED <<weak, roots, jobs, tmp_obj_list>>
  BY DEF NewCell, Running, NewNode
<1>2. TypeInv /\ Shape /\ Closed(Live) /\ Exact
  BY <1>1, AtRun
<1>3. Live' = Live \cup {c} /\ c \in Nodes \ Live /\ p \in Live /\ p \in Nodes /\ p \notin Cells
  BY <1>1, <1>2, NodeFacts DEF Live, TypeInv, Closed
<1>4. slot' \in Slotting /\ \A q \in Nodes, u \in Slots :
                              slot'[q][u] = IF q = p /\ u = s THEN c ELSE slot[q][u]
  BY <1>1, <1>2, <1>3, NodeFacts DEF TypeInv, Slotting
<1>5. Exact'
  <2>. SUFFICES ASSUME NEW y \in Nodes
                PROVE  ref'[y] = AllRefs(slot', weak', roots', jobs', y)
    BY DEF Exact
  <2>1. /\ Fields(slot, Nodes, y) \in Nat /\ RecordsTo(weak, y) \in Nat
        /\ External(roots, jobs, y) \in Nat
    BY <1>2, AllRefsNat DEF TypeInv
  <2>2. ref[y] = Fields(slot, Nodes, y) + RecordsTo(weak, y) + External(roots, jobs, y)
    BY <1>2 DEF Exact, AllRefs
  <2>3. Fields(slot', Nodes, y) = Fields(slot, Nodes, y) - (IF None = y THEN 1 ELSE 0)
                                                        + (IF c = y THEN 1 ELSE 0)
    <3>1. PICK sl, tl : sl = slot /\ tl = slot'
      OBVIOUS
    <3>2. p \in Nodes /\ Alters(sl, tl, p, s)
      BY <1>3, <1>4, <3>1 DEF Alters
    <3>3. Fields(tl, Nodes, y) = Fields(sl, Nodes, y) - (IF sl[p][s] = y THEN 1 ELSE 0)
                                                      + (IF tl[p][s] = y THEN 1 ELSE 0)
      BY <3>2, FieldsSet
    <3>4. sl[p][s] = None /\ tl[p][s] = c
      BY <1>1, <1>4, <3>1, <3>2
    <3>. QED  BY <3>1, <3>3, <3>4
  <2>4. y = c => ref[y] = 0
    BY <1>1, <1>2, <1>3, Unreferenced DEF Exact
  <2>5. ref'[y] = ref[y] + (IF c = y THEN 1 ELSE 0)
    BY <1>1, <1>2, <2>1, <2>2, <2>4 DEF TypeInv
  <2>6. ref'[y] = Fields(slot', Nodes, y) + RecordsTo(weak, y) + External(roots, jobs, y)
    BY <2>1, <2>2, <2>3, <2>5, NodeFacts
  <2>. QED  BY <1>1, <2>6 DEF AllRefs
<1>6. Shape'
  <2>1. \A x \in Nodes \ Live' : \A u \in Slots : slot'[x][u] = None
    BY <1>2, <1>3, <1>4 DEF Shape
  <2>2. \A d \in Cells, u \in Slots : slot'[d][u] \in Objects \cup {None}
    BY <1>2, <1>3, <1>4, NodeFacts DEF Shape
  <2>3. \A d \in Cells \cap Live' : \E q \in Nodes, u \in Slots : slot'[q][u] = d
    <3>. SUFFICES ASSUME NEW d \in Cells \cap Live', d # c
                  PROVE  \E q \in Nodes, u \in Slots : slot'[q][u] = d
      BY <1>3, <1>4
    <3>1. PICK q \in Nodes, u \in Slots : slot[q][u] = d
      BY <1>2, <1>3 DEF Shape
    <3>2. slot'[q][u] = d
      BY <1>1, <1>4, <3>1, NodeFacts
    <3>. QED  BY <3>2
  <2>. QED  BY <1>1, <1>2, <1>3, <2>1, <2>2, <2>3 DEF Shape
<1>7. Closed(Live)'
  <2>1. \A u \in Slots : slot[c][u] = None
    BY <1>2, <1>3 DEF Shape
  <2>2. \A q \in Live', u \in Slots : slot'[q][u] \in Live' \cup {None}
    BY <1>2, <1>3, <1>4, <2>1, NodeFacts DEF Closed
  <2>3. \A r \in weak : r.owner \in Live
    BY <1>2 DEF Shape
  <2>. QED  BY <1>1, <1>2, <1>3, <2>2, <2>3 DEF Closed
<1>8. roots' \subseteq Objects /\ ref' = [y \in Nodes |-> ref'[y]]
  BY <1>1, <1>2 DEF TypeInv
<1>. QED  BY <1>1, <1>3, <1>4, <1>5, <1>6, <1>7, <1>8, NewNodeStep

LEMMA InsertStep ==
  ASSUME Whole, pc = "run", NEW r \in Record, Insert(r), {r.owner, r.target} \subseteq roots,
         {r.value, r.token} \subseteq roots \cup {None}
  PROVE  Whole'
<1>1. TypeInv /\ Closed(Live)
  BY AtRun
<1>2. /\ r \notin weak /\ weak' = weak \cup {r}
      /\ ref' = [x \in Nodes |-> ref[x] + RecordsTo({r}, x)]
      /\ Keep /\ UNCHANGED <<mem, slot, roots, jobs, gc_obj_list, tmp_obj_list>>
  BY DEF Insert, gcVars
<1>3. weak' \subseteq Record /\ IsFiniteSet(weak')
  BY <1>1, <1>2, FS_AddElement DEF TypeInv
<1>4. \A q \in weak' : /\ q.owner \in Live /\ q.target \in Live
                       /\ q.value \in Live \cup {None} /\ q.token \in Live \cup {None}
  BY <1>1, <1>2, RecordsLive DEF Closed
<1>5. ASSUME NEW x \in Nodes
      PROVE  ref'[x] = ref[x] - RecordsTo(weak, x) + RecordsTo(weak', x)
  <2>1. IsFiniteSet({r}) /\ weak \cap {r} = {} /\ IsFiniteSet(weak)
    BY <1>1, <1>2, FS_Singleton DEF TypeInv
  <2>2. RecordsTo(weak', x) = RecordsTo(weak, x) + RecordsTo({r}, x)
    BY <1>2, <2>1, RecordsDisjoint
  <2>3. RecordsTo(weak, x) \in Nat /\ RecordsTo({r}, x) \in Nat /\ ref[x] \in Nat
    BY <1>1, <2>1, RecordsNat DEF TypeInv
  <2>4. ref'[x] = ref[x] + RecordsTo({r}, x)
    BY <1>2
  <2>. QED  BY <2>2, <2>3, <2>4
<1>6. Leaves({}) /\ {} \subseteq {x \in Objects \cap Live : ref'[x] = 0}
  BY <1>2, KeepLeaves
<1>7. ref' = [x \in Nodes |-> ref'[x]]
  BY <1>2
<1>. QED  BY <1>2, <1>3, <1>4, <1>5, <1>6, <1>7, RecordsStep

LEMMA NewWeakRefStep ==
  ASSUME Whole, NEW w \in Objects, NEW t \in Objects, NewWeakRef(w, t)
  PROVE  Whole'
<1>1. PICK r : r = [kind |-> "weakref", owner |-> w, target |-> t, value |-> None, token |-> None]
  OBVIOUS
<1>2. r \in Record /\ r.owner = w /\ r.target = t /\ r.value = None /\ r.token = None
  BY <1>1 DEF Record
<1>. QED  BY <1>1, <1>2, InsertStep DEF NewWeakRef, Running

LEMMA WeakMapSetStep ==
  ASSUME Whole, NEW m \in Objects, NEW k \in Objects, NEW v \in Objects, WeakMapSet(m, k, v)
  PROVE  Whole'
<1>1. PICK r : r = [kind |-> "map", owner |-> m, target |-> k, value |-> v, token |-> None]
  OBVIOUS
<1>2. r \in Record /\ r.owner = m /\ r.target = k /\ r.value = v /\ r.token = None
  BY <1>1 DEF Record
<1>. QED  BY <1>1, <1>2, InsertStep DEF WeakMapSet, Running

LEMMA RegisterStep ==
  ASSUME Whole, NEW f \in Objects, NEW t \in Objects, NEW held \in Objects \cup {None},
         NEW token \in Objects \cup {None}, Register(f, t, held, token)
  PROVE  Whole'
<1>1. PICK r : r = [kind |-> "finrec", owner |-> f, target |-> t, value |-> held, token |-> token]
  OBVIOUS
<1>2. r \in Record /\ r.owner = f /\ r.target = t /\ r.value = held /\ r.token = token
  BY <1>1 DEF Record
<1>. QED  BY <1>1, <1>2, InsertStep DEF Register, Running

LEMMA DeleteStep ==
  ASSUME Whole, pc = "run", NEW R, R \subseteq weak, Delete(R)
  PROVE  Whole'
<1>1. TypeInv /\ Closed(Live) /\ ListsRun /\ Exact
  BY AtRun
<1>2. PICK r1 : r1 = [x \in Nodes |-> ref[x] - RecordsTo(R, x)]
  OBVIOUS
<1>3. PICK zero : zero = {x \in Nodes : r1[x] = 0 /\ ref[x] > 0}
  OBVIOUS
<1>4. /\ weak' = weak \ R /\ ref' = r1
      /\ IF zero = {}
         THEN UNCHANGED <<gc_obj_list, gc_zero_ref_count_list, gc_phase, pc>>
         ELSE /\ gc_obj_list' = gc_obj_list \ zero
              /\ gc_zero_ref_count_list' = zero
              /\ gc_phase' = "decref" /\ pc' = "free"
      /\ UNCHANGED <<mem, slot, roots, jobs, tmp_obj_list>>
  BY <1>2, <1>3 DEF Delete, gcVars
<1>5. IsFiniteSet(weak) /\ IsFiniteSet(R) /\ weak' \subseteq Record /\ IsFiniteSet(weak')
  BY <1>1, <1>4, FS_Subset DEF TypeInv
<1>6. \A q \in weak' : /\ q.owner \in Live /\ q.target \in Live
                       /\ q.value \in Live \cup {None} /\ q.token \in Live \cup {None}
  BY <1>4, RecordsLive
<1>7. ASSUME NEW x \in Nodes
      PROVE  ref'[x] = ref[x] - RecordsTo(weak, x) + RecordsTo(weak', x)
  <2>1. RecordsTo(weak', x) = RecordsTo(weak, x) - RecordsTo(R, x)
    BY <1>4, <1>5, RecordsMinus
  <2>2. RecordsTo(weak, x) \in Nat /\ RecordsTo(R, x) \in Nat /\ ref[x] \in Nat
    BY <1>1, <1>5, RecordsNat DEF TypeInv
  <2>3. ref'[x] = ref[x] - RecordsTo(R, x)
    BY <1>2, <1>4
  <2>. QED  BY <2>1, <2>2, <2>3
<1>8. zero \subseteq {x \in Objects \cap Live : ref'[x] = 0}
  <2>. SUFFICES ASSUME NEW x \in zero PROVE x \in Objects \cap Live /\ ref'[x] = 0
    OBVIOUS
  <2>1. x \in Nodes /\ r1[x] = 0 /\ ref[x] > 0 /\ r1[x] = ref[x] - RecordsTo(R, x)
    BY <1>2, <1>3
  <2>2. RecordsTo(R, x) # 0
    BY <1>1, <2>1 DEF TypeInv
  <2>3. PICK q \in R : q.value = x \/ q.token = x
    BY <1>5, <2>2, RecordsZero
  <2>4. x \in Live /\ x \in Objects
    BY <2>1, <2>3, RecordsLive, RecordFacts, NodeFacts
  <2>. QED  BY <1>4, <2>1, <2>4
<1>9. Leaves(zero)
  BY <1>1, <1>4 DEF Leaves, ListsRun
<1>10. ref' = [x \in Nodes |-> ref'[x]]
  BY <1>2, <1>4
<1>. QED  BY <1>4, <1>5, <1>6, <1>7, <1>8, <1>9, <1>10, RecordsStep

LEMMA WeakMapDeleteStep ==
  ASSUME Whole, NEW r \in weak, WeakMapDelete(r)
  PROVE  Whole'
<1>1. pc = "run" /\ {r} \subseteq weak /\ Delete({r})
  BY DEF WeakMapDelete, Running
<1>. QED  BY <1>1, DeleteStep

(***************************************************************************)
(* Freeing an object.                                                      *)
(***************************************************************************)
\* The parts of FreeObject, by name.
Gone(p) == {r \in weak : r.target = p \/ r.owner = p}
Held(p, x) == Cardinality({r \in Callbacks(p) : r.value = x})
First(p, x) == FieldsTo({p}, x) + RecordsTo(Gone(p), x)
Shed(p) == {c \in Cells : mem[c] = "live" /\ First(p, c) > 0 /\ ref[c] = First(p, c)}
After(p) == [x \in Nodes |-> IF x \in Shed(p) THEN 0
                              ELSE ref[x] + Held(p, x) - (First(p, x) + FieldsTo(Shed(p), x))]
Queued(p) == IF gc_phase = "decref"
             THEN {x \in gc_obj_list \ (Shed(p) \cup {p}) : After(p)[x] = 0 /\ ref[x] > 0} ELSE {}
Zombie(p) == gc_phase = "remove_cycles" /\ After(p)[p] # 0
Becomes(p, x) == CASE x = p -> IF Zombie(p) THEN "zombie" ELSE "free"
                   [] x \in Shed(p) -> "free"
                   [] OTHER -> mem[x]

LEMMA FreeObjectParts ==
  ASSUME NEW p \in Objects, FreeObject(p)
  PROVE  /\ ref' = After(p)
         /\ mem' = [x \in Nodes |-> Becomes(p, x)]
         /\ slot' = Cleared(slot, Shed(p) \cup {p})
         /\ weak' = weak \ Gone(p)
         /\ jobs' = [x \in Objects |-> jobs[x] + Held(p, x)]
         /\ corrupt' = (gc_phase = "remove_cycles" /\ \E r \in Callbacks(p) : r.value \in tmp_obj_list)
         /\ gc_obj_list' = gc_obj_list \ (Shed(p) \cup Queued(p) \cup {p})
         /\ tmp_obj_list' = tmp_obj_list \ (Shed(p) \cup {p})
         /\ gc_zero_ref_count_list' =
              ((gc_zero_ref_count_list \ (Shed(p) \cup {p})) \cup Queued(p))
              \cup (IF Zombie(p) THEN {p} ELSE {})
         /\ roots' = roots /\ visited' = visited
BY DEF FreeObject, Gone, Held, First, Shed, After, Queued, Zombie, Becomes, Cleared

LEMMA FieldsToIs ==
  ASSUME NEW P, NEW x
  PROVE  FieldsTo(P, x) = Fields(slot, P, x)
BY DEF FieldsTo, Fields, FieldSet

LEMMA GoneFacts ==
  ASSUME TypeInv, NEW p \in Objects
  PROVE  /\ Gone(p) \subseteq weak /\ IsFiniteSet(Gone(p)) /\ IsFiniteSet(weak)
         /\ Callbacks(p) \subseteq weak /\ IsFiniteSet(Callbacks(p))
         /\ Shed(p) \subseteq Cells /\ Shed(p) \subseteq Live /\ Shed(p) \subseteq Nodes /\ p \notin Shed(p)
<1>1. IsFiniteSet(weak) /\ Gone(p) \subseteq weak /\ Callbacks(p) \subseteq weak
  BY DEF TypeInv, Gone, Callbacks
<1>2. IsFiniteSet(Gone(p)) /\ IsFiniteSet(Callbacks(p))
  BY <1>1, FS_Subset
<1>3. Shed(p) \subseteq Cells /\ Shed(p) \subseteq Live
  BY NodeFacts DEF Shed, Live
<1>. QED  BY <1>1, <1>2, <1>3, NodeFacts

LEMMA HeldFacts ==
  ASSUME TypeInv, NEW p \in Objects, NEW x
  PROVE  Held(p, x) \in Nat /\ (Held(p, x) # 0 => \E r \in Callbacks(p) : r.value = x)
<1>1. PICK A : A = {r \in Callbacks(p) : r.value = x}
  OBVIOUS
<1>2. IsFiniteSet(A)
  BY <1>1, GoneFacts, FS_Subset
<1>3. Cardinality(A) \in Nat /\ (Cardinality(A) = 0 <=> A = {})
  BY <1>2, FS_CardinalityType, FS_EmptySet
<1>. QED  BY <1>1, <1>3 DEF Held

\* Records hold objects, and so do cells: only fields of objects hold a cell.
LEMMA CellFacts ==
  ASSUME TypeInv, Shape, Exact, NEW p \in Objects, NEW c \in Cells
  PROVE  /\ Held(p, c) = 0 /\ First(p, c) = Fields(slot, {p}, c) /\ FieldsTo(Shed(p), c) = 0
         /\ RecordsTo(Gone(p), c) = 0 /\ RecordsTo(weak, c) = 0 /\ External(roots, jobs, c) = 0
         /\ ref[c] = Fields(slot, Nodes, c)
         /\ \A P \in SUBSET Nodes : Fields(slot, P, c) \in Nat
<1>1. \A r \in weak : r.value # c /\ r.token # c
  BY RecordFacts, NodeFacts DEF TypeInv
<1>2. RecordsTo(Gone(p), c) = 0 /\ RecordsTo(weak, c) = 0
  BY <1>1, GoneFacts, RecordsZero
<1>3. Held(p, c) = 0
  BY <1>1, GoneFacts, HeldFacts
<1>4. \A P \in SUBSET Nodes : Fields(slot, P, c) \in Nat
  BY FieldsNat
<1>5. First(p, c) = Fields(slot, {p}, c)
  <2>1. Fields(slot, {p}, c) \in Nat
    BY <1>4, NodeFacts
  <2>. QED  BY <1>2, <2>1, FieldsToIs DEF First
<1>6. FieldsTo(Shed(p), c) = 0
  <2>1. \A q \in Shed(p), s \in Slots : slot[q][s] # c
    BY GoneFacts, NodeFacts DEF Shape
  <2>. QED  BY <2>1, GoneFacts, FieldsZero, FieldsToIs
<1>7. External(roots, jobs, c) = 0
  BY NodeFacts DEF External, TypeInv
<1>8. ref[c] = Fields(slot, Nodes, c)
  <2>1. Fields(slot, Nodes, c) \in Nat
    BY FieldsNat
  <2>2. ref[c] = Fields(slot, Nodes, c) + RecordsTo(weak, c) + External(roots, jobs, c)
    BY NodeFacts DEF Exact, AllRefs
  <2>. QED  BY <1>2, <1>7, <2>1, <2>2
<1>. QED  BY <1>2, <1>3, <1>4, <1>5, <1>6, <1>7, <1>8

\* The counts are exact again once an object is freed.
LEMMA FreeExact ==
  ASSUME TypeInv, Shape, Exact, NEW p \in Objects, FreeObject(p)
  PROVE  Exact' /\ \A x \in Nodes : ref'[x] \in Nat
<1>. SUFFICES ASSUME NEW x \in Nodes
              PROVE  ref'[x] = AllRefs(slot', weak', roots', jobs', x) /\ ref'[x] \in Nat
  BY DEF Exact
<1>1. PICK S, C, G : S = Shed(p) /\ C = Shed(p) \cup {p} /\ G = Gone(p)
  OBVIOUS
<1>2. /\ S \subseteq Nodes /\ {p} \subseteq Nodes /\ S \cap {p} = {} /\ C \subseteq Nodes /\ C = S \cup {p}
      /\ G \subseteq weak /\ IsFiniteSet(weak) /\ IsFiniteSet(G)
  BY <1>1, GoneFacts, NodeFacts
<1>3. ref' = After(p) /\ slot' = Cleared(slot, C) /\ weak' = weak \ G
      /\ jobs' = [y \in Objects |-> jobs[y] + Held(p, y)] /\ roots' = roots
  BY <1>1, FreeObjectParts
<1>4. PICK all, one, shed : /\ all = Fields(slot, Nodes, x) /\ one = Fields(slot, {p}, x)
                            /\ shed = Fields(slot, S, x)
  OBVIOUS
<1>5. all \in Nat /\ one \in Nat /\ shed \in Nat
  BY <1>2, <1>4, FieldsNat
<1>6. Fields(slot', Nodes, x) = all - (shed + one)
  <2>1. Fields(slot, C, x) = shed + one
    BY <1>2, <1>4, FieldsDisjoint
  <2>2. slot \in Slotting
    BY DEF TypeInv
  <2>3. Fields(Cleared(slot, C), Nodes, x) = Fields(slot, Nodes, x) - Fields(slot, C, x)
    BY <1>2, <2>2, FieldsClear
  <2>. QED  BY <1>3, <1>4, <2>1, <2>3
<1>7. PICK recs, gone : recs = RecordsTo(weak, x) /\ gone = RecordsTo(G, x)
  OBVIOUS
<1>8. recs \in Nat /\ gone \in Nat /\ RecordsTo(weak', x) = recs - gone
  BY <1>2, <1>3, <1>7, RecordsNat, RecordsMinus
<1>9. PICK ext, held : ext = External(roots, jobs, x) /\ held = Held(p, x)
  OBVIOUS
<1>10. ext \in Nat /\ held \in Nat
  BY <1>9, HeldFacts DEF External, TypeInv
<1>11. External(roots', jobs', x) = ext + held
  <2>1. CASE x \in Objects
    BY <1>3, <1>9, <1>10, <2>1 DEF External, TypeInv
  <2>2. CASE x \in Cells
    <3>1. held = 0 /\ x \notin Objects
      BY <1>9, <2>2, CellFacts, NodeFacts
    <3>. QED  BY <1>3, <1>9, <1>10, <3>1 DEF External
  <2>. QED  BY <2>1, <2>2, NodeFacts
<1>12. ref[x] = all + recs + ext
  BY <1>4, <1>7, <1>9 DEF Exact, AllRefs
<1>13. AllRefs(slot', weak', roots', jobs', x) = (all - (shed + one)) + (recs - gone) + (ext + held)
  BY <1>6, <1>8, <1>11 DEF AllRefs
<1>14. CASE x \in S
  <2>1. x \in Cells /\ ref[x] = First(p, x)
    BY <1>1, <1>14 DEF Shed
  <2>2. held = 0 /\ one = First(p, x) /\ shed = 0 /\ gone = 0 /\ recs = 0 /\ ext = 0 /\ ref[x] = all
    BY <1>1, <1>4, <1>7, <1>9, <2>1, CellFacts, FieldsToIs
  <2>3. ref'[x] = 0
    BY <1>1, <1>3, <1>14 DEF After
  <2>4. all = one
    BY <2>1, <2>2
  <2>. QED  BY <1>5, <1>13, <2>2, <2>3, <2>4
<1>15. CASE x \notin S
  <2>1. First(p, x) = one + gone
    BY <1>1, <1>4, <1>7, FieldsToIs DEF First
  <2>2. ref'[x] = ref[x] + held - ((one + gone) + shed)
    BY <1>1, <1>3, <1>4, <1>9, <1>15, <2>1, FieldsToIs DEF After
  <2>3. ref'[x] = AllRefs(slot', weak', roots', jobs', x)
    BY <1>5, <1>8, <1>10, <1>12, <1>13, <2>2
  <2>4. /\ all - (shed + one) \in Nat /\ recs - gone \in Nat
    <3>1. weak' \subseteq weak
      BY <1>3
    <3>2. IsFiniteSet(weak')
      BY <1>2, <3>1, FS_Subset
    <3>. QED  BY <1>6, <1>8, <3>2, FieldsNat, RecordsNat
  <2>. QED  BY <1>10, <1>13, <2>3, <2>4
<1>. QED  BY <1>14, <1>15

LEMMA FreeTypes ==
  ASSUME TypeInv, Shape, Exact, NEW p \in Objects, FreeObject(p), pc' = pc
  PROVE  /\ TypeInv'
         /\ Live' = Live \ (Shed(p) \cup {p})
         /\ \A q \in Nodes, u \in Slots :
              slot'[q][u] = IF q \in Shed(p) \cup {p} THEN None ELSE slot[q][u]
         /\ \A x \in Nodes : mem'[x] = IF x = p THEN IF Zombie(p) THEN "zombie" ELSE "free"
                                       ELSE IF x \in Shed(p) THEN "free" ELSE mem[x]
<1>1. PICK S : S = Shed(p)
  OBVIOUS
<1>2. /\ ref' = After(p) /\ slot' = Cleared(slot, S \cup {p}) /\ weak' = weak \ Gone(p)
      /\ jobs' = [x \in Objects |-> jobs[x] + Held(p, x)]
      /\ gc_obj_list' = gc_obj_list \ (S \cup Queued(p) \cup {p})
      /\ tmp_obj_list' = tmp_obj_list \ (S \cup {p})
      /\ gc_zero_ref_count_list' =
           ((gc_zero_ref_count_list \ (S \cup {p})) \cup Queued(p))
           \cup (IF Zombie(p) THEN {p} ELSE {})
      /\ roots' = roots
  BY <1>1, FreeObjectParts
<1>3. mem' = [x \in Nodes |-> Becomes(p, x)]
  BY FreeObjectParts
<1>4. \A x \in Nodes : mem'[x] = IF x = p THEN IF Zombie(p) THEN "zombie" ELSE "free"
                                 ELSE IF x \in S THEN "free" ELSE mem[x]
  <2>. SUFFICES ASSUME NEW x \in Nodes
                PROVE  mem'[x] = IF x = p THEN IF Zombie(p) THEN "zombie" ELSE "free"
                                 ELSE IF x \in S THEN "free" ELSE mem[x]
    OBVIOUS
  <2>1. mem'[x] = Becomes(p, x)
    BY <1>3
  <2>2. p \notin Shed(p)
    BY GoneFacts
  <2>. QED  BY <1>1, <2>1, <2>2 DEF Becomes
<1>5. mem' \in [Nodes -> {"free", "live", "zombie"}]
  <2>1. mem' = [x \in Nodes |-> mem'[x]]
    BY <1>3
  <2>. QED  BY <1>4, <2>1 DEF TypeInv
<1>6. Live' = Live \ (S \cup {p})
  BY <1>4 DEF Live
<1>7. ref' \in [Nodes -> Nat]
  <2>1. ref' = [x \in Nodes |-> ref'[x]]
    BY <1>2 DEF After
  <2>. QED  BY <2>1, FreeExact
<1>8. slot' \in Slotting /\ \A q \in Nodes, u \in Slots :
                               slot'[q][u] = IF q \in S \cup {p} THEN None ELSE slot[q][u]
  BY <1>2 DEF TypeInv, Slotting, Cleared
<1>9. weak' \subseteq Record /\ IsFiniteSet(weak') /\ roots' \subseteq Objects
  BY <1>2, FS_Subset DEF TypeInv
<1>10. jobs' \in [Objects -> Nat]
  <2>1. \A x \in Objects : Held(p, x) \in Nat
    BY HeldFacts
  <2>. QED  BY <1>2, <2>1 DEF TypeInv
<1>11. /\ gc_obj_list' \subseteq Nodes /\ tmp_obj_list' \subseteq Nodes
       /\ gc_zero_ref_count_list' \subseteq Nodes
  <2>1. Queued(p) \subseteq Nodes
    BY DEF Queued, TypeInv
  <2>. QED  BY <1>2, <2>1, NodeFacts DEF TypeInv
<1>12. TypeInv'
  BY <1>5, <1>7, <1>8, <1>9, <1>10, <1>11 DEF TypeInv
<1>. QED  BY <1>1, <1>4, <1>6, <1>8, <1>12

\* Nothing refers to a node whose count is 0 after the step.
LEMMA ZeroAfter ==
  ASSUME TypeInv', Exact', NEW x \in Nodes, ref'[x] = 0
  PROVE  Unheld(slot', weak', roots', jobs', x)
<1>1. IsFiniteSet(weak') /\ jobs' \in [Objects -> Nat] /\ AllRefs(slot', weak', roots', jobs', x) = 0
  BY DEF TypeInv, Exact
<1>. QED  BY <1>1, NoRefs

LEMMA ZeroBefore ==
  ASSUME TypeInv, Exact, NEW x \in Nodes, ref[x] = 0
  PROVE  Unheld(slot, weak, roots, jobs, x)
<1>1. IsFiniteSet(weak) /\ jobs \in [Objects -> Nat] /\ AllRefs(slot, weak, roots, jobs, x) = 0
  BY DEF TypeInv, Exact
<1>. QED  BY <1>1, NoRefs

\* A cell that is still live has a count, and something refers to it.
LEMMA CellsHeld ==
  ASSUME TypeInv, Shape, Exact, NEW p \in Objects, FreeObject(p), pc' = pc,
         NEW c \in Cells \cap Live, c \notin Shed(p)
  PROVE  ref'[c] # 0 /\ \E q \in Nodes, u \in Slots : slot'[q][u] = c
<1>1. TypeInv' /\ Exact' /\ c \in Nodes
  BY FreeTypes, FreeExact, NodeFacts
<1>2. ref'[c] # 0
  <2>. SUFFICES ASSUME ref'[c] = 0 PROVE FALSE
    OBVIOUS
  <2>1. ref'[c] = ref[c] + Held(p, c) - (First(p, c) + FieldsTo(Shed(p), c))
    <3>1. ref' = After(p)
      BY FreeObjectParts
    <3>. QED  BY <1>1, <3>1 DEF After
  <2>2. /\ Held(p, c) = 0 /\ FieldsTo(Shed(p), c) = 0 /\ First(p, c) = Fields(slot, {p}, c)
        /\ ref[c] = Fields(slot, Nodes, c)
    BY CellFacts
  <2>3. Fields(slot, {p}, c) \in Nat /\ Fields(slot, Nodes, c) \in Nat
    BY CellFacts, NodeFacts
  <2>4. ref[c] = First(p, c)
    BY <2>1, <2>2, <2>3
  <2>5. Fields(slot, Nodes, c) # 0
    <3>1. \E q \in Nodes, u \in Slots : slot[q][u] = c
      BY DEF Shape
    <3>. QED  BY <3>1, FieldsZero
  <2>6. First(p, c) > 0
    BY <2>2, <2>3, <2>4, <2>5
  <2>. QED  BY <2>4, <2>6 DEF Shed, Live
<1>3. Fields(slot', Nodes, c) # 0
  <2>1. \A r \in weak' : r.value # c /\ r.token # c
    BY <1>1, RecordFacts, NodeFacts DEF TypeInv
  <2>2. IsFiniteSet(weak')
    BY <1>1 DEF TypeInv
  <2>3. RecordsTo(weak', c) = 0
    BY <2>1, <2>2, RecordsZero
  <2>4. External(roots', jobs', c) = 0
    BY <1>1, NodeFacts DEF External, TypeInv
  <2>5. ref'[c] = Fields(slot', Nodes, c) + RecordsTo(weak', c) + External(roots', jobs', c)
    BY <1>1 DEF Exact, AllRefs
  <2>. QED  BY <1>2, <2>3, <2>4, <2>5
<1>4. \E q \in Nodes, u \in Slots : slot'[q][u] = c
  BY <1>3, FieldsZero
<1>. QED  BY <1>2, <1>4

LEMMA FreeShape ==
  ASSUME TypeInv, Shape, Exact, NEW p \in Objects, FreeObject(p), pc' = pc
  PROVE  Shape'
<1>1. PICK S : S = Shed(p)
  OBVIOUS
<1>2. /\ Live' = Live \ (S \cup {p}) /\ weak' = weak \ Gone(p) /\ S \subseteq Cells
      /\ \A q \in Nodes, u \in Slots : slot'[q][u] = IF q \in S \cup {p} THEN None ELSE slot[q][u]
  <2>1. Live' = Live \ (S \cup {p}) /\ \A q \in Nodes, u \in Slots :
                                       slot'[q][u] = IF q \in S \cup {p} THEN None ELSE slot[q][u]
    BY <1>1, FreeTypes
  <2>2. weak' = weak \ Gone(p)
    BY FreeObjectParts
  <2>3. S \subseteq Cells
    BY <1>1, GoneFacts
  <2>. QED  BY <2>1, <2>2, <2>3
<1>3. \A x \in Nodes \ Live' : \A u \in Slots : slot'[x][u] = None
  BY <1>2 DEF Shape
<1>4. \A c \in Cells, u \in Slots : slot'[c][u] \in Objects \cup {None}
  BY <1>2, NodeFacts DEF Shape
<1>5. \A r \in weak' : r.owner \in Live' /\ r.target \in Live'
  <2>. SUFFICES ASSUME NEW r \in weak' PROVE r.owner \in Live' /\ r.target \in Live'
    OBVIOUS
  <2>1. r \in weak /\ r.owner # p /\ r.target # p
    BY <1>2 DEF Gone
  <2>2. r.owner \in Objects /\ r.target \in Objects /\ r.owner \in Live /\ r.target \in Live
    BY <2>1, RecordFacts DEF TypeInv, Shape
  <2>. QED  BY <1>2, <2>1, <2>2, NodeFacts
<1>6. \A c \in Cells \cap Live' : \E q \in Nodes, u \in Slots : slot'[q][u] = c
  BY <1>1, <1>2, CellsHeld
<1>. QED  BY <1>3, <1>4, <1>5, <1>6 DEF Shape

\* The set K of what must survive is still closed without what was freed, when
\* p is not of K or nothing refers to it, and the callbacks hold nodes of K.
LEMMA FreeClosed ==
  ASSUME TypeInv, Shape, Exact, NEW p \in Objects, FreeObject(p), pc' = pc,
         NEW K, K \subseteq Nodes, Closed(K), p \notin K \/ ref[p] = 0,
         \A r \in Callbacks(p) : r.value \in K, NEW M, M = K \ (Shed(p) \cup {p})
  PROVE  Closed(M)'
<1>1. PICK S : S = Shed(p) /\ M = K \ (Shed(p) \cup {p})
  OBVIOUS
<1>2. S \subseteq Cells /\ M = K \ (S \cup {p}) /\ p \notin S /\ p \notin Cells
  BY <1>1, GoneFacts, NodeFacts
<1>3. \A q \in Nodes, u \in Slots : slot'[q][u] = IF q \in S \cup {p} THEN None ELSE slot[q][u]
  BY <1>1, FreeTypes
<1>4. weak' = weak \ Gone(p) /\ jobs' = [x \in Objects |-> jobs[x] + Held(p, x)] /\ roots' = roots
  BY FreeObjectParts
<1>5. TypeInv' /\ Exact'
  BY FreeTypes, FreeExact
<1>6. \A c \in S : Unheld(slot', weak', roots', jobs', c)
  <2>. SUFFICES ASSUME NEW c \in S PROVE Unheld(slot', weak', roots', jobs', c)
    OBVIOUS
  <2>1. c \in Nodes
    BY <1>2, NodeFacts
  <2>2. ref' = After(p)
    BY FreeObjectParts
  <2>3. ref'[c] = 0
    BY <1>1, <2>1, <2>2 DEF After
  <2>. QED  BY <1>5, <2>1, <2>3, ZeroAfter
<1>7. p \notin K \/ Unheld(slot, weak, roots, jobs, p)
  BY NodeFacts, ZeroBefore
<1>8. roots' \subseteq M
  <2>1. \A x \in roots : x \in K /\ x \in Objects /\ x # p
    BY <1>7 DEF Closed, TypeInv, Unheld
  <2>. QED  BY <1>2, <1>4, <2>1, NodeFacts
<1>9. \A x \in Objects : jobs'[x] > 0 => x \in M
  <2>. SUFFICES ASSUME NEW x \in Objects, jobs'[x] > 0 PROVE x \in K /\ x # p
    BY <1>2, NodeFacts
  <2>1. jobs'[x] = jobs[x] + Held(p, x) /\ jobs[x] \in Nat /\ Held(p, x) \in Nat
    BY <1>4, HeldFacts DEF TypeInv
  <2>2. CASE jobs[x] > 0
    <3>1. x \in K
      BY <2>2 DEF Closed
    <3>2. x # p
      BY <1>7, <2>2, <3>1 DEF Unheld
    <3>. QED  BY <3>1, <3>2
  <2>3. CASE Held(p, x) # 0
    <3>1. PICK r \in Callbacks(p) : r.value = x
      BY <2>3, HeldFacts
    <3>. QED  BY <3>1 DEF Callbacks
  <2>. QED  BY <2>1, <2>2, <2>3
<1>10. \A q \in M, u \in Slots : slot'[q][u] \in M \cup {None}
  <2>. SUFFICES ASSUME NEW q \in M, NEW u \in Slots, slot'[q][u] # None
                PROVE  slot'[q][u] \in M
    OBVIOUS
  <2>1. q \in K /\ q \in Nodes /\ q \notin S \cup {p}
    BY <1>1
  <2>2. slot'[q][u] = slot[q][u] /\ slot[q][u] \in K
    <3>1. slot'[q][u] = slot[q][u]
      BY <1>1, <1>3, <2>1
    <3>. QED  BY <2>1, <3>1 DEF Closed
  <2>3. slot[q][u] # p
    BY <1>7, <2>1, <2>2 DEF Unheld
  <2>4. slot'[q][u] \notin S
    BY <1>6, <2>1 DEF Unheld
  <2>. QED  BY <1>2, <2>2, <2>3, <2>4
<1>11. \A r \in weak' : r.owner \in M => r.value \in M \cup {None} /\ r.token \in M \cup {None}
  <2>. SUFFICES ASSUME NEW r \in weak', r.owner \in M
                PROVE  r.value \in M \cup {None} /\ r.token \in M \cup {None}
    OBVIOUS
  <2>1. r \in weak /\ r.owner \in K
    BY <1>1, <1>4
  <2>2. r.value \in K \cup {None} /\ r.token \in K \cup {None}
    BY <2>1 DEF Closed
  <2>3. r.value \notin S /\ r.token \notin S
    BY <1>6 DEF Unheld
  <2>4. (p \in K => r.value # p /\ r.token # p)
    BY <1>7, <2>1 DEF Unheld
  <2>. QED  BY <1>2, <2>2, <2>3, <2>4
<1>. QED  BY <1>8, <1>9, <1>10, <1>11 DEF Closed

\* free_zero_refcount frees an object.
LEMMA FreeZeroObject ==
  ASSUME Whole, pc = "free", NEW p \in gc_zero_ref_count_list, FreeObject(p), UNCHANGED <<gc_phase, pc>>
  PROVE  Whole'
<1>1. TypeInv /\ Shape /\ Closed(Live) /\ Exact /\ ListsFree
  BY AtRun
<1>2. p \in Objects /\ p \in Live /\ ref[p] = 0 /\ p \in Nodes
  BY <1>1, NodeFacts DEF ListsFree
<1>3. TypeInv' /\ Shape' /\ Exact'
  BY <1>1, <1>2, FreeTypes, FreeShape, FreeExact
<1>4. PICK S, L, zero, Q : /\ S = Shed(p) /\ L = Live \ (Shed(p) \cup {p})
                           /\ zero = gc_zero_ref_count_list /\ Q = Queued(p)
  OBVIOUS
<1>5. Live' = L /\ L = Live \ (S \cup {p})
  BY <1>1, <1>2, <1>4, FreeTypes
<1>6. Closed(Kept)'
  <2>1. \A r \in Callbacks(p) : r.value \in Live
    BY <1>1, RecordFacts, NodeFacts DEF Callbacks, Live, TypeInv
  <2>2. Closed(L)'
    BY <1>1, <1>2, <1>4, <2>1, FreeClosed, NodeFacts
  <2>3. Kept' = L
    BY <1>5 DEF Kept
  <2>. QED  BY <2>2, <2>3 DEF Closed
<1>7. /\ ref' = After(p)
      /\ gc_obj_list' = gc_obj_list \ (S \cup Q \cup {p})
      /\ gc_zero_ref_count_list' = (zero \ (S \cup {p})) \cup Q
  <2>1. ~Zombie(p)
    BY <1>1 DEF Zombie, ListsFree
  <2>. QED  BY <1>2, <1>4, <2>1, FreeObjectParts
<1>8. ASSUME NEW x \in zero \ (S \cup {p}) PROVE x \in Objects \cap L /\ ref'[x] = 0
  <2>1. x \in Objects /\ x \in Live /\ ref[x] = 0 /\ x \in Nodes
    BY <1>1, <1>4, NodeFacts DEF ListsFree
  <2>2. Unheld(slot, weak, roots, jobs, x)
    BY <1>1, <2>1, ZeroBefore
  <2>3. weak' = weak \ Gone(p) /\ jobs' = [y \in Objects |-> jobs[y] + Held(p, y)] /\ roots' = roots
    BY <1>2, FreeObjectParts
  <2>4. \A q \in Nodes, u \in Slots : slot'[q][u] = IF q \in S \cup {p} THEN None ELSE slot[q][u]
    BY <1>1, <1>2, <1>4, FreeTypes
  <2>5. Held(p, x) = 0
    <3>1. \A r \in Callbacks(p) : r.value # x
      BY <2>2 DEF Callbacks, Unheld
    <3>. QED  BY <1>1, <1>2, <3>1, HeldFacts
  <2>6. Unheld(slot', weak', roots', jobs', x)
    <3>1. \A q \in Nodes, u \in Slots : slot'[q][u] # x
      BY <2>1, <2>2, <2>4, NodeFacts DEF Unheld
    <3>2. jobs'[x] = 0
      BY <2>1, <2>2, <2>3, <2>5 DEF Unheld
    <3>. QED  BY <2>2, <2>3, <3>1, <3>2 DEF Unheld
  <2>7. IsFiniteSet(weak') /\ jobs' \in [Objects -> Nat] /\ ref'[x] = AllRefs(slot', weak', roots', jobs', x)
    BY <1>3, <2>1 DEF TypeInv, Exact
  <2>8. ref'[x] = 0
    BY <2>6, <2>7, NoRefs
  <2>. QED  BY <1>5, <2>1, <2>8
<1>9. ASSUME NEW x \in Q PROVE x \in Objects \cap L /\ ref'[x] = 0
  <2>1. x \in gc_obj_list /\ x \notin S \cup {p} /\ After(p)[x] = 0
    BY <1>1, <1>4 DEF Queued, ListsFree
  <2>2. x \in Live /\ x \in Nodes /\ ref'[x] = 0
    BY <1>1, <1>7, <2>1, NodeFacts DEF ListsFree
  <2>3. x \notin Cells
    BY <1>1, <1>2, <1>4, <2>1, <2>2, CellsHeld
  <2>. QED  BY <1>5, <2>1, <2>2, <2>3, NodeFacts
<1>10. Lists'
  <2>1. gc_phase' = "decref" /\ pc' = "free"
    BY <1>1 DEF ListsFree
  <2>2. gc_zero_ref_count_list' \subseteq {x \in Objects \cap L : ref'[x] = 0}
    BY <1>7, <1>8, <1>9
  <2>3. gc_obj_list' = L \ gc_zero_ref_count_list'
    BY <1>1, <1>4, <1>5, <1>7 DEF ListsFree
  <2>4. \A x \in Nodes : mem'[x] # "zombie"
    <3>1. ~Zombie(p)
      BY <1>1 DEF Zombie, ListsFree
    <3>2. \A x \in Nodes : mem'[x] \in {"free", mem[x]}
      BY <1>1, <1>2, <3>1, FreeTypes
    <3>. QED  BY <1>1, <3>2 DEF ListsFree
  <2>5. ListsFree'
    BY <1>5, <2>1, <2>2, <2>3, <2>4 DEF ListsFree
  <2>. QED  BY <2>1, <2>5 DEF Lists
<1>11. Counts'
  BY <1>3 DEF Counts
<1>. QED  BY <1>3, <1>6, <1>10, <1>11 DEF Whole

\* gc_free_cycles frees an object.
LEMMA AtSweep ==
  ASSUME Whole, pc = "gc_free_cycles"
  PROVE  TypeInv /\ Shape /\ Closed(gc_obj_list) /\ Exact /\ ListsSweep
<1>1. TypeInv /\ Shape /\ Exact /\ ListsSweep
  BY DEF Whole, Counts, Lists
<1>2. Kept = gc_obj_list /\ Closed(Kept)
  BY DEF Whole, Kept
<1>. QED  BY <1>1, <1>2

LEMMA SweepObject ==
  ASSUME Whole, pc = "gc_free_cycles", NEW p \in tmp_obj_list \cap Objects, FreeObject(p),
         UNCHANGED <<gc_phase, pc>>
  PROVE  HeapInv'
<1>. SUFFICES ASSUME ~corrupt' PROVE Whole'
  BY DEF HeapInv
<1>1. TypeInv /\ Shape /\ Closed(gc_obj_list) /\ Exact /\ ListsSweep
  BY AtSweep
<1>2. p \in Objects /\ p \in Live /\ p \in Nodes /\ p \notin gc_obj_list
  BY <1>1, NodeFacts DEF ListsSweep
<1>3. TypeInv' /\ Shape' /\ Exact'
  BY <1>1, <1>2, FreeTypes, FreeShape, FreeExact
<1>4. PICK S, G, Z : S = Shed(p) /\ G = gc_obj_list \ (Shed(p) \cup {p}) /\ Z = IF Zombie(p) THEN {p} ELSE {}
  OBVIOUS
<1>5. S \subseteq Cells /\ S \subseteq Live /\ Live' = Live \ (S \cup {p})
  BY <1>1, <1>2, <1>4, FreeTypes, GoneFacts
<1>6. /\ gc_obj_list' = G /\ tmp_obj_list' = tmp_obj_list \ (S \cup {p})
      /\ gc_zero_ref_count_list' = (gc_zero_ref_count_list \ (S \cup {p})) \cup Z
  <2>1. Queued(p) = {}
    BY <1>1 DEF Queued, ListsSweep
  <2>. QED  BY <1>2, <1>4, <2>1, FreeObjectParts
<1>7. Closed(Kept)'
  <2>1. \A r \in Callbacks(p) : r.value \in gc_obj_list
    <3>. SUFFICES ASSUME NEW r \in Callbacks(p) PROVE r.value \in gc_obj_list
      OBVIOUS
    <3>1. corrupt' = (gc_phase = "remove_cycles" /\ \E q \in Callbacks(p) : q.value \in tmp_obj_list)
      BY <1>2, FreeObjectParts
    <3>2. r.value \notin tmp_obj_list
      BY <1>1, <3>1 DEF ListsSweep
    <3>3. r \in Record /\ r.value # None /\ mem[r.value] = "live"
      BY <1>1 DEF Callbacks, TypeInv
    <3>4. r.value \in Objects /\ r.value \in Live /\ r.value \notin Cells
      BY <3>3, RecordFacts, NodeFacts DEF Live
    <3>. QED  BY <1>1, <3>2, <3>4 DEF ListsSweep
  <2>2. gc_obj_list \subseteq Nodes
    BY <1>1 DEF TypeInv
  <2>3. Closed(G)'
    BY <1>1, <1>2, <1>4, <2>1, <2>2, FreeClosed
  <2>4. Kept' = G
    BY <1>6 DEF Kept
  <2>. QED  BY <2>3, <2>4 DEF Closed
<1>8. Lists'
  <2>1. \A x \in Nodes : mem'[x] = IF x = p THEN IF Zombie(p) THEN "zombie" ELSE "free"
                                   ELSE IF x \in Shed(p) THEN "free" ELSE mem[x]
    BY <1>1, <1>2, FreeTypes
  <2>2. \A x \in Nodes : mem'[x] = IF x = p THEN IF Zombie(p) THEN "zombie" ELSE "free"
                                   ELSE IF x \in S THEN "free" ELSE mem[x]
    BY <1>4, <2>1
  <2>3. p \notin gc_zero_ref_count_list /\ p \notin Cells
    BY <1>1, <1>2, NodeFacts DEF ListsSweep
  <2>4. gc_obj_list' \cup tmp_obj_list' \cup (gc_zero_ref_count_list' \cap Cells) = Live'
    BY <1>1, <1>4, <1>5, <1>6, <2>3 DEF ListsSweep
  <2>5. /\ gc_obj_list' \cap tmp_obj_list' = {}
        /\ (gc_obj_list' \cup tmp_obj_list') \cap gc_zero_ref_count_list' = {}
    BY <1>1, <1>4, <1>6 DEF ListsSweep
  <2>6. \A x \in Objects : x \in gc_zero_ref_count_list' <=> mem'[x] = "zombie"
    <3>. SUFFICES ASSUME NEW x \in Objects
                  PROVE  x \in gc_zero_ref_count_list' <=> mem'[x] = "zombie"
      OBVIOUS
    <3>1. CASE x = p
      BY <1>2, <1>4, <1>6, <2>2, <3>1
    <3>2. CASE x # p
      <4>1. x \notin S /\ x \in Nodes /\ mem'[x] = mem[x]
        BY <1>5, <2>2, <3>2, NodeFacts
      <4>. QED  BY <1>1, <1>4, <1>6, <3>2, <4>1 DEF ListsSweep
    <3>. QED  BY <3>1, <3>2
  <2>7. \A c \in Cells : mem'[c] # "zombie"
    BY <1>1, <2>2, <2>3, NodeFacts DEF ListsSweep
  <2>8. ListsSweep'
    BY <1>1, <2>4, <2>5, <2>6, <2>7 DEF ListsSweep
  <2>. QED  BY <2>8 DEF Lists
<1>9. Counts'
  BY <1>3 DEF Counts
<1>. QED  BY <1>3, <1>7, <1>8, <1>9 DEF Whole

\* A cell of the sweep waits for the node that refers to it.
LEMMA SweepCell ==
  ASSUME Whole, pc = "gc_free_cycles", NEW c \in tmp_obj_list \cap Cells,
         tmp_obj_list' = tmp_obj_list \ {c},
         gc_zero_ref_count_list' = gc_zero_ref_count_list \cup {c},
         UNCHANGED <<counts, gc_obj_list, gc_phase, pc>>
  PROVE  Whole'
<1>1. TypeInv /\ Shape /\ Closed(gc_obj_list) /\ Exact /\ ListsSweep
  BY AtSweep
<1>2. UNCHANGED <<ref, mem, slot, weak, roots, jobs, gc_obj_list>> /\ Live' = Live /\ Kept' = gc_obj_list
  BY DEF counts, Live, Kept
<1>3. TypeInv'
  BY <1>1, <1>2, NodeFacts DEF TypeInv
<1>4. Shape' /\ Exact'
  BY <1>1, <1>2 DEF Shape, Exact
<1>5. Closed(Kept)'
  BY <1>1, <1>2 DEF Closed
<1>6. ListsSweep'
  <2>1. gc_phase' = gc_phase /\ \A x \in Objects : x # c
    BY NodeFacts
  <2>. QED  BY <1>1, <1>2, <2>1 DEF ListsSweep
<1>. QED  BY <1>3, <1>4, <1>5, <1>6 DEF Whole, Lists, Counts

\* The sweep ends: only zombies are left, and nothing refers to them.
LEMMA SweepEnd ==
  ASSUME Whole, pc = "gc_free_cycles", tmp_obj_list = {},
         mem' = [x \in Nodes |-> IF x \in gc_zero_ref_count_list THEN "free" ELSE mem[x]],
         ref' = [x \in Nodes |-> IF x \in gc_zero_ref_count_list THEN 0 ELSE ref[x]],
         gc_zero_ref_count_list' = {}, gc_phase' = "none", pc' = "run",
         UNCHANGED <<slot, weak, roots, jobs, gc_obj_list, tmp_obj_list>>
  PROVE  Whole'
<1>1. TypeInv /\ Shape /\ Closed(gc_obj_list) /\ Exact /\ ListsSweep
  BY AtSweep
<1>2. \A c \in Cells \cap Live : c \notin gc_zero_ref_count_list
  <2>. SUFFICES ASSUME NEW c \in Cells \cap Live, c \in gc_zero_ref_count_list PROVE FALSE
    OBVIOUS
  <2>1. PICK q \in Nodes, u \in Slots : slot[q][u] = c
    BY <1>1 DEF Shape
  <2>2. q \in Live /\ q \notin Cells
    BY <1>1, <2>1, NodeFacts DEF Shape
  <2>3. q \in gc_obj_list
    BY <1>1, <2>2 DEF ListsSweep
  <2>4. c \in gc_obj_list
    BY <1>1, <2>1, <2>3, NodeFacts DEF Closed
  <2>. QED  BY <1>1, <2>4 DEF ListsSweep
<1>3. gc_obj_list = Live
  <2>1. Live \subseteq gc_obj_list
    BY <1>1, <1>2 DEF ListsSweep
  <2>. QED  BY <1>1, <2>1 DEF ListsSweep
<1>4. Live' = Live
  <2>1. \A x \in Live : x \notin gc_zero_ref_count_list
    BY <1>1, <1>3 DEF ListsSweep
  <2>. QED  BY <2>1 DEF Live
<1>5. Closed(Kept)' /\ Shape'
  <2>1. Kept' = Live
    BY <1>4 DEF Kept
  <2>2. Closed(Kept)'
    BY <1>1, <1>3, <2>1 DEF Closed
  <2>. QED  BY <1>1, <1>4, <2>2 DEF Shape
<1>6. Exact'
  <2>. SUFFICES ASSUME NEW x \in Nodes
                PROVE  ref'[x] = AllRefs(slot, weak, roots, jobs, x)
    BY DEF Exact
  <2>1. CASE x \in gc_zero_ref_count_list
    <3>1. x \notin Live
      BY <1>1, <1>3, <2>1 DEF ListsSweep
    <3>. QED  BY <1>1, <1>3, <2>1, <3>1, Unreferenced
  <2>2. CASE x \notin gc_zero_ref_count_list
    BY <1>1, <2>2 DEF Exact
  <2>. QED  BY <2>1, <2>2
<1>7. TypeInv'
  BY <1>1 DEF TypeInv
<1>8. ListsRun'
  <2>1. \A x \in Nodes : mem'[x] # "zombie"
    BY <1>1, NodeFacts DEF ListsSweep
  <2>. QED  BY <1>3, <1>4, <2>1 DEF ListsRun
<1>. QED  BY <1>5, <1>6, <1>7, <1>8 DEF Whole, Lists, Counts

LEMMA GcFreeCyclesStep ==
  ASSUME Whole, GcFreeCycles
  PROVE  HeapInv'
<1>1. pc = "gc_free_cycles"
  BY DEF GcFreeCycles
<1>2. CASE \E p \in tmp_obj_list \cap Objects : FreeObject(p) /\ UNCHANGED <<gc_phase, pc>>
  BY <1>1, <1>2, SweepObject
<1>3. CASE \E c \in tmp_obj_list \cap Cells :
             /\ tmp_obj_list' = tmp_obj_list \ {c}
             /\ gc_zero_ref_count_list' = gc_zero_ref_count_list \cup {c}
             /\ UNCHANGED <<counts, gc_obj_list, visited, gc_phase, pc, corrupt>>
  BY <1>1, <1>3, SweepCell DEF HeapInv
<1>4. CASE /\ tmp_obj_list = {}
           /\ mem' = [x \in Nodes |-> IF x \in gc_zero_ref_count_list THEN "free" ELSE mem[x]]
           /\ ref' = [x \in Nodes |-> IF x \in gc_zero_ref_count_list THEN 0 ELSE ref[x]]
           /\ gc_zero_ref_count_list' = {}
           /\ gc_phase' = "none" /\ pc' = "run"
           /\ UNCHANGED <<slot, weak, roots, jobs, gc_obj_list, tmp_obj_list, visited, corrupt>>
  BY <1>1, <1>4, SweepEnd DEF HeapInv
<1>. QED  BY <1>2, <1>3, <1>4 DEF GcFreeCycles

LEMMA FreeZeroStep ==
  ASSUME Whole, FreeZero
  PROVE  Whole'
<1>1. pc = "free"
  BY DEF FreeZero
<1>2. CASE \E p \in gc_zero_ref_count_list : FreeObject(p) /\ UNCHANGED <<gc_phase, pc>>
  BY <1>1, <1>2, FreeZeroObject
<1>3. CASE /\ gc_zero_ref_count_list = {}
           /\ gc_phase' = "none" /\ pc' = "run"
           /\ UNCHANGED <<counts, gcVars, gc_obj_list, gc_zero_ref_count_list, corrupt>>
  <2>1. TypeInv /\ Shape /\ Closed(Live) /\ Exact /\ ListsFree
    BY <1>1, AtRun
  <2>2. UNCHANGED <<ref, mem, slot, weak, roots, jobs, gc_obj_list, tmp_obj_list,
                    gc_zero_ref_count_list>> /\ Live' = Live /\ Kept' = Live
    BY <1>3 DEF counts, gcVars, Live, Kept
  <2>3. TypeInv'
    BY <1>3, <2>1, <2>2 DEF TypeInv
  <2>4. Shape' /\ Exact'
    BY <2>1, <2>2 DEF Shape, Exact
  <2>5. Closed(Kept)'
    BY <2>1, <2>2 DEF Closed
  <2>6. ListsRun'
    BY <1>3, <2>1, <2>2 DEF ListsRun, ListsFree
  <2>. QED  BY <1>3, <2>3, <2>4, <2>5, <2>6 DEF Whole, Lists, Counts
<1>. QED  BY <1>2, <1>3 DEF FreeZero

(***************************************************************************)
(* Steps of the collector.                                                 *)
(***************************************************************************)
LEMMA RunGCStep ==
  ASSUME Whole, RunGC
  PROVE  Whole'
<1>1. pc = "run" /\ pc' = "gc_decref" /\ tmp_obj_list' = {} /\ visited' = {}
      /\ UNCHANGED <<counts, gc_obj_list, gc_zero_ref_count_list, gc_phase>>
  BY DEF RunGC, Running
<1>2. TypeInv /\ Shape /\ Closed(Live) /\ Exact /\ ListsRun
  BY <1>1, AtRun
<1>3. UNCHANGED <<ref, mem, slot, weak, roots, jobs>> /\ Live' = Live /\ Kept' = Live
  BY <1>1 DEF counts, Live, Kept
<1>4. TypeInv'
  BY <1>1, <1>2, <1>3 DEF TypeInv
<1>5. Shape' /\ Exact'
  BY <1>2, <1>3 DEF Shape, Exact
<1>6. Closed(Kept)'
  BY <1>2, <1>3 DEF Closed
<1>7. ListsRun'
  BY <1>1, <1>2, <1>3 DEF ListsRun
<1>. QED  BY <1>1, <1>4, <1>5, <1>6, <1>7 DEF Whole, Lists, Counts

LEMMA MarksIs ==
  ASSUME NEW P, NEW x
  PROVE  Marks(P, x) = Internal(slot, weak, P, x)
BY FieldsToIs DEF Marks, Internal, OfOwners

\* What is reachable depends on references only.
LEMMA ReachableSame ==
  ASSUME UNCHANGED <<slot, weak, roots, jobs>>
  PROVE  Reachable' = Reachable
BY DEF Reachable, ReachableFrom, Successors

LEMMA ReachableClosed ==
  ASSUME TypeInv
  PROVE  /\ roots \subseteq Reachable /\ \A x \in Objects : jobs[x] > 0 => x \in Reachable
         /\ Reachable \subseteq Nodes
         /\ \A p \in Reachable, s \in Slots : slot[p][s] \in Reachable \cup {None}
         /\ \A r \in weak : r.owner \in Reachable =>
              r.value \in Reachable \cup {None} /\ r.token \in Reachable \cup {None}
<1>1. PICK base : base = roots \cup {x \in Objects : jobs[x] > 0}
  OBVIOUS
<1>2. base \subseteq Nodes
  BY <1>1, NodeFacts DEF TypeInv
<1>3. ASSUME NEW P \in SUBSET Nodes PROVE Successors(P) \subseteq Nodes
  <2>1. \A p \in P, s \in Slots : slot[p][s] \in Nodes \cup {None}
    BY DEF TypeInv, Slotting
  <2>2. \A r \in weak : r.value \in Nodes \cup {None} /\ r.token \in Nodes \cup {None}
    BY RecordFacts, NodeFacts DEF TypeInv
  <2>. QED  BY <2>1, <2>2 DEF Successors
<1>4. PICK R : R = ReachableFrom(base)
  OBVIOUS
<1>5. base \subseteq R /\ R \subseteq Nodes /\ Successors(R) \subseteq R
  BY <1>2, <1>3, <1>4, ReachClosed
<1>6. \A p \in R, s \in Slots : slot[p][s] \in R \cup {None}
  BY <1>5 DEF Successors
<1>7. \A r \in weak : r.owner \in R => r.value \in R \cup {None} /\ r.token \in R \cup {None}
  BY <1>5 DEF Successors
<1>8. Reachable = R
  BY <1>1, <1>4 DEF Reachable
<1>. QED  BY <1>1, <1>5, <1>6, <1>7, <1>8

\* References of live nodes are all there are, besides those of scripts and jobs.
LEMMA LiveRefs ==
  ASSUME TypeInv, Shape, NEW x \in Nodes
  PROVE  /\ AllRefs(slot, weak, roots, jobs, x) = Internal(slot, weak, Live, x) + External(roots, jobs, x)
         /\ \A P \in SUBSET Nodes : Internal(slot, weak, P, x) \in Nat
         /\ External(roots, jobs, x) \in Nat
<1>1. IsFiniteSet(weak) /\ jobs \in [Objects -> Nat] /\ Live \subseteq Nodes
  BY NodeFacts DEF TypeInv
<1>2. /\ \A y \in Nodes \ Live : \A s \in Slots : slot[y][s] = None
      /\ \A r \in weak : r.owner \in Live
  BY DEF Shape
<1>3. AllRefs(slot, weak, roots, jobs, x) = Internal(slot, weak, Live, x) + External(roots, jobs, x)
  BY <1>1, <1>2, AllRefsSplit
<1>4. \A P \in SUBSET Nodes : Internal(slot, weak, P, x) \in Nat
  BY <1>1, InternalNat
<1>5. External(roots, jobs, x) \in Nat
  BY <1>1 DEF External
<1>. QED  BY <1>3, <1>4, <1>5

LEMMA GcDecrefStep ==
  ASSUME Whole, GcDecref
  PROVE  Whole'
<1>1. PICK r1 : r1 = [x \in Nodes |-> ref[x] - Marks(gc_obj_list, x)]
  OBVIOUS
<1>2. PICK zero : zero = {x \in gc_obj_list : r1[x] = 0}
  OBVIOUS
<1>3. /\ pc = "gc_decref" /\ ref' = r1 /\ gc_obj_list' = gc_obj_list \ zero /\ tmp_obj_list' = zero
      /\ pc' = "gc_scan"
      /\ UNCHANGED <<mem, slot, weak, roots, jobs, gc_zero_ref_count_list, gc_phase, visited>>
  BY <1>1, <1>2 DEF GcDecref
<1>4. TypeInv /\ Shape /\ Closed(Live) /\ Exact /\ ListsRun /\ visited = {}
  BY <1>3, AtRun
<1>5. Live' = Live /\ Kept' = Live /\ gc_obj_list = Live
  BY <1>3, <1>4 DEF Live, Kept, ListsRun
<1>6. \A x \in Nodes : ref'[x] = External(roots, jobs, x) /\ ref'[x] \in Nat
  <2>. SUFFICES ASSUME NEW x \in Nodes PROVE ref'[x] = External(roots, jobs, x) /\ ref'[x] \in Nat
    OBVIOUS
  <2>1. ref'[x] = ref[x] - Internal(slot, weak, Live, x)
    BY <1>1, <1>3, <1>5, MarksIs
  <2>2. ref[x] = AllRefs(slot, weak, roots, jobs, x)
    BY <1>4 DEF Exact
  <2>3. /\ ref[x] = Internal(slot, weak, Live, x) + External(roots, jobs, x)
        /\ Internal(slot, weak, Live, x) \in Nat /\ External(roots, jobs, x) \in Nat
    BY <1>4, <2>2, LiveRefs, NodeFacts
  <2>. QED  BY <2>1, <2>3
<1>7. ref' \in [Nodes -> Nat]
  BY <1>1, <1>3, <1>6
<1>8. TypeInv'
  BY <1>2, <1>3, <1>4, <1>7 DEF TypeInv
<1>9. Shape'
  BY <1>3, <1>4, <1>5 DEF Shape
<1>10. Closed(Kept)'
  BY <1>3, <1>4, <1>5 DEF Closed
<1>11. Scanned'
  <2>. SUFFICES ASSUME NEW x \in Nodes
                PROVE  ref'[x] = Internal(slot, weak, {}, x) + External(roots, jobs, x)
    BY <1>3, <1>4 DEF Scanned
  <2>1. IsFiniteSet(weak) /\ {} \subseteq Nodes
    BY <1>4 DEF TypeInv
  <2>2. Internal(slot, weak, {}, x) = 0
    BY <2>1, InternalZero
  <2>. QED  BY <1>6, <2>2
<1>12. ListsScan'
  <2>1. zero = {x \in Live : ref'[x] = 0} /\ gc_obj_list' = Live \ zero
    BY <1>2, <1>3, <1>5
  <2>2. ASSUME NEW x \in Live \ zero PROVE x \in Reachable
    <3>1. x \in Nodes /\ External(roots, jobs, x) # 0
      BY <1>6, <2>1, <2>2, NodeFacts
    <3>2. x \in roots \/ (x \in Objects /\ jobs[x] > 0)
      BY <1>4, <3>1 DEF External, TypeInv
    <3>. QED  BY <1>4, <3>2, ReachableClosed
  <2>3. Reachable' = Reachable
    BY <1>3, ReachableSame
  <2>. QED  BY <1>3, <1>4, <1>5, <2>1, <2>2, <2>3 DEF ListsScan, ListsRun
<1>. QED  BY <1>3, <1>8, <1>9, <1>10, <1>11, <1>12 DEF Whole, Lists, Counts

LEMMA AtScan ==
  ASSUME Whole, pc = "gc_scan"
  PROVE  TypeInv /\ Shape /\ Closed(Live) /\ Scanned /\ ListsScan
<1>1. TypeInv /\ Shape /\ Scanned /\ ListsScan
  BY DEF Whole, Counts, Lists
<1>2. Kept = Live /\ Closed(Kept)
  BY DEF Whole, Kept
<1>. QED  BY <1>1, <1>2

LEMMA GcScanStep ==
  ASSUME Whole, GcScan
  PROVE  Whole'
<1>1. PICK next : next = gc_obj_list \ visited
  OBVIOUS
<1>2. PICK r1 : r1 = [x \in Nodes |-> ref[x] + Marks(next, x)]
  OBVIOUS
<1>3. PICK back : back = {x \in tmp_obj_list : r1[x] > 0}
  OBVIOUS
<1>4. /\ pc = "gc_scan" /\ ref' = r1 /\ visited' = visited \cup next
      /\ gc_obj_list' = gc_obj_list \cup back /\ tmp_obj_list' = tmp_obj_list \ back
      /\ UNCHANGED <<mem, slot, weak, roots, jobs, gc_zero_ref_count_list, gc_phase, pc>>
  BY <1>1, <1>2, <1>3 DEF GcScan
<1>5. TypeInv /\ Shape /\ Closed(Live) /\ Scanned /\ ListsScan
  BY <1>4, AtScan
<1>6. Live' = Live /\ Kept' = Live
  BY <1>4 DEF Live, Kept
<1>7. /\ next \subseteq Nodes /\ visited \subseteq Nodes /\ next \subseteq Reachable
      /\ next \cap visited = {} /\ IsFiniteSet(weak)
  BY <1>1, <1>5, NodeFacts DEF ListsScan, TypeInv
<1>8. \A x \in Nodes : /\ ref'[x] = ref[x] + Internal(slot, weak, next, x)
                       /\ ref[x] \in Nat /\ Internal(slot, weak, next, x) \in Nat
  BY <1>2, <1>4, <1>5, <1>7, MarksIs, InternalNat DEF TypeInv
<1>9. ref' \in [Nodes -> Nat]
  BY <1>2, <1>4, <1>8
<1>10. TypeInv'
  BY <1>3, <1>4, <1>5, <1>9 DEF TypeInv
<1>11. Shape'
  BY <1>4, <1>5, <1>6 DEF Shape
<1>12. Closed(Kept)'
  BY <1>4, <1>5, <1>6 DEF Closed
<1>13. Scanned'
  <2>. SUFFICES ASSUME NEW x \in Nodes
                PROVE  ref'[x] = Internal(slot, weak, visited \cup next, x) + External(roots, jobs, x)
    BY <1>4 DEF Scanned
  <2>1. Internal(slot, weak, visited \cup next, x)
        = Internal(slot, weak, visited, x) + Internal(slot, weak, next, x)
    BY <1>7, InternalDisjoint
  <2>2. ref[x] = Internal(slot, weak, visited, x) + External(roots, jobs, x)
    BY <1>5 DEF Scanned
  <2>3. /\ Internal(slot, weak, visited, x) \in Nat /\ Internal(slot, weak, next, x) \in Nat
        /\ External(roots, jobs, x) \in Nat
    BY <1>5, <1>7, LiveRefs
  <2>. QED  BY <1>8, <2>1, <2>2, <2>3
<1>14. ASSUME NEW x \in back PROVE x \in Reachable
  <2>1. x \in tmp_obj_list /\ x \in Nodes /\ ref'[x] > 0 /\ ref[x] = 0
    BY <1>3, <1>4, <1>5, NodeFacts DEF ListsScan
  <2>2. Internal(slot, weak, next, x) # 0
    BY <1>8, <2>1
  <2>3. \/ \E p \in next, s \in Slots : slot[p][s] = x
        \/ \E r \in weak : r.owner \in next /\ (r.value = x \/ r.token = x)
    BY <1>7, <2>2, InternalZero
  <2>. QED  BY <1>5, <1>7, <2>1, <2>3, ReachableClosed, NodeFacts
<1>15. ListsScan'
  <2>1. tmp_obj_list \ back = {x \in Live : ref'[x] = 0}
    <3>1. tmp_obj_list = {x \in Live : ref[x] = 0} /\ back = {x \in tmp_obj_list : ref'[x] > 0}
      BY <1>3, <1>4, <1>5 DEF ListsScan
    <3>2. \A x \in Live : ref'[x] \in Nat /\ (ref'[x] = 0 => ref[x] = 0)
      BY <1>8, NodeFacts
    <3>. QED  BY <3>1, <3>2
  <2>2. back \subseteq tmp_obj_list /\ tmp_obj_list \subseteq Live /\ gc_obj_list = Live \ tmp_obj_list
    BY <1>3, <1>5 DEF ListsScan
  <2>3. gc_obj_list' = Live \ tmp_obj_list'
    BY <1>4, <2>2
  <2>4. visited' \subseteq gc_obj_list' /\ gc_obj_list' \subseteq Reachable
    BY <1>1, <1>4, <1>5, <1>14 DEF ListsScan
  <2>5. Reachable' = Reachable
    BY <1>4, ReachableSame
  <2>. QED  BY <1>4, <1>5, <1>6, <2>1, <2>3, <2>4, <2>5 DEF ListsScan
<1>. QED  BY <1>4, <1>10, <1>11, <1>12, <1>13, <1>15 DEF Whole, Lists, Counts

\* When the scan has visited all it kept, what it kept is closed: a node of
\* tmp_obj_list has no reference from outside of the list.
LEMMA ScanDone ==
  ASSUME Whole, pc = "gc_scan", gc_obj_list \subseteq visited
  PROVE  /\ visited = gc_obj_list /\ Closed(gc_obj_list)
         /\ gc_obj_list = Reachable /\ tmp_obj_list = Live \ Reachable
<1>1. TypeInv /\ Shape /\ Closed(Live) /\ Scanned /\ ListsScan
  BY AtScan
<1>2. PICK G : G = gc_obj_list
  OBVIOUS
<1>3. visited = G /\ G \subseteq Nodes /\ G \subseteq Live /\ tmp_obj_list = Live \ G /\ G \subseteq Reachable
  BY <1>1, <1>2, NodeFacts DEF ListsScan
<1>4. ASSUME NEW x \in Live \ G
      PROVE  /\ \A p \in G, s \in Slots : slot[p][s] # x
             /\ \A r \in weak : r.owner \in G => r.value # x /\ r.token # x
             /\ x \notin roots /\ (x \in Objects => jobs[x] = 0)
  <2>1. x \in Nodes /\ ref[x] = 0
    BY <1>1, <1>2, <1>3, NodeFacts DEF ListsScan
  <2>2. ref[x] = Internal(slot, weak, G, x) + External(roots, jobs, x)
    BY <1>1, <1>3, <2>1 DEF Scanned
  <2>3. Internal(slot, weak, G, x) \in Nat /\ External(roots, jobs, x) \in Nat
    BY <1>1, <1>3, <2>1, LiveRefs
  <2>4. Internal(slot, weak, G, x) = 0 /\ External(roots, jobs, x) = 0
    BY <2>1, <2>2, <2>3
  <2>5. x \notin roots /\ (x \in Objects => jobs[x] = 0)
    BY <1>1, <2>4 DEF External, TypeInv
  <2>6. IsFiniteSet(weak)
    BY <1>1 DEF TypeInv
  <2>7. Fields(slot, G, x) = 0 /\ RecordsTo(OfOwners(weak, G), x) = 0
    BY <1>3, <2>4, <2>6, InternalNat DEF Internal
  <2>8. \A p \in G, s \in Slots : slot[p][s] # x
    BY <1>3, <2>7, FieldsZero
  <2>9. IsFiniteSet(OfOwners(weak, G))
    BY <1>3, <2>6, InternalNat
  <2>10. \A r \in OfOwners(weak, G) : r.value # x /\ r.token # x
    BY <2>7, <2>9, RecordsZero
  <2>. QED  BY <2>5, <2>8, <2>10 DEF OfOwners
<1>5. Closed(G)
  <2>1. roots \subseteq G
    BY <1>1, <1>4 DEF Closed
  <2>2. \A x \in Objects : jobs[x] > 0 => x \in G
    BY <1>1, <1>4 DEF Closed
  <2>3. \A p \in G, s \in Slots : slot[p][s] \in G \cup {None}
    BY <1>1, <1>3, <1>4 DEF Closed
  <2>4. \A r \in weak : r.owner \in G => r.value \in G \cup {None} /\ r.token \in G \cup {None}
    BY <1>1, <1>3, <1>4 DEF Closed
  <2>. QED  BY <2>1, <2>2, <2>3, <2>4 DEF Closed
<1>6. Reachable \subseteq G
  BY <1>5, ReachableIn
<1>. QED  BY <1>2, <1>3, <1>5, <1>6

LEMMA GcRestoreStep ==
  ASSUME Whole, GcRestore
  PROVE  Whole'
<1>1. /\ pc = "gc_scan" /\ gc_obj_list \subseteq visited
      /\ ref' = [x \in Nodes |-> ref[x] + Marks(tmp_obj_list, x)]
      /\ pc' = "gc_free_cycles" /\ gc_phase' = "remove_cycles"
      /\ UNCHANGED <<mem, slot, weak, roots, jobs, gc_obj_list, tmp_obj_list, gc_zero_ref_count_list>>
  BY DEF GcRestore
<1>2. TypeInv /\ Shape /\ Scanned /\ ListsScan
  BY <1>1, AtScan
<1>3. visited = gc_obj_list /\ Closed(gc_obj_list)
  BY <1>1, ScanDone
<1>4. Live' = Live /\ Kept' = gc_obj_list
  BY <1>1 DEF Live, Kept
<1>5. PICK G, T : G = gc_obj_list /\ T = tmp_obj_list
  OBVIOUS
<1>6. G \subseteq Nodes /\ T \subseteq Nodes /\ G \cap T = {} /\ G \cup T = Live /\ IsFiniteSet(weak)
  BY <1>2, <1>5, NodeFacts DEF ListsScan, TypeInv
<1>7. \A x \in Nodes : ref'[x] = AllRefs(slot, weak, roots, jobs, x) /\ ref'[x] \in Nat
  <2>. SUFFICES ASSUME NEW x \in Nodes
                PROVE  ref'[x] = AllRefs(slot, weak, roots, jobs, x) /\ ref'[x] \in Nat
    OBVIOUS
  <2>1. ref'[x] = ref[x] + Internal(slot, weak, T, x)
    BY <1>1, <1>5, MarksIs
  <2>2. ref[x] = Internal(slot, weak, G, x) + External(roots, jobs, x)
    BY <1>2, <1>3, <1>5 DEF Scanned
  <2>3. Internal(slot, weak, G \cup T, x) = Internal(slot, weak, G, x) + Internal(slot, weak, T, x)
    BY <1>6, InternalDisjoint
  <2>4. AllRefs(slot, weak, roots, jobs, x) = Internal(slot, weak, G \cup T, x) + External(roots, jobs, x)
    BY <1>2, <1>6, LiveRefs
  <2>5. /\ Internal(slot, weak, G, x) \in Nat /\ Internal(slot, weak, T, x) \in Nat
        /\ External(roots, jobs, x) \in Nat
    BY <1>2, <1>6, LiveRefs
  <2>. QED  BY <2>1, <2>2, <2>3, <2>4, <2>5
<1>8. Exact'
  BY <1>1, <1>7 DEF Exact
<1>9. ref' \in [Nodes -> Nat]
  BY <1>1, <1>7
<1>10. TypeInv'
  BY <1>1, <1>2, <1>9 DEF TypeInv
<1>11. Shape'
  BY <1>1, <1>2, <1>4 DEF Shape
<1>12. Closed(Kept)'
  BY <1>1, <1>3, <1>4 DEF Closed
<1>13. ListsSweep'
  BY <1>1, <1>2, <1>4, <1>5, <1>6, NodeFacts DEF ListsScan, ListsSweep
<1>. QED  BY <1>1, <1>8, <1>10, <1>11, <1>12, <1>13 DEF Whole, Lists, Counts

(***************************************************************************)
(* The theorems.                                                           *)
(***************************************************************************)
LEMMA ScriptSteps ==
  ASSUME Whole, Script
  PROVE  Whole'
<1>1. CASE \E x \in Objects : NewObject(x) \/ Load(x) \/ Drop(x) \/ RunJob(x)
  BY <1>1, NewObjectStep, LoadStep, DropStep, RunJobStep
<1>2. CASE \E p \in Objects, s \in Slots, c \in Cells : NewCell(p, s, c) \/ ShareCell(p, s, c)
  BY <1>2, NewCellStep, ShareCellStep
<1>3. CASE \E p \in Nodes, s \in Slots, v \in Objects \cup {None} : SetField(p, s, v)
  BY <1>3, SetFieldStep
<1>4. CASE \E w, t \in Objects : NewWeakRef(w, t)
  BY <1>4, NewWeakRefStep
<1>5. CASE \E m, k, v \in Objects : WeakMapSet(m, k, v)
  BY <1>5, WeakMapSetStep
<1>6. CASE \E f, t \in Objects, held, token \in Objects \cup {None} : Register(f, t, held, token)
  BY <1>6, RegisterStep
<1>7. CASE \E r \in weak : Deref(r) \/ WeakMapDelete(r)
  BY <1>7, DerefStep, WeakMapDeleteStep
<1>. QED  BY <1>1, <1>2, <1>3, <1>4, <1>5, <1>6, <1>7 DEF Script

\* Steps that read the heap only.
LEMMA HeapSame ==
  ASSUME Whole, UNCHANGED heapVars
  PROVE  Whole'
<1>1. /\ UNCHANGED <<ref, mem, slot, weak, roots, jobs, gc_obj_list, tmp_obj_list,
                     gc_zero_ref_count_list, gc_phase, pc, visited>>
  BY DEF heapVars
<1>2. Live' = Live /\ Reachable' = Reachable
  BY <1>1, ReachableSame DEF Live
<1>3. Kept' = Kept
  BY <1>1, <1>2 DEF Kept
<1>4. Closed(Kept)'
  BY <1>1, <1>3 DEF Whole, Closed
<1>5. TypeInv' /\ Shape' /\ Counts'
  <2>1. TypeInv'
    BY <1>1 DEF Whole, TypeInv
  <2>2. Shape'
    BY <1>1, <1>2 DEF Whole, Shape
  <2>3. Counts'
    BY <1>1 DEF Whole, Counts, Exact, Scanned
  <2>. QED  BY <2>1, <2>2, <2>3
<1>6. Lists'
  BY <1>1, <1>2 DEF Whole, Lists, ListsRun, ListsFree, ListsScan, ListsSweep
<1>. QED  BY <1>4, <1>5, <1>6 DEF Whole

\* The loop of unregister frees one entry at a time; between two of them the
\* heap is as between two operations of a script.
LEMMA UnregisteringSteps ==
  ASSUME Whole, Unregistering
  PROVE  corrupt' \/ Whole'
<1>1. CASE \E f, token \in Objects : Unregister(f, token)
  <2>1. UNCHANGED heapVars
    BY <1>1 DEF Unregister
  <2>. QED  BY <2>1, HeapSame
<1>2. CASE UnregisterEntry
  <2>1. pc = "run" /\ {walk.el} \subseteq weak
    BY <1>2 DEF UnregisterEntry
  <2>2. CASE walk.el.token = walk.token
    <3>1. Delete({walk.el})
      BY <1>2, <2>2 DEF UnregisterEntry
    <3>. QED  BY <2>1, <3>1, DeleteStep
  <2>3. CASE walk.el.token # walk.token
    <3>1. UNCHANGED heapVars
      BY <1>2, <2>3 DEF UnregisterEntry
    <3>. QED  BY <3>1, HeapSame
  <2>. QED  BY <2>2, <2>3
<1>3. CASE UnregisterEnds
  <2>1. UNCHANGED heapVars
    BY <1>3 DEF UnregisterEnds
  <2>. QED  BY <2>1, HeapSame
<1>4. CASE UnregisterFreed
  BY <1>4 DEF UnregisterFreed
<1>. QED  BY <1>1, <1>2, <1>3, <1>4 DEF Unregistering

\* The inductive invariant: unless freed memory was used, by a finalization
\* callback with an object that its sweep then frees or by unregister with an
\* entry that its loop freed, the lists of JS_RunGC and
\* free_zero_refcount partition the live nodes, counts are the references
\* there are, and what must survive is closed under references.
THEOREM HeapInvariant == Spec => []HeapInv
<1>1. Init => HeapInv
  BY InitWhole DEF HeapInv
<1>2. ASSUME HeapInv, [Next]_vars PROVE HeapInv'
  <2>1. CASE UNCHANGED vars
    <3>1. corrupt' = corrupt /\ UNCHANGED heapVars
      BY <2>1 DEF vars
    <3>. QED  BY <1>2, <3>1, HeapSame DEF HeapInv
  <2>2. CASE Next
    <3>1. Whole /\ (Script \/ Collector \/ Unregistering)
      BY <1>2, <2>2 DEF Next, HeapInv
    <3>2. CASE Script
      BY <3>1, <3>2, ScriptSteps DEF HeapInv
    <3>3. CASE Collector
      BY <3>1, <3>3, RunGCStep, FreeZeroStep, GcDecrefStep, GcScanStep, GcRestoreStep,
         GcFreeCyclesStep DEF Collector, HeapInv
    <3>4. CASE Unregistering
      BY <3>1, <3>4, UnregisteringSteps DEF HeapInv
    <3>. QED  BY <3>1, <3>2, <3>3, <3>4
  <2>. QED  BY <1>2, <2>1, <2>2
<1>. QED  BY <1>1, <1>2, PTL DEF Spec

\* Whatever scripts do, between operations, and between two entries of
\* unregister, the count of every live node is the number of fields, weak
\* records, stack slots and queued callbacks that refer to it: no JS_DupValue
\* or JS_FreeValue of these paths is missing or doubled, and gc_free_cycles
\* leaves neither a header nor a stranded cell behind. Nothing is claimed once
\* a callback or the loop of unregister stands on freed memory (corrupt).
THEOREM CountsAlwaysExact == Spec => []CountsExact
<1>1. HeapInv => CountsExact
  <2>. SUFFICES ASSUME HeapInv, pc = "run", ~corrupt
                PROVE  /\ gc_obj_list = Live /\ Live = {x \in Nodes : mem[x] # "free"}
                       /\ \A x \in Live : ref[x] = FieldsTo(Live, x) + RecordsTo(weak, x)
                                                  + (IF x \in roots THEN 1 ELSE 0)
                                                  + (IF x \in Objects THEN jobs[x] ELSE 0)
    BY DEF CountsExact
  <2>1. TypeInv /\ Shape /\ Exact /\ ListsRun
    BY AtRun DEF HeapInv
  <2>2. gc_obj_list = Live /\ Live = {x \in Nodes : mem[x] # "free"}
    BY <2>1 DEF ListsRun, Live, TypeInv
  <2>3. ASSUME NEW x \in Live
        PROVE  ref[x] = FieldsTo(Live, x) + RecordsTo(weak, x)
                        + (IF x \in roots THEN 1 ELSE 0) + (IF x \in Objects THEN jobs[x] ELSE 0)
    <3>1. x \in Nodes
      BY NodeFacts
    <3>2. ref[x] = Internal(slot, weak, Live, x) + External(roots, jobs, x)
      BY <2>1, <3>1, LiveRefs DEF Exact
    <3>3. OfOwners(weak, Live) = weak
      BY <2>1 DEF OfOwners, Shape
    <3>4. ref[x] = (FieldsTo(Live, x) + RecordsTo(weak, x)) + External(roots, jobs, x)
      BY <3>2, <3>3, FieldsToIs DEF Internal
    <3>5. PICK f, w : f = FieldsTo(Live, x) /\ w = RecordsTo(weak, x)
      OBVIOUS
    <3>6. f \in Nat /\ w \in Nat
      BY <2>1, <3>5, FieldsToIs, FieldsNat, RecordsNat, NodeFacts DEF TypeInv
    <3>7. PICK i, j : i = (IF x \in roots THEN 1 ELSE 0) /\ j = (IF x \in Objects THEN jobs[x] ELSE 0)
      OBVIOUS
    <3>8. i \in Nat /\ j \in Nat /\ External(roots, jobs, x) = i + j
      BY <2>1, <3>7 DEF External, TypeInv
    <3>9. ref[x] = f + w + i + j
      BY <3>4, <3>5, <3>6, <3>8
    <3>. QED  BY <3>5, <3>7, <3>9
  <2>. QED  BY <2>2, <2>3
<1>. QED  BY <1>1, HeapInvariant, PTL

\* At every step, also in the middle of free_zero_refcount and of a sweep,
\* what scripts and queued callbacks reach is live memory, and so are the
\* object that owns a weak record and the object the record is about: free_object
\* and reset_weak_ref remove the records before either goes. Nothing is claimed
\* once a callback or the loop of unregister stands on freed memory (corrupt).
THEOREM NothingEverDangles == Spec => []NothingDangles
<1>1. HeapInv => NothingDangles
  <2>. SUFFICES ASSUME Whole
                PROVE  Reachable \cup UNION {{r.owner, r.target} : r \in weak} \subseteq Live
    BY DEF HeapInv, NothingDangles
  <2>1. Reachable \subseteq Live
    BY ReachableKept
  <2>2. \A r \in weak : r.owner \in Live /\ r.target \in Live
    BY DEF Whole, Shape
  <2>. QED  BY <2>1, <2>2
<1>. QED  BY <1>1, HeapInvariant, PTL

\* gc_decref and gc_scan find the garbage, all of it and nothing else, without
\* a list of roots: when gc_free_cycles begins, tmp_obj_list holds exactly
\* the live nodes that no script and no queued callback can reach.
THEOREM GarbageAlwaysFound == Spec => GarbageFound
<1>1. ASSUME HeapInv, [Next]_vars
      PROVE  [pc = "gc_scan" /\ pc' = "gc_free_cycles" => tmp_obj_list = Live \ Reachable]_vars
  <2>. SUFFICES ASSUME Next, pc = "gc_scan", pc' = "gc_free_cycles"
                PROVE  tmp_obj_list = Live \ Reachable
    BY <1>1
  <2>1. Whole
    BY <1>1 DEF HeapInv, Next
  <2>2. ~Script
    BY DEF Script, NewObject, Load, Drop, RunJob, NewCell, ShareCell, SetField, NewWeakRef,
           WeakMapSet, Register, Deref, WeakMapDelete, Running
  <2>3. ~Unregistering
    BY DEF Unregistering, Unregister, UnregisterEntry, UnregisterEnds, UnregisterFreed, Running
  <2>4. GcRestore
    BY <2>2, <2>3 DEF Next, Collector, RunGC, FreeZero, GcDecref, GcScan, GcFreeCycles, Running
  <2>. QED  BY <2>1, <2>4, ScanDone DEF GcRestore
<1>. QED  BY <1>1, HeapInvariant, PTL DEF Spec, GarbageFound
=============================================================================
