------------------------- MODULE MapRecords_proofs -------------------------
(***************************************************************************)
(* Proofs about MapRecords for any keys, values and finite set of walks    *)
(* and any number of records: the reference counts are exact, and the list *)
(* with its zombies implements the ordered map that scripts see, until a   *)
(* link is followed to a freed record, after which nothing happens.        *)
(***************************************************************************)
EXTENDS MapRecords, SequenceLemmas, FiniteSetTheorems

Entry == (Keys \X Values) \cup {Gone}

TypeInv ==
  /\ records \in Seq(Int)
  /\ entry \in Seq(Entry)
  /\ ref_count \in Seq(Int) /\ Len(ref_count) = Len(entry)
  /\ record_count \in Int
  /\ walking \in [Walkers -> BOOLEAN]
  /\ cur_record \in [Walkers -> 0..Len(entry)]

\* New records go to the end of the list, so it is sorted by their creation:
\* the place of a zombie between its neighbours is the place its key had.
MapInv == TypeInv /\ Increasing(records) /\ RefsExact

Live == {r \in DOMAIN entry : ~empty(r)}

\* The link that forEach or clear has saved leads to what is ahead of it,
\* whether or not its record is still there.
LinkInv ==
  /\ between \subseteq ForEachs /\ clearing \in BOOLEAN /\ el \in 0..Len(entry)
  /\ \A w \in between :
       /\ between = {w} /\ walking[w] /\ ~clearing
       /\ \A j \in Live : j > cur_record[w] <=> el # 0 /\ j >= el
  /\ clearing => \A j \in Live : el # 0 /\ j >= el

Inv == MapInv /\ LinkInv

LEMMA Lengths ==
  ASSUME TypeInv
  PROVE  /\ Len(entry) \in Nat /\ DOMAIN entry = 1..Len(entry)
         /\ DOMAIN ref_count = 1..Len(entry) /\ ref_count \in [1..Len(entry) -> Int]
         /\ entry \in [1..Len(entry) -> Entry]
         /\ Len(records) \in Nat /\ DOMAIN records = 1..Len(records)
         /\ records \in [1..Len(records) -> Int]
BY LenProperties DEF TypeInv

LEMMA RecordsFinite ==
  ASSUME TypeInv, NEW R \in SUBSET (DOMAIN entry)
  PROVE  IsFiniteSet(R) /\ Cardinality(R) \in Nat
<1>1. IsFiniteSet(1..Len(entry))
  BY Lengths, FS_Interval
<1>. QED  BY <1>1, Lengths, FS_Subset, FS_CardinalityType

LEMMA WalksFinite ==
  ASSUME NEW W \in SUBSET Walkers
  PROVE  IsFiniteSet(W) /\ Cardinality(W) \in Nat
BY MapConstants, FS_Subset, FS_CardinalityType

\* A record that has a key, or that a walk holds, is in the list.
LEMMA KeptInList ==
  ASSUME MapInv
  PROVE  /\ Range(records) \subseteq DOMAIN entry
         /\ Live \subseteq Range(records)
         /\ \A r \in DOMAIN entry : Holders(r) # {} => r \in Range(records)
         /\ \A k : WithKey(k) = {r \in Live : entry[r][1] = k}
         /\ {r \in Range(records) : ~empty(r)} = Live
<1>1. ASSUME NEW r \in DOMAIN entry
      PROVE  /\ Cardinality(Holders(r)) \in Nat
             /\ Holders(r) # {} => Cardinality(Holders(r)) > 0
  <2>1. Holders(r) \in SUBSET Walkers
    BY DEF Holders
  <2>. QED  BY <2>1, WalksFinite, FS_EmptySet
<1>2. ASSUME NEW r \in DOMAIN entry, Holders(r) # {} \/ ~empty(r) PROVE r \in Range(records)
  <2>1. ref_count[r] > 0
    BY <1>1, <1>2 DEF MapInv, RefsExact
  <2>. QED  BY <2>1 DEF MapInv, RefsExact
<1>3. Range(records) \subseteq DOMAIN entry
  BY DEF MapInv, RefsExact
<1>. QED  BY <1>2, <1>3 DEF Live, WithKey

(***************************************************************************)
(* Changes of the map.                                                     *)
(***************************************************************************)
LEMMA DeleteKeeps ==
  ASSUME MapInv, NEW R \in SUBSET Live, DeleteRecords(R), UNCHANGED between
  PROVE  MapInv'
<1>. DEFINE n == Len(entry)
            K == {r \in Range(records) : r \notin R \/ ref_count[r] > 1}
<1>0. R \subseteq DOMAIN entry /\ Live \subseteq DOMAIN entry
  BY DEF Live
<1>1. /\ n \in Nat /\ DOMAIN entry = 1..n /\ ref_count \in [1..n -> Int]
      /\ entry \in [1..n -> Entry] /\ DOMAIN ref_count = 1..n
  BY Lengths DEF MapInv
<1>2. /\ entry' = [r \in 1..n |-> IF r \in R THEN Gone ELSE entry[r]]
      /\ ref_count' = [r \in 1..n |-> IF r \in R THEN ref_count[r] - 1 ELSE ref_count[r]]
      /\ records' = Filter(records, K)
      /\ record_count' = record_count - Cardinality(R)
      /\ walking' = walking /\ cur_record' = cur_record
  BY <1>1 DEF DeleteRecords, walkVars
<1>. HIDE DEF n
<1>3. entry' \in [1..n -> Entry] /\ ref_count' \in [1..n -> Int]
  BY <1>1, <1>2 DEF Entry
<1>4. /\ entry' \in Seq(Entry) /\ Len(entry') = n /\ DOMAIN entry' = 1..n
      /\ ref_count' \in Seq(Int) /\ Len(ref_count') = n
  BY <1>1, <1>3, FunctionIsSeq
<1>5. IsFiniteSet(R) /\ Cardinality(R) \in Nat /\ IsFiniteSet(Live)
  BY <1>0, RecordsFinite DEF MapInv
<1>6. records' \in Seq(Int) /\ Increasing(records') /\ Range(records') = Range(records) \cap K
  BY <1>2, FilterEmbeds, FilterIncreasing, RangeOfFilter DEF MapInv, TypeInv
<1>7. TypeInv'
  BY <1>2, <1>4, <1>5, <1>6 DEF MapInv, TypeInv, n
<1>8. \A r \in 1..n : (entry'[r] = Gone) <=> (entry[r] = Gone \/ r \in R)
  BY <1>1, <1>2
<1>9. Holders(0)' = Holders(0) /\ \A r : Holders(r)' = Holders(r)
  BY <1>2 DEF Holders
<1>10. ASSUME NEW r \in 1..n
       PROVE  ref_count'[r] = (IF empty(r)' THEN 0 ELSE 1) + Cardinality(Holders(r)')
  <2>1. ref_count[r] = (IF empty(r) THEN 0 ELSE 1) + Cardinality(Holders(r))
    BY <1>1 DEF MapInv, RefsExact
  <2>2. Cardinality(Holders(r)) \in Nat
    BY WalksFinite DEF Holders
  <2>3. r \in R => ~empty(r)
    BY DEF Live
  <2>. QED  BY <1>2, <1>8, <1>9, <2>1, <2>2, <2>3 DEF empty
<1>11. Range(records') = {r \in DOMAIN entry' : ref_count'[r] > 0}
  <2>1. Range(records) = {r \in 1..n : ref_count[r] > 0}
    BY <1>1 DEF MapInv, RefsExact
  <2>2. \A r \in 1..n : ref_count[r] \in Int
    BY <1>1
  <2>. QED  BY <1>2, <1>4, <1>6, <2>1, <2>2
<1>12. record_count' = Cardinality({r \in DOMAIN entry' : ~empty(r)'})
  <2>1. {r \in DOMAIN entry' : ~empty(r)'} = Live \ R
    BY <1>1, <1>4, <1>8 DEF Live, empty
  <2>2. record_count = Cardinality(Live) /\ Cardinality(Live) \in Nat
    BY <1>0, RecordsFinite DEF MapInv, RefsExact, Live
  <2>3. Cardinality(Live \ R) = Cardinality(Live) - Cardinality(R)
    <3>1. IsFiniteSet(Live \ R) /\ Cardinality(Live \ R) \in Nat
      BY <1>0, RecordsFinite DEF MapInv
    <3>2. (Live \ R) \cup R = Live /\ (Live \ R) \cap R = {}
      OBVIOUS
    <3>3. Cardinality((Live \ R) \cup R) =
            Cardinality(Live \ R) + Cardinality(R) - Cardinality((Live \ R) \cap R)
      BY <1>5, <3>1, FS_Union
    <3>4. Cardinality(Live) = Cardinality(Live \ R) + Cardinality(R) - Cardinality({})
      BY <3>2, <3>3
    <3>. QED  BY <1>5, <2>2, <3>1, <3>4, FS_EmptySet
  <2>. QED  BY <1>2, <2>1, <2>2, <2>3
<1>13. RefsExact'
  BY <1>4, <1>10, <1>11, <1>12 DEF RefsExact
<1>. QED  BY <1>6, <1>7, <1>13 DEF MapInv

LEMMA SetKeeps ==
  ASSUME MapInv, NEW k \in Keys, NEW v \in Values, MapSet(k, v)
  PROVE  MapInv'
<1>. DEFINE e == <<k, v>>
<1>0. PICK n \in Nat : n = Len(entry)
  BY Lengths DEF MapInv
<1>1. /\ n \in Nat /\ DOMAIN entry = 1..n /\ ref_count \in [1..n -> Int]
      /\ entry \in [1..n -> Entry] /\ DOMAIN ref_count = 1..n
      /\ entry \in Seq(Entry) /\ ref_count \in Seq(Int) /\ Len(ref_count) = n
      /\ cur_record \in [Walkers -> 0..n] /\ records \in Seq(Int)
  BY <1>0, Lengths DEF MapInv, TypeInv
<1>2. /\ e \in Entry /\ e # Gone
      /\ walking' = walking /\ cur_record' = cur_record /\ between' = between
  BY MapConstants DEF Entry, MapSet, walkVars, linkVars
<1>3. \A r : Holders(r)' = Holders(r)
  BY <1>2 DEF Holders
<1>4. CASE WithKey(k) # {}
  <2>1. /\ entry' = [r \in 1..n |-> IF r \in WithKey(k) THEN e ELSE entry[r]]
        /\ UNCHANGED <<records, ref_count, record_count>>
    BY <1>1, <1>4 DEF MapSet
  <2>. HIDE DEF e
  <2>2. entry' \in [1..n -> Entry]
    BY <1>1, <1>2, <2>1
  <2>3. entry' \in Seq(Entry) /\ Len(entry') = n /\ DOMAIN entry' = 1..n
    BY <1>1, <2>2, FunctionIsSeq
  <2>4. \A r \in 1..n : empty(r)' <=> empty(r)
    BY <1>1, <1>2, <2>1 DEF empty, WithKey
  <2>5. TypeInv'
    BY <1>0, <1>1, <1>2, <2>1, <2>3 DEF MapInv, TypeInv
  <2>6. RefsExact'
    BY <1>1, <1>3, <2>1, <2>3, <2>4 DEF MapInv, RefsExact
  <2>. QED  BY <2>1, <2>5, <2>6 DEF MapInv
<1>5. CASE WithKey(k) = {}
  <2>1. /\ entry' = Append(entry, e) /\ ref_count' = Append(ref_count, 1)
        /\ records' = Append(records, Len(entry')) /\ record_count' = record_count + 1
    BY <1>5 DEF MapSet
  <2>. HIDE DEF e
  <2>2. /\ entry' \in Seq(Entry) /\ Len(entry') = n + 1 /\ DOMAIN entry' = 1..(n + 1)
        /\ entry'[n + 1] = e /\ \A r \in 1..n : entry'[r] = entry[r]
    BY <1>0, <1>1, <1>2, <2>1, AppendProperties
  <2>3. /\ ref_count' \in Seq(Int) /\ Len(ref_count') = n + 1
        /\ ref_count'[n + 1] = 1 /\ \A r \in 1..n : ref_count'[r] = ref_count[r]
    BY <1>1, <2>1, AppendProperties
  <2>4. records' = Append(records, n + 1) /\ Range(records) \subseteq 1..n
    BY <1>1, <2>1, <2>2, KeptInList
  <2>5. /\ records' \in Seq(Int) /\ Range(records') = Range(records) \cup {n + 1}
        /\ Increasing(records')
    <3>1. n + 1 \in Int /\ \A x \in Range(records) : x < n + 1
      BY <2>4
    <3>2. Increasing(Append(records, n + 1))
      BY <1>1, <3>1, AppendIncreasing DEF MapInv
    <3>3. Range(Append(records, n + 1)) = Range(records) \cup {n + 1}
      BY <1>1, <3>1, RangeOfAppend
    <3>4. Append(records, n + 1) \in Seq(Int)
      BY <1>1, <3>1, AppendProperties
    <3>. QED  BY <2>4, <3>2, <3>3, <3>4
  <2>6. TypeInv'
    <3>1. cur_record' \in [Walkers -> 0..(n + 1)]
      BY <1>1, <1>2
    <3>. QED  BY <1>2, <2>1, <2>2, <2>3, <2>5, <3>1 DEF MapInv, TypeInv
  <2>7. /\ ~empty(n + 1)' /\ \A r \in 1..n : empty(r)' <=> empty(r)
        /\ n + 1 \notin 1..n /\ 1..(n + 1) = 1..n \cup {n + 1}
    BY <1>1, <1>2, <2>2 DEF empty
  <2>8. ASSUME NEW r \in 1..(n + 1)
        PROVE  ref_count'[r] = (IF empty(r)' THEN 0 ELSE 1) + Cardinality(Holders(r)')
    <3>1. CASE r = n + 1
      <4>1. Holders(n + 1) = {}
        BY <1>1 DEF Holders
      <4>2. Cardinality(Holders(r)') = 0
        BY <1>3, <3>1, <4>1, FS_EmptySet
      <4>. QED  BY <2>3, <2>7, <3>1, <4>2
    <3>2. CASE r \in 1..n
      <4>1. ref_count[r] = (IF empty(r) THEN 0 ELSE 1) + Cardinality(Holders(r))
        BY <1>1, <3>2 DEF MapInv, RefsExact
      <4>. QED  BY <1>3, <2>3, <2>7, <3>2, <4>1
    <3>. QED  BY <2>7, <3>1, <3>2
  <2>9. Range(records') = {r \in 1..(n + 1) : ref_count'[r] > 0}
    <3>1. Range(records) = {r \in 1..n : ref_count[r] > 0}
      BY <1>1 DEF MapInv, RefsExact
    <3>. QED  BY <2>3, <2>5, <2>7, <3>1
  <2>10. record_count' = Cardinality({r \in 1..(n + 1) : ~empty(r)'})
    <3>1. {r \in 1..(n + 1) : ~empty(r)'} = Live \cup {n + 1} /\ n + 1 \notin Live
      BY <1>1, <2>7 DEF Live
    <3>2. IsFiniteSet(Live) /\ record_count = Cardinality(Live)
      BY RecordsFinite DEF MapInv, RefsExact, Live
    <3>3. Cardinality(Live \cup {n + 1}) = Cardinality(Live) + 1
      BY <3>1, <3>2, FS_AddElement
    <3>. QED  BY <2>1, <3>1, <3>2, <3>3
  <2>11. RefsExact'
    BY <2>2, <2>8, <2>9, <2>10 DEF RefsExact
  <2>. QED  BY <2>5, <2>6, <2>11 DEF MapInv
<1>. QED  BY <1>4, <1>5

(***************************************************************************)
(* Walks.                                                                  *)
(***************************************************************************)
\* The records with a key from b on, and the first of them, 0 when there is none.
From(b) == {j \in Live : j >= b}
IsFirst(b, mr) ==
  \/ mr = 0 /\ From(b) = {}
  \/ mr \in From(b) /\ \A j \in From(b) : mr <= j

\* The list is sorted, and holds every record with a key.
LEMMA SortedList ==
  ASSUME MapInv
  PROVE  /\ Len(records) \in Nat /\ DOMAIN records = 1..Len(records)
         /\ Len(entry) \in Nat /\ DOMAIN entry = 1..Len(entry)
         /\ \A i \in 1..Len(records) : records[i] \in 1..Len(entry)
         /\ \A i, j \in 1..Len(records) : i < j => records[i] < records[j]
         /\ Live \subseteq Range(records)
<1>1. \A i \in DOMAIN records : records[i] \in Range(records)
  BY DEF Range
<1>. QED  BY <1>1, Lengths, KeptInList DEF MapInv, TypeInv, Increasing

\* The place of a record in the list divides it by age.
LEMMA PlaceDivides ==
  ASSUME MapInv, NEW r \in 0..Len(entry), ~Freed(r)
  PROVE  /\ Place(r) \in 0..Len(records)
         /\ r = 0 => Place(r) = 0
         /\ r # 0 => Place(r) # 0 /\ records[Place(r)] = r
         /\ \A i \in 1..Len(records) : i > Place(r) <=> records[i] > r
<1>1. CASE r = 0
  BY <1>1, SortedList DEF Place
<1>2. CASE r # 0
  <2>1. \E i \in DOMAIN records : records[i] = r
    BY <1>2 DEF Freed, Range
  <2>2. Place(r) \in DOMAIN records /\ records[Place(r)] = r
    BY <1>2, <2>1 DEF Place
  <2>3. Place(r) \in 1..Len(records) /\ records[Place(r)] = r
    BY <2>2, SortedList
  <2>4. ASSUME NEW i \in 1..Len(records) PROVE i > Place(r) <=> records[i] > r
    <3>1. i < Place(r) \/ i = Place(r) \/ Place(r) < i
      BY <2>3
    <3>2. /\ i < Place(r) => records[i] < records[Place(r)]
          /\ Place(r) < i => records[Place(r)] < records[i]
      BY <2>3, SortedList
    <3>3. records[i] \in Int /\ r \in Int /\ Place(r) \in Int /\ i \in Int
      BY <2>3, SortedList
    <3>. QED  BY <2>3, <3>1, <3>2, <3>3
  <2>. QED  BY <1>2, <2>3, <2>4
<1>. QED  BY <1>1, <1>2

\* The link of a record leads to the records that are younger.
LEMMA LinkLeads ==
  ASSUME MapInv, NEW r \in 0..Len(entry), ~Freed(r)
  PROVE  /\ LinkOf(r) \in 0..Len(entry)
         /\ \A j \in Live : j > r <=> LinkOf(r) # 0 /\ j >= LinkOf(r)
<1>1. PICK p : p = Place(r)
  OBVIOUS
<1>2. /\ p \in 0..Len(records)
      /\ \A i \in 1..Len(records) : i > p <=> records[i] > r
  BY <1>1, PlaceDivides
<1>3. ASSUME NEW j \in Live PROVE \E i \in 1..Len(records) : records[i] = j
  BY <1>3, SortedList DEF Range
<1>4. CASE p = Len(records)
  <2>1. LinkOf(r) = 0
    BY <1>1, <1>4 DEF LinkOf
  <2>2. ASSUME NEW j \in Live PROVE ~(j > r)
    <3>1. PICK i \in 1..Len(records) : records[i] = j
      BY <1>3
    <3>2. ~(i > p)
      BY <1>4, SortedList
    <3>. QED  BY <1>2, <3>1, <3>2
  <2>. QED  BY <2>1, <2>2, SortedList
<1>5. CASE p # Len(records)
  <2>0. Len(records) \in Nat
    BY SortedList
  <2>1. PICK q \in 1..Len(records) : q = p + 1
    <3>1. p + 1 \in 1..Len(records)
      BY <1>2, <1>5, <2>0
    <3>. QED  BY <3>1
  <2>2. LinkOf(r) = records[q] /\ records[q] \in 1..Len(entry)
    BY <1>1, <1>5, <2>1, SortedList DEF LinkOf
  <2>3. ASSUME NEW j \in Live PROVE j > r <=> j >= records[q]
    <3>1. PICK i \in 1..Len(records) : records[i] = j
      BY <1>3
    <3>2. i > p <=> i >= q
      BY <1>2, <2>1
    <3>3. i >= q <=> records[i] >= records[q]
      <4>1. i < q \/ i = q \/ q < i
        BY <2>1
      <4>2. /\ i < q => records[i] < records[q]
            /\ q < i => records[q] < records[i]
        BY <2>1, SortedList
      <4>3. records[i] \in Int /\ records[q] \in Int
        BY SortedList
      <4>. QED  BY <2>1, <4>1, <4>2, <4>3
    <3>. QED  BY <1>2, <3>1, <3>2, <3>3
  <2>4. LinkOf(r) # 0 /\ LinkOf(r) \in 0..Len(entry)
    BY <2>2, SortedList
  <2>. QED  BY <2>2, <2>3, <2>4
<1>. QED  BY <1>4, <1>5

\* What FirstFrom finds, when the places from i on are those of the records
\* from b on.
LEMMA FirstFound ==
  ASSUME MapInv, NEW i \in Nat, i > 0, NEW b \in Int,
         \A k \in 1..Len(records) : k >= i <=> records[k] >= b
  PROVE  FirstFrom(i) \in 0..Len(entry) /\ IsFirst(b, FirstFrom(i))
<1>. DEFINE I == {k \in i..Len(records) : ~empty(records[k])}
            mr == FirstFrom(i)
<1>1. mr = LET j == IF I # {} THEN Min(I) ELSE 0 IN IF j = 0 THEN 0 ELSE records[j]
  BY DEF FirstFrom, SelectInSubSeq
<1>2. ASSUME NEW j \in From(b) PROVE \E k \in I : records[k] = j
  <2>1. j \in Live /\ j >= b /\ ~empty(j)
    BY DEF From, Live
  <2>2. PICK k \in 1..Len(records) : records[k] = j
    BY <2>1, SortedList DEF Range
  <2>3. k \in i..Len(records)
    BY <2>1, <2>2, SortedList
  <2>. QED  BY <2>1, <2>2, <2>3
<1>3. ASSUME NEW k \in I PROVE k \in 1..Len(records) /\ records[k] \in From(b)
  <2>1. k \in 1..Len(records) /\ k >= i /\ ~empty(records[k])
    BY SortedList
  <2>. QED  BY <2>1, SortedList DEF From, Live
<1>4. I \subseteq Nat
  BY SortedList
<1>. HIDE DEF I
<1>5. CASE I = {}
  <2>1. mr = 0 /\ From(b) = {}
    BY <1>1, <1>2, <1>5
  <2>. QED  BY <2>1, SortedList DEF IsFirst
<1>6. CASE I # {}
  <2>1. \E k \in I : \A j \in I : k <= j
    BY <1>4, <1>6, NatLeast
  <2>2. Min(I) \in I /\ \A j \in I : Min(I) <= j
    BY <2>1 DEF Min
  <2>3. Min(I) \in 1..Len(records) /\ mr = records[Min(I)] /\ mr \in From(b)
    <3>1. Min(I) \in 1..Len(records) /\ records[Min(I)] \in From(b)
      BY <1>3, <2>2
    <3>2. Min(I) # 0
      BY <3>1
    <3>. QED  BY <1>1, <1>6, <3>1, <3>2
  <2>. HIDE DEF mr
  <2>4. ASSUME NEW j \in From(b) PROVE mr <= j
    <3>1. PICK k \in I : records[k] = j
      BY <1>2
    <3>2. k \in 1..Len(records) /\ Min(I) <= k
      BY <1>3, <2>2
    <3>3. CASE k = Min(I)
      BY <2>3, <3>1, <3>2, <3>3, SortedList
    <3>4. CASE Min(I) < k
      BY <2>3, <3>1, <3>2, <3>4, SortedList
    <3>. QED  BY <2>3, <3>2, <3>3, <3>4
  <2>5. mr \in 0..Len(entry)
    BY <2>3, SortedList
  <2>. QED  BY <2>3, <2>4, <2>5 DEF IsFirst, mr
<1>. QED  BY <1>5, <1>6

LEMMA FirstOfAll ==
  ASSUME MapInv
  PROVE  FirstFrom(1) \in 0..Len(entry) /\ IsFirst(1, FirstFrom(1))
<1>1. \A k \in 1..Len(records) : k >= 1 <=> records[k] >= 1
  BY SortedList
<1>. QED  BY <1>1, FirstFound

\* An iterator goes on to the first record with a key that was created after
\* the one it holds.
LEMMA FirstAfter ==
  ASSUME MapInv, NEW r \in 0..Len(entry), ~Freed(r)
  PROVE  /\ FirstFrom(Place(r) + 1) \in 0..Len(entry)
         /\ IsFirst(r + 1, FirstFrom(Place(r) + 1))
<1>1. PICK p \in 0..Len(records) : p = Place(r)
  BY PlaceDivides
<1>2. \A k \in 1..Len(records) : k > p <=> records[k] > r
  BY <1>1, PlaceDivides
<1>3. \A k \in 1..Len(records) : k >= p + 1 <=> records[k] >= r + 1
  BY <1>2, SortedList
<1>4. p + 1 \in Nat /\ p + 1 > 0 /\ r + 1 \in Int
  BY SortedList
<1>. QED  BY <1>1, <1>3, <1>4, FirstFound

\* What a saved link leads to.
LEMMA FirstAlong ==
  ASSUME MapInv, NEW r \in 0..Len(entry), ~Freed(r)
  PROVE  /\ Along(r) \in 0..Len(entry)
         /\ r # 0 => IsFirst(r, Along(r))
<1>1. CASE r = 0
  BY <1>1, SortedList DEF Along
<1>2. CASE r # 0
  <2>1. PICK p \in 1..Len(records) : p = Place(r) /\ records[p] = r
    BY <1>2, PlaceDivides
  <2>2. \A k \in 1..Len(records) : k > p <=> records[k] > r
    BY <2>1, PlaceDivides
  <2>3. ASSUME NEW k \in 1..Len(records) PROVE k >= p <=> records[k] >= r
    <3>1. k < p \/ k = p \/ p < k
      BY <2>1
    <3>2. k < p => records[k] < r
      BY <2>1, SortedList
    <3>3. records[k] \in Int /\ r \in Int
      BY SortedList
    <3>. QED  BY <2>1, <2>2, <3>1, <3>2, <3>3
  <2>4. p \in Nat /\ p > 0 /\ r \in Int
    BY <2>1
  <2>5. FirstFrom(p) \in 0..Len(entry) /\ IsFirst(r, FirstFrom(p))
    BY <2>3, <2>4, FirstFound
  <2>. QED  BY <1>2, <2>1, <2>5 DEF Along
<1>. QED  BY <1>1, <1>2

\* Letting go of a record takes it off the list when that was the last
\* reference.
LEMMA UnlinkEffect ==
  ASSUME MapInv, NEW r \in 0..Len(entry)
  PROVE  /\ Unlink(r) \in Seq(Int) /\ Increasing(Unlink(r))
         /\ Range(Unlink(r)) =
              IF r # 0 /\ ref_count[r] = 1 THEN Range(records) \ {r} ELSE Range(records)
<1>1. records \in Seq(Int) /\ Increasing(records)
  BY DEF MapInv, TypeInv
<1>. DEFINE K == Range(records) \ {r}
<1>2. /\ Filter(records, K) \in Seq(Int) /\ Increasing(Filter(records, K))
      /\ Range(Filter(records, K)) = Range(records) \cap K
  BY <1>1, FilterEmbeds, FilterIncreasing, RangeOfFilter
<1>. QED  BY <1>1, <1>2 DEF Unlink

LEMMA CreateKeeps ==
  ASSUME MapInv, NEW w \in Walkers, CreateIterator(w)
  PROVE  MapInv'
<1>1. /\ walking \in [Walkers -> BOOLEAN] /\ cur_record \in [Walkers -> 0..Len(entry)]
      /\ ~walking[w]
      /\ walking' = [walking EXCEPT ![w] = TRUE] /\ cur_record' = [cur_record EXCEPT ![w] = 0]
      /\ UNCHANGED <<records, entry, ref_count, record_count, between>>
      /\ Len(entry) \in Nat /\ DOMAIN entry = 1..Len(entry)
  BY Lengths DEF MapInv, TypeInv, CreateIterator, listVars, linkVars
<1>2. TypeInv'
  BY <1>1 DEF MapInv, TypeInv
<1>3. \A r \in DOMAIN entry : Holders(r)' = Holders(r)
  BY <1>1 DEF Holders
<1>4. RefsExact'
  BY <1>1, <1>3 DEF MapInv, RefsExact, empty
<1>. QED  BY <1>1, <1>2, <1>4 DEF MapInv

\* The reference that w has to cur, if any, goes, and it gets one to mr, if any.
LEMMA MoveKeeps ==
  ASSUME MapInv, NEW w \in Walkers, NEW cur \in 0..Len(entry), NEW mr \in 0..Len(entry),
         mr = 0 \/ (mr \in Live /\ mr # cur),
         records' = Unlink(cur),
         ref_count' = [r \in DOMAIN ref_count |->
           Decref(ref_count, cur)[r] + (IF r = mr THEN 1 ELSE 0)],
         walking' \in [Walkers -> BOOLEAN], cur_record' \in [Walkers -> 0..Len(entry)],
         \A r \in DOMAIN entry : w \in Holders(r) <=> r = cur,
         \A r \in DOMAIN entry :
           Holders(r)' = IF r = mr THEN Holders(r) \cup {w} ELSE Holders(r) \ {w},
         UNCHANGED <<entry, record_count>>
  PROVE  MapInv'
<1>0. PICK n \in Nat : n = Len(entry)
  BY Lengths DEF MapInv
<1>1. /\ DOMAIN entry = 1..n /\ ref_count \in [1..n -> Int] /\ DOMAIN ref_count = 1..n
      /\ mr \in 0..n /\ cur \in 0..n
  BY <1>0, Lengths DEF MapInv, TypeInv
<1>4. ref_count' = [r \in 1..n |-> (IF r = cur THEN ref_count[r] - 1 ELSE ref_count[r])
                                   + (IF r = mr THEN 1 ELSE 0)]
  BY <1>1 DEF Decref
<1>5. ref_count' \in [1..n -> Int]
  BY <1>1, <1>4
<1>6. ref_count' \in Seq(Int) /\ Len(ref_count') = n
  BY <1>5, FunctionIsSeq
<1>7. /\ records' \in Seq(Int) /\ Increasing(records')
      /\ Range(records') = IF cur # 0 /\ ref_count[cur] = 1 THEN Range(records) \ {cur}
                           ELSE Range(records)
  BY <1>0, <1>1, UnlinkEffect
<1>9. TypeInv'
  BY <1>0, <1>6, <1>7 DEF MapInv, TypeInv
<1>10. ASSUME NEW r \in 1..n
       PROVE  Holders(r)' = IF r = mr THEN Holders(r) \cup {w} ELSE Holders(r) \ {w}
  BY <1>1
<1>11. ASSUME NEW r \in 1..n PROVE w \in Holders(r) <=> r = cur
  BY <1>1
<1>12. ASSUME NEW r \in 1..n
       PROVE  /\ Cardinality(Holders(r)) \in Nat
              /\ Cardinality(Holders(r)') = Cardinality(Holders(r))
                   - (IF r = cur THEN 1 ELSE 0) + (IF r = mr THEN 1 ELSE 0)
  <2>1. IsFiniteSet(Holders(r)) /\ Cardinality(Holders(r)) \in Nat
    BY WalksFinite DEF Holders
  <2>2. CASE r = mr
    <3>1. r # cur /\ w \notin Holders(r) /\ Holders(r)' = Holders(r) \cup {w}
      BY <1>1, <1>10, <1>11, <2>2
    <3>2. Cardinality(Holders(r)') = Cardinality(Holders(r)) + 1
      BY <2>1, <3>1, FS_AddElement
    <3>. QED  BY <2>1, <2>2, <3>1, <3>2
  <2>3. CASE r # mr
    <3>1. Holders(r)' = Holders(r) \ {w}
      BY <1>10, <2>3
    <3>2. Cardinality(Holders(r)') =
            IF r = cur THEN Cardinality(Holders(r)) - 1 ELSE Cardinality(Holders(r))
      <4>1. Cardinality(Holders(r) \ {w}) =
              IF w \in Holders(r) THEN Cardinality(Holders(r)) - 1 ELSE Cardinality(Holders(r))
        BY <2>1, FS_RemoveElement
      <4>2. w \in Holders(r) <=> r = cur
        BY <1>11
      <4>. QED  BY <3>1, <4>1, <4>2
    <3>. QED  BY <2>1, <2>3, <3>2
  <2>. QED  BY <2>2, <2>3
<1>13. ASSUME NEW r \in 1..n
       PROVE  /\ ref_count[r] = (IF empty(r) THEN 0 ELSE 1) + Cardinality(Holders(r))
              /\ ref_count'[r] = (IF empty(r)' THEN 0 ELSE 1) + Cardinality(Holders(r)')
  <2>1. ref_count[r] = (IF empty(r) THEN 0 ELSE 1) + Cardinality(Holders(r))
    BY <1>1 DEF MapInv, RefsExact
  <2>2. empty(r)' <=> empty(r)
    BY DEF empty
  <2>3. ref_count[r] \in Int
        /\ ref_count'[r] = (IF r = cur THEN ref_count[r] - 1 ELSE ref_count[r])
                           + (IF r = mr THEN 1 ELSE 0)
    BY <1>1, <1>4
  <2>4. /\ Cardinality(Holders(r)) \in Nat
        /\ Cardinality(Holders(r)') = Cardinality(Holders(r))
             - (IF r = cur THEN 1 ELSE 0) + (IF r = mr THEN 1 ELSE 0)
    BY <1>12
  <2>5. CASE empty(r)
    BY <2>1, <2>2, <2>3, <2>4, <2>5
  <2>6. CASE ~empty(r)
    BY <2>1, <2>2, <2>3, <2>4, <2>6
  <2>. QED  BY <2>5, <2>6
<1>14. Range(records') = {r \in 1..n : ref_count'[r] > 0}
  <2>1. Range(records) = {r \in 1..n : ref_count[r] > 0}
    BY <1>1 DEF MapInv, RefsExact
  <2>2. mr = 0 \/ (ref_count[mr] > 0 /\ mr # cur)
    BY <1>1, <2>1, KeptInList
  <2>3. \A r \in 1..n : /\ ref_count[r] \in Int
                        /\ ref_count'[r] = (IF r = cur THEN ref_count[r] - 1 ELSE ref_count[r])
                                           + (IF r = mr THEN 1 ELSE 0)
    BY <1>1, <1>4
  <2>4. cur # 0 => cur \in 1..n /\ ref_count[cur] > 0
    <3>. SUFFICES ASSUME cur # 0 PROVE cur \in 1..n /\ cur \in Range(records)
      BY <2>1
    <3>0. cur \in 1..n
      BY <1>1
    <3>1. Holders(cur) # {}
      BY <1>11, <3>0
    <3>. QED  BY <1>1, <3>0, <3>1, KeptInList
  <2>5. ASSUME NEW r \in 1..n PROVE ref_count'[r] > 0 <=> r \in Range(records')
    <3>1. /\ ref_count[r] \in Int
          /\ ref_count'[r] = (IF r = cur THEN ref_count[r] - 1 ELSE ref_count[r])
                             + (IF r = mr THEN 1 ELSE 0)
          /\ r \in Range(records) <=> ref_count[r] > 0
      BY <2>1, <2>3
    <3>2. CASE r = mr
      <4>1. ref_count[r] > 0 /\ r # cur
        BY <2>2, <3>2
      <4>2. ref_count'[r] > 0
        BY <3>1, <3>2, <4>1
      <4>3. r \in Range(records')
        BY <1>7, <3>1, <4>1
      <4>. QED  BY <4>2, <4>3
    <3>3. CASE r # mr /\ r = cur
      <4>1. cur # 0 /\ ref_count[cur] > 0
        BY <2>4, <3>3
      <4>2. ref_count'[r] = ref_count[r] - 1
        BY <3>1, <3>3
      <4>3. r \in Range(records') <=> ref_count[cur] # 1
        BY <1>7, <3>1, <3>3, <4>1
      <4>4. PICK c \in Int : c = ref_count[cur] /\ c = ref_count[r] /\ c > 0
        BY <3>1, <3>3, <4>1
      <4>5. (r \in Range(records') <=> c # 1) /\ ref_count'[r] = c - 1
        BY <4>2, <4>3, <4>4
      <4>. QED  BY <4>4, <4>5
    <3>4. CASE r # mr /\ r # cur
      <4>1. ref_count'[r] = ref_count[r]
        BY <3>1, <3>4
      <4>2. r \in Range(records') <=> r \in Range(records)
        BY <1>7, <3>4
      <4>. QED  BY <3>1, <4>1, <4>2
    <3>. QED  BY <3>2, <3>3, <3>4
  <2>6. Range(records') \subseteq 1..n
    BY <1>7, <2>1
  <2>. QED  BY <2>5, <2>6
<1>15. {r \in DOMAIN entry' : ~empty(r)'} = {r \in DOMAIN entry : ~empty(r)}
  BY DEF empty
<1>16. RefsExact'
  BY <1>1, <1>13, <1>14, <1>15 DEF MapInv, RefsExact
<1>. QED  BY <1>7, <1>9, <1>16 DEF MapInv

\* A walk that holds a record is at one that is in the list.
LEMMA HeldIsListed ==
  ASSUME MapInv, NEW w \in Walkers, w \notin between, walking[w]
  PROVE  /\ cur_record[w] \in 0..Len(entry) /\ ~Freed(cur_record[w])
         /\ \A r \in DOMAIN entry : w \in Holders(r) <=> r = cur_record[w]
<1>1. cur_record[w] \in 0..Len(entry)
  BY DEF MapInv, TypeInv
<1>2. \A r \in DOMAIN entry : w \in Holders(r) <=> r = cur_record[w]
  BY DEF Holders
<1>3. cur_record[w] # 0 => cur_record[w] \in Range(records)
  <2>. SUFFICES ASSUME cur_record[w] # 0 PROVE cur_record[w] \in Range(records)
    OBVIOUS
  <2>1. cur_record[w] \in DOMAIN entry
    BY <1>1, SortedList
  <2>2. Holders(cur_record[w]) # {}
    BY <1>2, <2>1
  <2>. QED  BY <2>1, <2>2, KeptInList
<1>. QED  BY <1>1, <1>2, <1>3 DEF Freed

LEMMA MoveTypes ==
  ASSUME MapInv, NEW w \in Walkers, NEW cur, NEW mr \in 0..Len(entry), Move(w, cur, mr)
  PROVE  /\ walking' \in [Walkers -> BOOLEAN] /\ cur_record' \in [Walkers -> 0..Len(entry)]
         /\ walking'[w] = (mr # 0) /\ cur_record'[w] = mr
         /\ \A u \in Walkers : u # w => walking'[u] = walking[u] /\ cur_record'[u] = cur_record[u]
         /\ entry' = entry /\ record_count' = record_count
BY DEF MapInv, TypeInv, Move

\* A walk moves from the record it holds.
LEMMA MovesOn ==
  ASSUME MapInv, NEW w \in Walkers, w \notin between, walking[w], NEW mr \in 0..Len(entry),
         mr = 0 \/ (mr \in Live /\ mr # cur_record[w]),
         Move(w, cur_record[w], mr), UNCHANGED between
  PROVE  MapInv'
<1>1. PICK cur \in 0..Len(entry) : cur = cur_record[w]
  BY HeldIsListed
<1>2. \A r \in DOMAIN entry : w \in Holders(r) <=> r = cur
  BY <1>1, HeldIsListed
<1>3. Move(w, cur, mr)
  BY <1>1
<1>4. ASSUME NEW r \in DOMAIN entry
      PROVE  Holders(r)' = IF r = mr THEN Holders(r) \cup {w} ELSE Holders(r) \ {w}
  <2>1. r # 0
    BY SortedList
  <2>. QED  BY <1>3, <2>1, MoveTypes DEF Holders
<1>5. /\ records' = Unlink(cur)
      /\ ref_count' = [r \in DOMAIN ref_count |->
           Decref(ref_count, cur)[r] + (IF r = mr THEN 1 ELSE 0)]
  BY <1>3 DEF Move
<1>. QED  BY <1>1, <1>2, <1>3, <1>4, <1>5, MoveTypes, MoveKeeps

\* A forEach that holds nothing gets to a record.
LEMMA Arrives ==
  ASSUME MapInv, NEW w \in Walkers, between \subseteq {w}, between' = {},
         w \in between \/ ~walking[w], NEW mr \in 0..Len(entry), mr = 0 \/ mr \in Live,
         Move(w, 0, mr)
  PROVE  MapInv'
<1>1. 0 \in 0..Len(entry) /\ 0 \notin DOMAIN entry
  BY SortedList
<1>2. \A r \in DOMAIN entry : w \in Holders(r) <=> r = 0
  BY <1>1 DEF Holders
<1>3. ASSUME NEW r \in DOMAIN entry
      PROVE  Holders(r)' = IF r = mr THEN Holders(r) \cup {w} ELSE Holders(r) \ {w}
  <2>1. r # 0
    BY <1>1
  <2>2. \A u \in Walkers : u # w => u \notin between /\ u \notin between'
    OBVIOUS
  <2>3. w \notin between'
    OBVIOUS
  <2>. QED  BY <2>1, <2>2, <2>3, MoveTypes DEF Holders
<1>4. /\ records' = Unlink(0)
      /\ ref_count' = [r \in DOMAIN ref_count |->
           Decref(ref_count, 0)[r] + (IF r = mr THEN 1 ELSE 0)]
  BY DEF Move
<1>5. mr = 0 \/ (mr \in Live /\ mr # 0)
  OBVIOUS
<1>. QED  BY <1>1, <1>2, <1>3, <1>4, <1>5, MoveTypes, MoveKeeps

\* A forEach lets go of its record and is between two.
LEMMA ReturnsKeeps ==
  ASSUME MapInv, NEW w \in Walkers, ForEachReturns(w)
  PROVE  MapInv'
<1>1. /\ between = {} /\ between' = {w} /\ walking[w]
      /\ UNCHANGED <<entry, record_count, walking, cur_record>>
  BY DEF ForEachReturns, Running, walkVars
<1>2. PICK cur \in 0..Len(entry) : cur = cur_record[w]
  BY <1>1, HeldIsListed
<1>3. \A r \in DOMAIN entry : w \in Holders(r) <=> r = cur
  BY <1>1, <1>2, HeldIsListed
<1>4. ASSUME NEW r \in DOMAIN entry
      PROVE  Holders(r)' = IF r = 0 THEN Holders(r) \cup {w} ELSE Holders(r) \ {w}
  <2>1. r # 0
    BY SortedList
  <2>. QED  BY <1>1, <2>1 DEF Holders
<1>5. /\ DOMAIN ref_count = 1..Len(entry) /\ ref_count \in [1..Len(entry) -> Int]
      /\ Len(entry) \in Nat
  BY Lengths DEF MapInv
<1>6. /\ records' = Unlink(cur)
      /\ ref_count' = [r \in DOMAIN ref_count |->
           Decref(ref_count, cur)[r] + (IF r = 0 THEN 1 ELSE 0)]
  BY <1>2, <1>5 DEF ForEachReturns, Decref
<1>7. /\ walking' \in [Walkers -> BOOLEAN] /\ cur_record' \in [Walkers -> 0..Len(entry)]
      /\ 0 \in 0..Len(entry)
  BY <1>1, <1>5 DEF MapInv, TypeInv
<1>. QED  BY <1>1, <1>2, <1>3, <1>4, <1>6, <1>7, MoveKeeps

LEMMA NextMoves ==
  ASSUME MapInv, NEW w \in Walkers, IteratorNext(w)
  PROVE  \E mr \in 0..Len(entry) :
           /\ Move(w, cur_record[w], mr) /\ IsFirst(cur_record[w] + 1, mr)
           /\ mr = 0 \/ (mr \in Live /\ mr # cur_record[w])
<1>1. w \notin between /\ walking[w]
  BY DEF IteratorNext, Running
<1>2. PICK cur \in 0..Len(entry) : cur = cur_record[w] /\ ~Freed(cur)
  BY <1>1, HeldIsListed
<1>3. PICK mr \in 0..Len(entry) : mr = FirstFrom(Place(cur) + 1) /\ IsFirst(cur + 1, mr)
  BY <1>2, FirstAfter
<1>4. mr = 0 \/ (mr \in Live /\ mr # cur)
  BY <1>2, <1>3, SortedList DEF IsFirst, From
<1>. QED  BY <1>2, <1>3, <1>4 DEF IteratorNext

\* The record that clear deletes is the oldest that has a key.
LEMMA ClearKeeps ==
  ASSUME MapInv, NEW r \in 0..Len(entry), NEW b \in Int, IsFirst(b, r), ClearRecord(r)
  PROVE  MapInv' /\ r \in Live
<1>1. r \in Live /\ DeleteRecords({r}) /\ UNCHANGED between
  BY DEF ClearRecord, IsFirst, From
<1>. QED  BY <1>1, DeleteKeeps

LEMMA MapInvInit == Init => Inv
<1>. SUFFICES ASSUME Init PROVE Inv
  OBVIOUS
<1>1. Len(<<>>) = 0 /\ Range(<<>>) = {} /\ DOMAIN <<>> = {}
  BY DEF Range
<1>2. TypeInv
  BY <1>1 DEF Init, TypeInv
<1>3. Increasing(records)
  BY <1>1 DEF Init, Increasing
<1>4. RefsExact
  BY <1>1, FS_EmptySet DEF Init, RefsExact
<1>5. LinkInv
  <2>1. Live = {} /\ Len(entry) = 0
    BY <1>1 DEF Init, Live
  <2>2. between = {} /\ clearing = FALSE /\ el = 0
    BY DEF Init
  <2>3. el \in 0..Len(entry)
    BY <2>1, <2>2
  <2>4. between \subseteq ForEachs /\ \A w : w \notin between
    BY <2>2
  <2>5. clearing \in BOOLEAN /\ ~clearing
    BY <2>2
  <2>. QED  BY <2>3, <2>4, <2>5 DEF LinkInv
<1>. QED  BY <1>2, <1>3, <1>4, <1>5 DEF MapInv, Inv

(***************************************************************************)
(* Saved links.                                                            *)
(***************************************************************************)
\* While a script runs no link is saved that anybody will follow.
LEMMA QuietLink ==
  ASSUME Inv, MapInv', Running, UNCHANGED linkVars, Len(entry') >= Len(entry)
  PROVE  LinkInv'
<1>1. Len(entry) \in Nat /\ Len(entry') \in Nat
  BY Lengths DEF Inv, MapInv
<1>2. /\ between' = {} /\ clearing' = FALSE /\ el' = el /\ el \in 0..Len(entry)
  BY DEF Inv, LinkInv, Running, linkVars
<1>3. el' \in 0..Len(entry')
  BY <1>1, <1>2
<1>. QED  BY <1>2, <1>3 DEF LinkInv

\* An iterator may go at any time: the link stays, and so do the keys.
LEMMA AbandonLink ==
  ASSUME Inv, NEW w \in Iterators, Abandon(w)
  PROVE  LinkInv'
<1>1. /\ entry' = entry /\ UNCHANGED linkVars /\ w \in Walkers /\ w \notin ForEachs
      /\ walking' = [walking EXCEPT ![w] = FALSE]
      /\ cur_record' = [cur_record EXCEPT ![w] = 0]
      /\ walking \in [Walkers -> BOOLEAN] /\ cur_record \in [Walkers -> 0..Len(entry)]
  BY MapConstants DEF Abandon, Move, Walkers, Inv, MapInv, TypeInv
<1>2. Live' = Live
  BY <1>1 DEF Live, empty
<1>3. \A u \in between : walking'[u] = walking[u] /\ cur_record'[u] = cur_record[u]
  BY <1>1 DEF Inv, LinkInv, Walkers
<1>. QED  BY <1>1, <1>2, <1>3 DEF Inv, LinkInv, linkVars

LEMMA ClearLink ==
  ASSUME Inv, NEW r \in 0..Len(entry), NEW b \in Int, IsFirst(b, r),
         \A j \in Live : j >= b, between = {}, ClearRecord(r)
  PROVE  LinkInv' /\ Live' = Live \ {r}
<1>1. r \in Live /\ \A j \in Live : r <= j
  BY DEF ClearRecord, IsFirst, From
<1>2. /\ entry' = [j \in DOMAIN entry |-> IF j \in {r} THEN Gone ELSE entry[j]]
      /\ el' = LinkOf(r) /\ clearing' = TRUE /\ between' = {}
  BY DEF ClearRecord, DeleteRecords
<1>3. Live' = Live \ {r} /\ Len(entry') = Len(entry)
  <2>1. Len(entry) \in Nat /\ DOMAIN entry = 1..Len(entry)
    BY Lengths DEF Inv, MapInv
  <2>2. DOMAIN entry' = DOMAIN entry
    BY <1>2
  <2>3. Len(entry') = Len(entry)
    <3>1. entry' \in Seq(Entry)
      BY <1>1, ClearKeeps DEF Inv, MapInv, TypeInv
    <3>2. DOMAIN entry' = 1..Len(entry') /\ Len(entry') \in Nat
      BY <3>1, LenProperties
    <3>. QED  BY <2>1, <2>2, <3>2
  <2>4. \A j \in DOMAIN entry : empty(j)' <=> empty(j) \/ j = r
    BY <1>2 DEF empty
  <2>. QED  BY <2>2, <2>3, <2>4 DEF Live
<1>4. ~Freed(r)
  BY <1>1, SortedList DEF Freed, Inv
<1>5. /\ LinkOf(r) \in 0..Len(entry)
      /\ \A j \in Live : j > r <=> LinkOf(r) # 0 /\ j >= LinkOf(r)
  BY <1>4, LinkLeads DEF Inv
<1>6. \A j \in Live \ {r} : j > r
  BY <1>1, SortedList DEF Live, Inv
<1>7. \A j \in Live' : el' # 0 /\ j >= el'
  BY <1>2, <1>3, <1>5, <1>6
<1>. QED  BY <1>2, <1>3, <1>5, <1>7 DEF LinkInv

LEMMA ReturnsLink ==
  ASSUME Inv, NEW w \in ForEachs, ForEachReturns(w)
  PROVE  LinkInv'
<1>1. /\ between = {} /\ between' = {w} /\ walking[w] /\ clearing' = FALSE
      /\ UNCHANGED <<entry, walking, cur_record>> /\ el' = LinkOf(cur_record[w])
      /\ w \in Walkers
  BY DEF ForEachReturns, Running, walkVars, Walkers
<1>2. cur_record[w] \in 0..Len(entry) /\ ~Freed(cur_record[w])
  BY <1>1, HeldIsListed DEF Inv
<1>3. /\ el' \in 0..Len(entry)
      /\ \A j \in Live : j > cur_record[w] <=> el' # 0 /\ j >= el'
  BY <1>1, <1>2, LinkLeads DEF Inv
<1>4. Live' = Live
  BY <1>1 DEF Live, empty
<1>. QED  BY <1>1, <1>3, <1>4 DEF LinkInv

(***************************************************************************)
(* The steps.                                                              *)
(***************************************************************************)
\* What clear and forEach find where their link leads.
LEMMA AlongFinds ==
  ASSUME Inv, ~Freed(el)
  PROVE  /\ Along(el) \in 0..Len(entry)
         /\ el # 0 => IsFirst(el, Along(el))
         /\ el = 0 => Along(el) = 0
         /\ Along(el) = 0 \/ Along(el) \in Live
<1>1. el \in 0..Len(entry)
  BY DEF Inv, LinkInv
<1>2. Along(el) \in 0..Len(entry) /\ (el # 0 => IsFirst(el, Along(el)))
  BY <1>1, FirstAlong DEF Inv
<1>3. el = 0 => Along(el) = 0
  BY DEF Along
<1>. QED  BY <1>2, <1>3 DEF IsFirst, From

LEMMA ClearNextFinds ==
  ASSUME Inv, ClearNext
  PROVE  /\ el \in Int /\ IsFirst(el, Along(el)) /\ Along(el) \in 0..Len(entry)
         /\ \A j \in Live : j >= el
         /\ between = {} /\ ClearRecord(Along(el)) /\ clearing
<1>1. ~Freed(el) /\ ClearRecord(Along(el)) /\ clearing /\ Along(el) # 0
  BY DEF ClearNext, ClearRecord
<1>2. el # 0
  BY <1>1, AlongFinds
<1>3. el \in Int
  BY DEF Inv, LinkInv
<1>. QED  BY <1>1, <1>2, <1>3, AlongFinds DEF Inv, LinkInv

LEMMA MapClearFinds ==
  ASSUME Inv, MapClear
  PROVE  /\ IsFirst(1, FirstFrom(1)) /\ FirstFrom(1) \in 0..Len(entry)
         /\ \A j \in Live : j >= 1
         /\ between = {} /\ ClearRecord(FirstFrom(1)) /\ ~clearing
<1>1. \A j \in Live : j >= 1
  BY SortedList DEF Live, Inv
<1>. QED  BY <1>1, FirstOfAll DEF MapClear, Running, Inv

\* Before and after a forEach follows its link it holds nothing else.
LEMMA ForEachFinds ==
  ASSUME Inv, NEW w \in ForEachs, ForEachNext(w)
  PROVE  /\ w \in Walkers /\ between = {w} /\ between' = {} /\ walking[w] /\ ~clearing
         /\ clearing' = clearing /\ el' = 0
         /\ Along(el) \in 0..Len(entry) /\ (Along(el) = 0 \/ Along(el) \in Live)
         /\ Move(w, 0, Along(el))
BY AlongFinds DEF ForEachNext, Inv, LinkInv, Walkers

LEMMA MapInvNext == Inv /\ [Next]_vars => Inv'
<1>. SUFFICES ASSUME Inv, [Next]_vars PROVE Inv'
  OBVIOUS
<1>. USE DEF Inv
<1>0. Len(entry) \in Nat /\ DOMAIN entry = 1..Len(entry) /\ 0 \in 0..Len(entry)
  BY SortedList
<1>1. ASSUME NEW k \in Keys, NEW v \in Values, MapSet(k, v) PROVE Inv'
  <2>1. MapInv'
    BY <1>1, SetKeeps
  <2>2. Len(entry') >= Len(entry)
    <3>1. CASE WithKey(k) # {}
      <4>1. DOMAIN entry' = DOMAIN entry
        BY <1>1, <3>1 DEF MapSet
      <4>2. DOMAIN entry' = 1..Len(entry') /\ Len(entry') \in Nat
        BY <2>1, Lengths DEF MapInv
      <4>. QED  BY <1>0, <4>1, <4>2
    <3>2. CASE WithKey(k) = {}
      <4>1. entry' = Append(entry, <<k, v>>) /\ entry \in Seq(Entry) /\ <<k, v>> \in Entry
        BY <1>1, <3>2 DEF MapSet, MapInv, TypeInv, Entry
      <4>2. Len(entry') = Len(entry) + 1
        BY <4>1, AppendProperties
      <4>. QED  BY <1>0, <4>2
    <3>. QED  BY <3>1, <3>2
  <2>. QED  BY <1>1, <2>1, <2>2, QuietLink DEF MapSet, linkVars
<1>2. ASSUME NEW k \in Keys, MapDelete(k) PROVE Inv'
  <2>1. WithKey(k) \subseteq Live
    BY KeptInList
  <2>2. MapInv'
    BY <1>2, <2>1, DeleteKeeps DEF MapDelete, linkVars
  <2>3. DOMAIN entry' = DOMAIN entry
    BY <1>2 DEF MapDelete, DeleteRecords
  <2>4. DOMAIN entry' = 1..Len(entry') /\ Len(entry') \in Nat
    BY <2>2, Lengths DEF MapInv
  <2>5. Len(entry') >= Len(entry)
    BY <1>0, <2>3, <2>4
  <2>. QED  BY <1>2, <2>2, <2>5, QuietLink DEF MapDelete
<1>3. CASE MapClear
  BY <1>3, MapClearFinds, ClearKeeps, ClearLink
<1>4. CASE ClearNext
  BY <1>4, ClearNextFinds, ClearKeeps, ClearLink
<1>5. CASE ClearEnds
  <2>1. /\ UNCHANGED <<records, entry, ref_count, record_count, walking, cur_record, between>>
        /\ el' = 0 /\ clearing' = FALSE /\ between = {}
    BY <1>5 DEF ClearEnds, listVars, walkVars, LinkInv
  <2>2. MapInv'
    BY <2>1 DEF MapInv, TypeInv, Increasing, RefsExact, empty, Holders
  <2>3. LinkInv'
    BY <1>0, <2>1 DEF LinkInv
  <2>. QED  BY <2>2, <2>3
<1>6. CASE FollowFreed \/ UNCHANGED vars
  <2>1. UNCHANGED <<records, entry, ref_count, record_count, walking, cur_record, between,
                    clearing, el>>
    BY <1>6 DEF FollowFreed, vars, listVars, walkVars, linkVars
  <2>2. MapInv'
    BY <2>1 DEF MapInv, TypeInv, Increasing, RefsExact, empty, Holders
  <2>3. Live' = Live
    BY <2>1 DEF Live, empty
  <2>4. LinkInv'
    BY <2>1, <2>3 DEF LinkInv
  <2>. QED  BY <2>2, <2>4
<1>7. ASSUME NEW w \in Iterators, CreateIterator(w) PROVE Inv'
  <2>1. w \in Walkers
    BY DEF Walkers
  <2>2. MapInv'
    BY <1>7, <2>1, CreateKeeps
  <2>3. Len(entry') >= Len(entry)
    BY <1>0, <1>7 DEF CreateIterator, listVars
  <2>. QED  BY <1>7, <2>2, <2>3, QuietLink DEF CreateIterator
<1>8. ASSUME NEW w \in Iterators, IteratorNext(w) PROVE Inv'
  <2>1. w \in Walkers /\ w \notin between /\ walking[w] /\ UNCHANGED linkVars /\ Running
    BY <1>8 DEF IteratorNext, Walkers, Running
  <2>2. PICK mr \in 0..Len(entry) : /\ Move(w, cur_record[w], mr)
                                    /\ mr = 0 \/ (mr \in Live /\ mr # cur_record[w])
    BY <1>8, <2>1, NextMoves
  <2>3. MapInv'
    BY <2>1, <2>2, MovesOn DEF linkVars
  <2>4. Len(entry') >= Len(entry)
    BY <1>0, <2>2 DEF Move
  <2>. QED  BY <2>1, <2>3, <2>4, QuietLink
<1>9. ASSUME NEW w \in Walkers, Abandon(w), w \notin between PROVE MapInv'
  BY <1>0, <1>9, MovesOn DEF Abandon, linkVars
<1>10. ASSUME NEW w \in Iterators, Abandon(w) PROVE Inv'
  <2>1. w \in Walkers /\ w \notin between
    BY MapConstants DEF LinkInv, Walkers
  <2>. QED  BY <1>9, <1>10, <2>1, AbandonLink
<1>11. ASSUME NEW w \in ForEachs, ForEachThrows(w) PROVE Inv'
  <2>1. w \in Walkers /\ w \notin between /\ Abandon(w) /\ Running
    BY <1>11 DEF ForEachThrows, Running, Walkers
  <2>2. Len(entry') >= Len(entry)
    BY <1>0, <2>1 DEF Abandon, Move
  <2>. QED  BY <1>9, <2>1, <2>2, QuietLink DEF Abandon
<1>12. ASSUME NEW w \in ForEachs, ForEach(w) PROVE Inv'
  <2>1. /\ w \in Walkers /\ between = {} /\ between' = {} /\ ~walking[w] /\ Running
        /\ UNCHANGED linkVars /\ Move(w, 0, FirstFrom(1))
    BY <1>12 DEF ForEach, Running, Walkers, linkVars
  <2>2. FirstFrom(1) \in 0..Len(entry) /\ (FirstFrom(1) = 0 \/ FirstFrom(1) \in Live)
    BY FirstOfAll DEF IsFirst, From
  <2>3. MapInv'
    BY <2>1, <2>2, Arrives
  <2>4. Len(entry') >= Len(entry)
    BY <1>0, <2>1 DEF Move
  <2>. QED  BY <2>1, <2>3, <2>4, QuietLink
<1>13. ASSUME NEW w \in ForEachs, ForEachReturns(w) PROVE Inv'
  BY <1>13, ReturnsKeeps, ReturnsLink DEF Walkers
<1>14. ASSUME NEW w \in ForEachs, ForEachNext(w) PROVE Inv'
  <2>1. MapInv'
    BY <1>14, ForEachFinds, Arrives
  <2>2. entry' = entry
    BY <1>14 DEF ForEachNext, Move
  <2>3. LinkInv'
    BY <1>0, <1>14, <2>2, ForEachFinds DEF LinkInv
  <2>. QED  BY <2>1, <2>3
<1>. QED  BY <1>1, <1>2, <1>3, <1>4, <1>5, <1>6, <1>7, <1>8, <1>10, <1>11, <1>12, <1>13,
             <1>14 DEF Next

\* Reference counts are exact however deletions, insertions and any number of
\* walks interleave, also while forEach or clear frees values between two
\* records: map_decref_record never meets a freed record, a zombie leaves the
\* list with its last walk, and the size counts the keys. Of the links that
\* those two save it says nothing.
THEOREM RefsAlwaysExact == Spec => []RefsExact
<1>1. Inv => RefsExact
  BY DEF Inv, MapInv
<1>. QED  BY <1>1, MapInvInit, MapInvNext, PTL DEF Spec

(***************************************************************************)
(* Refinement: the list of records is an OrderedMap.                       *)
(***************************************************************************)
\* Where the refinement mapping puts the walks, and what it shows of the map.
Places == [w \in Walkers |-> IF walking[w] THEN cur_record[w] ELSE -1]
Shown  == IF clearing THEN [r \in DOMAIN entry |-> Gone] ELSE entry

\* The key of a record that the hash table finds is the key of an entry.
LEMMA HoldsKey ==
  ASSUME MapInv, ~clearing, NEW k
  PROVE  WithKey(k) = {r \in DOMAIN entry : Abstract!Holds(r, k)}
BY KeptInList DEF Live, empty, Abstract!Holds

LEMMA SetPuts ==
  ASSUME MapInv, NEW k \in Keys, NEW v \in Values, MapSet(k, v)
  PROVE  Abstract!Put(k, v)
<1>1. UNCHANGED Places /\ ~clearing /\ ~clearing'
  BY DEF MapSet, Places, walkVars, linkVars, Running
<1>2. CASE WithKey(k) # {}
  <2>1. entry' = [i \in DOMAIN entry |-> IF Abstract!Holds(i, k) THEN <<k, v>> ELSE entry[i]]
    BY <1>1, <1>2, HoldsKey DEF MapSet
  <2>2. \E i \in DOMAIN entry : Abstract!Holds(i, k)
    BY <1>1, <1>2, HoldsKey
  <2>. QED  BY <1>1, <2>1, <2>2 DEF Abstract!Put, Places
<1>3. CASE WithKey(k) = {}
  <2>1. ~\E i \in DOMAIN entry : Abstract!Holds(i, k)
    BY <1>1, <1>3, HoldsKey
  <2>. QED  BY <1>1, <1>3, <2>1 DEF Abstract!Put, Places, MapSet
<1>. QED  BY <1>2, <1>3

LEMMA DeleteRemoves ==
  ASSUME MapInv, NEW k \in Keys, MapDelete(k)
  PROVE  Abstract!Remove(k)
<1>1. UNCHANGED Places /\ ~clearing /\ ~clearing'
  BY DEF MapDelete, DeleteRecords, Places, walkVars, linkVars, Running
<1>2. entry' = [i \in DOMAIN entry |-> IF Abstract!Holds(i, k) THEN Gone ELSE entry[i]]
  BY <1>1, HoldsKey DEF MapDelete, DeleteRecords
<1>. QED  BY <1>1, <1>2 DEF Abstract!Remove, Places

\* The first record that clear deletes stands for the whole of it, and the
\* others change nothing that scripts see.
LEMMA ClearEmpties ==
  ASSUME Inv, NEW r, ClearRecord(r)
  PROVE  /\ UNCHANGED Places /\ clearing'
         /\ Shown' = [j \in DOMAIN entry |-> Gone]
<1>1. UNCHANGED Places /\ clearing' = TRUE
  BY DEF ClearRecord, DeleteRecords, Places, walkVars
<1>2. DOMAIN entry' = DOMAIN entry
  BY DEF ClearRecord, DeleteRecords
<1>. QED  BY <1>1, <1>2 DEF Shown

LEMMA ClearShows ==
  ASSUME Inv, MapClear \/ ClearNext \/ ClearEnds
  PROVE  Abstract!Next \/ UNCHANGED Abstract!vars
<1>1. CASE MapClear
  <2>1. UNCHANGED Places /\ Shown' = [j \in DOMAIN entry |-> Gone] /\ ~clearing
    BY <1>1, MapClearFinds, ClearEmpties
  <2>2. Shown = entry
    BY <2>1 DEF Shown
  <2>3. Abstract!Empty
    BY <2>1, <2>2 DEF Abstract!Empty, Places, Shown
  <2>. QED  BY <2>3 DEF Abstract!Next
<1>2. CASE ClearNext
  <2>1. UNCHANGED Places /\ Shown' = [j \in DOMAIN entry |-> Gone] /\ clearing
    BY <1>2, ClearNextFinds, ClearEmpties
  <2>2. Shown = [j \in DOMAIN entry |-> Gone]
    BY <2>1 DEF Shown
  <2>. QED  BY <2>1, <2>2 DEF Abstract!vars, Places, Shown
<1>3. CASE ClearEnds
  <2>1. /\ clearing /\ ~Freed(el) /\ Along(el) = 0 /\ clearing' = FALSE /\ UNCHANGED Places
        /\ entry' = entry
    BY <1>3 DEF ClearEnds, listVars, walkVars, Places
  <2>2. Live = {}
    <3>1. \A j \in Live : el # 0 /\ j >= el
      BY <2>1 DEF Inv, LinkInv
    <3>2. el # 0 => From(el) = {}
      BY <2>1, AlongFinds, SortedList DEF IsFirst, From, Live, Inv
    <3>. QED  BY <3>1, <3>2 DEF From
  <2>3. entry = [j \in DOMAIN entry |-> Gone]
    <3>1. \A j \in DOMAIN entry : entry[j] = Gone
      BY <2>2 DEF Live, empty
    <3>2. entry \in [1..Len(entry) -> Entry] /\ DOMAIN entry = 1..Len(entry)
      BY Lengths DEF Inv, MapInv
    <3>. QED  BY <3>1, <3>2
  <2>4. Shown' = Shown
    BY <2>1, <2>3 DEF Shown
  <2>. QED  BY <2>1, <2>4 DEF Abstract!vars, Places, Shown
<1>. QED  BY <1>1, <1>2, <1>3

LEMMA CreateBegins ==
  ASSUME MapInv, NEW w \in Walkers, CreateIterator(w)
  PROVE  Abstract!Begin(w)
<1>1. /\ walking \in [Walkers -> BOOLEAN] /\ cur_record \in [Walkers -> 0..Len(entry)]
      /\ ~walking[w] /\ entry' = entry /\ clearing' = clearing
      /\ walking' = [walking EXCEPT ![w] = TRUE] /\ cur_record' = [cur_record EXCEPT ![w] = 0]
  BY DEF MapInv, TypeInv, CreateIterator, listVars, linkVars
<1>2. Places[w] = -1 /\ Places' = [Places EXCEPT ![w] = 0]
  BY <1>1 DEF Places
<1>. QED  BY <1>1, <1>2 DEF Abstract!Begin, Places

\* A walk that holds a record, or that was at one, is at that entry or before
\* the first, and a move takes it on or ends it.
LEMMA MovePlaces ==
  ASSUME MapInv, NEW w \in Walkers, NEW cur, NEW mr \in 0..Len(entry), Move(w, cur, mr)
  PROVE  /\ walking[w] => Places[w] = cur_record[w] /\ Places[w] >= 0
         /\ ~walking[w] => Places[w] = -1
         /\ Places' = [Places EXCEPT ![w] = IF mr = 0 THEN -1 ELSE mr]
         /\ entry' = entry
<1>1. /\ walking \in [Walkers -> BOOLEAN] /\ cur_record \in [Walkers -> 0..Len(entry)]
      /\ entry' = entry
  BY DEF MapInv, TypeInv, Move
<1>2. \A u \in Walkers : u # w => walking'[u] = walking[u] /\ cur_record'[u] = cur_record[u]
  BY MoveTypes
<1>3. walking'[w] = (mr # 0) /\ cur_record'[w] = mr
  BY MoveTypes
<1>4. walking[w] => Places[w] = cur_record[w] /\ Places[w] >= 0
  BY <1>1 DEF Places
<1>5. Places' = [u \in Walkers |-> IF u = w THEN (IF mr = 0 THEN -1 ELSE mr) ELSE Places[u]]
  BY <1>2, <1>3 DEF Places
<1>. QED  BY <1>1, <1>4, <1>5 DEF Places

\* The entry that a walk of the abstract map comes to after place p.
LEMMA FirstIsStep ==
  ASSUME MapInv, ~clearing, NEW p \in Int, NEW mr \in 0..Len(entry),
         \/ mr = 0 /\ {j \in Live : j > p} = {}
         \/ mr \in Live /\ mr > p /\ \A j \in Live : j > p => mr <= j
  PROVE  /\ Abstract!After(p) = {j \in Live : j > p}
         /\ mr # 0 => Abstract!After(p) # {} /\ Abstract!First(Abstract!After(p)) = mr
         /\ mr = 0 => Abstract!After(p) = {}
<1>. DEFINE A == {j \in Live : j > p}
<1>1. Abstract!After(p) = A
  BY DEF Abstract!After, Live, empty
<1>2. A \subseteq 1..Len(entry) /\ Len(entry) \in Nat
  BY SortedList DEF Live
<1>3. CASE mr = 0
  <2>1. \A j \in Live : j # 0
    BY SortedList DEF Live
  <2>. QED  BY <1>1, <1>3, <2>1
<1>4. CASE mr # 0
  <2>1. mr \in A /\ \A j \in A : mr <= j
    BY <1>4
  <2>. HIDE DEF A
  <2>2. \A i \in A : (\A j \in A : i <= j) => i = mr
    BY <1>2, <2>1
  <2>3. Abstract!First(A) = mr
    BY <2>1, <2>2 DEF Abstract!First
  <2>. QED  BY <1>1, <1>4, <2>1, <2>3 DEF A
<1>. QED  BY <1>3, <1>4

LEMMA MoveSteps ==
  ASSUME MapInv, ~clearing, clearing' = clearing, NEW w \in Walkers, walking[w], NEW cur,
         NEW mr \in 0..Len(entry), Move(w, cur, mr),
         \/ mr = 0 /\ {j \in Live : j > cur_record[w]} = {}
         \/ /\ mr \in Live /\ mr > cur_record[w]
            /\ \A j \in Live : j > cur_record[w] => mr <= j
  PROVE  Abstract!Step(w)
<1>1. PICK p \in Int : p = cur_record[w]
  BY DEF MapInv, TypeInv
<1>2. /\ Places[w] = p /\ p >= 0 /\ entry' = entry
      /\ Places' = [Places EXCEPT ![w] = IF mr = 0 THEN -1 ELSE mr]
  BY <1>1, MovePlaces
<1>3. (IF mr = 0 THEN -1 ELSE mr) =
        IF Abstract!After(p) = {} THEN -1 ELSE Abstract!First(Abstract!After(p))
  BY <1>1, FirstIsStep
<1>4. Places' = [Places EXCEPT ![w] =
        IF Abstract!After(Places[w]) = {} THEN -1 ELSE Abstract!First(Abstract!After(Places[w]))]
  BY <1>2, <1>3
<1>. QED  BY <1>2, <1>4 DEF Abstract!Step, Places

LEMMA NextSteps ==
  ASSUME Inv, NEW w \in Walkers, IteratorNext(w)
  PROVE  Abstract!Step(w)
<1>1. /\ walking[w] /\ ~clearing /\ clearing' = clearing /\ cur_record[w] \in Int
  BY DEF IteratorNext, Running, linkVars, Inv, MapInv, TypeInv
<1>2. PICK mr \in 0..Len(entry) :
        Move(w, cur_record[w], mr) /\ IsFirst(cur_record[w] + 1, mr)
  BY NextMoves DEF Inv
<1>3. \A j \in Live : j \in Int
  BY SortedList DEF Live, Inv
<1>4. From(cur_record[w] + 1) = {j \in Live : j > cur_record[w]}
  BY <1>1, <1>3 DEF From
<1>5. \/ mr = 0 /\ {j \in Live : j > cur_record[w]} = {}
      \/ /\ mr \in Live /\ mr > cur_record[w]
         /\ \A j \in Live : j > cur_record[w] => mr <= j
  BY <1>2, <1>4 DEF IsFirst
<1>. QED  BY <1>1, <1>2, <1>5, MoveSteps DEF Inv

LEMMA ForEachSteps ==
  ASSUME Inv, NEW w \in ForEachs, ForEachNext(w)
  PROVE  Abstract!Step(w)
<1>1. /\ w \in Walkers /\ walking[w] /\ ~clearing /\ clearing' = clearing /\ between = {w}
      /\ Along(el) \in 0..Len(entry) /\ Move(w, 0, Along(el))
  BY ForEachFinds
<1>2. \A j \in Live : j > cur_record[w] <=> el # 0 /\ j >= el
  BY <1>1 DEF Inv, LinkInv
<1>3. ~Freed(el)
  BY DEF ForEachNext
<1>4. CASE el = 0
  BY <1>1, <1>2, <1>3, <1>4, AlongFinds, MoveSteps DEF Inv
<1>5. CASE el # 0
  <2>1. PICK mr : mr = Along(el) /\ IsFirst(el, mr)
    BY <1>3, <1>5, AlongFinds
  <2>2. From(el) = {j \in Live : j > cur_record[w]}
    BY <1>2, <1>5 DEF From
  <2>3. \/ mr = 0 /\ {j \in Live : j > cur_record[w]} = {}
        \/ /\ mr \in Live /\ mr > cur_record[w]
           /\ \A j \in Live : j > cur_record[w] => mr <= j
    BY <2>1, <2>2 DEF IsFirst
  <2>. QED  BY <1>1, <2>1, <2>3, MoveSteps DEF Inv
<1>. QED  BY <1>4, <1>5

LEMMA ForEachEnters ==
  ASSUME Inv, NEW w \in Walkers, ForEach(w)
  PROVE  Abstract!Enter(w)
<1>1. /\ ~walking[w] /\ ~clearing /\ clearing' = clearing /\ FirstFrom(1) # 0
      /\ Move(w, 0, FirstFrom(1))
  BY DEF ForEach, Running, linkVars
<1>2. PICK mr \in 0..Len(entry) : mr = FirstFrom(1) /\ IsFirst(1, mr)
  BY FirstOfAll DEF Inv
<1>3. Places[w] = -1 /\ entry' = entry /\ Places' = [Places EXCEPT ![w] = mr]
  BY <1>1, <1>2, MovePlaces DEF Inv
<1>4. mr \in Live /\ mr > 0 /\ \A j \in Live : j > 0 => mr <= j
  BY <1>1, <1>2, SortedList DEF IsFirst, From, Live, Inv
<1>5. Abstract!After(0) # {} /\ Abstract!First(Abstract!After(0)) = mr
  BY <1>1, <1>2, <1>4, FirstIsStep DEF Inv
<1>. QED  BY <1>1, <1>3, <1>5 DEF Abstract!Enter, Places

LEMMA AbandonLeaves ==
  ASSUME MapInv, NEW w \in Walkers, Abandon(w)
  PROVE  Abstract!Leave(w)
<1>1. 0 \in 0..Len(entry) /\ walking[w] /\ Move(w, cur_record[w], 0) /\ clearing' = clearing
  BY SortedList DEF Abandon, linkVars
<1>2. /\ Places[w] >= 0 /\ Places' = [Places EXCEPT ![w] = IF 0 = 0 THEN -1 ELSE 0]
      /\ entry' = entry
  BY <1>1, MovePlaces
<1>. QED  BY <1>1, <1>2 DEF Abstract!Leave, Places

LEMMA MapRefinesInit == Init => Abstract!Init
BY DEF Init, Abstract!Init

LEMMA MapRefinesNext == Inv /\ [Next]_vars => [Abstract!Next]_Abstract!vars
<1>. SUFFICES ASSUME Inv, [Next]_vars PROVE Abstract!Next \/ UNCHANGED Abstract!vars
  OBVIOUS
<1>0. MapInv /\ Iterators \subseteq Walkers /\ ForEachs \subseteq Walkers
  BY DEF Inv, Walkers
<1>1. ASSUME NEW k \in Keys, NEW v \in Values, MapSet(k, v) PROVE Abstract!Next
  BY <1>0, <1>1, SetPuts DEF Abstract!Next
<1>2. ASSUME NEW k \in Keys, MapDelete(k) PROVE Abstract!Next
  BY <1>0, <1>2, DeleteRemoves DEF Abstract!Next
<1>3. CASE MapClear \/ ClearNext \/ ClearEnds
  BY <1>3, ClearShows
<1>4. CASE FollowFreed \/ UNCHANGED vars
  BY <1>4 DEF FollowFreed, vars, listVars, walkVars, linkVars, Abstract!vars
<1>5. ASSUME NEW w \in Iterators, CreateIterator(w) \/ IteratorNext(w) \/ Abandon(w)
      PROVE  Abstract!Next
  BY <1>0, <1>5, CreateBegins, NextSteps, AbandonLeaves DEF Abstract!Next
<1>6. ASSUME NEW w \in ForEachs, ForEach(w) \/ ForEachThrows(w) \/ ForEachNext(w)
      PROVE  Abstract!Next
  BY <1>0, <1>6, ForEachEnters, ForEachSteps, AbandonLeaves DEF Abstract!Next, ForEachThrows
<1>7. ASSUME NEW w \in ForEachs, ForEachReturns(w) PROVE UNCHANGED Abstract!vars
  BY <1>7 DEF ForEachReturns, walkVars, Abstract!vars
<1>. QED  BY <1>1, <1>2, <1>3, <1>4, <1>5, <1>6, <1>7 DEF Next

\* A walk over the list with its zombies meets the entries that a walk over
\* the ordered map meets, for any number of walks and any changes on the way,
\* those included that finalizers make while forEach or clear frees values, up
\* to a link that is followed to a freed record.
THEOREM MapIsOrdered == Spec => ImplementsOrderedMap
BY MapInvInit, MapInvNext, MapRefinesInit, MapRefinesNext,
   PTL DEF Spec, ImplementsOrderedMap, Abstract!Spec
=============================================================================
