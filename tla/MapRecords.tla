----------------------------- MODULE MapRecords -----------------------------
(***************************************************************************)
(* Map and Set as the engine keeps them: a list of records with reference  *)
(* counts. A walk (an iterator, or a running forEach) holds a reference to *)
(* the record it is at, so that the record stays in the list as a zombie   *)
(* when its key is deleted and the walk can go on from there. forEach and  *)
(* clear save the link to the next record, which nobody holds, and free    *)
(* values before they follow it; a finalizer that runs then may let go of  *)
(* the record. A record is the number of its creation; the hash table that *)
(* finds the record of a key is left out.                                  *)
(***************************************************************************)
EXTENDS Integers, Sequences, SequencesExt, FiniteSets, Filters

CONSTANTS
  Keys, Values,
  Iterators, \* iterator objects
  ForEachs,  \* running calls of forEach; they nest, here they end in any order
  Gone,      \* what a zombie holds
  MaxRecords \* bound: records ever added

Walkers == Iterators \cup ForEachs

ASSUME MapConstants ==
  /\ MaxRecords \in Nat /\ Gone \notin Keys \X Values
  /\ IsFiniteSet(Walkers) /\ Iterators \cap ForEachs = {}

VARIABLES
  records,      \* the list of records
  entry,        \* key and value of each record created, Gone when it is empty
  ref_count,
  record_count, \* the size that scripts see
  walking,      \* whether an iterator still has its map (it->obj), a forEach runs
  cur_record,   \* the record a walk is at, 0 for none
  between,      \* the forEach, if any, that frees what its callback returned
  clearing,     \* clear frees the key and value of a record
  el,           \* the link that either has saved, 0 for the head of the list
  corrupt       \* a link was followed to a record that is freed

listVars == <<records, entry, ref_count, record_count>>
walkVars == <<walking, cur_record>>
linkVars == <<between, clearing, el, corrupt>>
vars == <<listVars, walkVars, linkVars>>

empty(r) == entry[r] = Gone
WithKey(k) == {r \in Range(records) : ~empty(r) /\ entry[r][1] = k}
Holders(r) == {w \in Walkers \ between : walking[w] /\ cur_record[w] = r}

\* A script runs: no native function is between two records.
Running == ~corrupt /\ between = {} /\ ~clearing

\* Places in the list, from 1; 0 is the head before the first record.
Place(r)  == IF r = 0 THEN 0 ELSE CHOOSE i \in DOMAIN records : records[i] = r
LinkOf(r) == IF Place(r) = Len(records) THEN 0 ELSE records[Place(r) + 1]
Freed(r)  == r # 0 /\ r \notin Range(records)

\* The first record from place i on that is no zombie, 0 when there is none.
FirstFrom(i) ==
  LET j == SelectInSubSeq(records, i, Len(records), LAMBDA r : ~empty(r)) IN
  IF j = 0 THEN 0 ELSE records[j]

\* The same from a saved link on.
Along(link) == IF link = 0 THEN 0 ELSE FirstFrom(Place(link))

----------------------------------------------------------------------------
(* Records *)

\* map_delete_record of the records R: one without a walk leaves the list.
DeleteRecords(R) ==
  /\ entry' = [r \in DOMAIN entry |-> IF r \in R THEN Gone ELSE entry[r]]
  /\ ref_count' = [r \in DOMAIN ref_count |-> IF r \in R THEN ref_count[r] - 1 ELSE ref_count[r]]
  /\ records' = Filter(records, {r \in Range(records) : r \notin R \/ ref_count[r] > 1})
  /\ record_count' = record_count - Cardinality(R)
  /\ UNCHANGED walkVars

\* js_map_set, with map_add_record for a new key.
MapSet(k, v) ==
  /\ Running
  /\ IF WithKey(k) # {}
     THEN /\ entry' = [r \in DOMAIN entry |-> IF r \in WithKey(k) THEN <<k, v>> ELSE entry[r]]
          /\ UNCHANGED <<records, ref_count, record_count>>
     ELSE /\ Len(entry) < MaxRecords
          /\ entry' = Append(entry, <<k, v>>)
          /\ ref_count' = Append(ref_count, 1)
          /\ records' = Append(records, Len(entry'))
          /\ record_count' = record_count + 1
  /\ UNCHANGED <<walkVars, linkVars>>

MapDelete(k) ==
  /\ Running
  /\ WithKey(k) # {} /\ DeleteRecords(WithKey(k))
  /\ UNCHANGED linkVars

\* js_map_clear goes over zombies. Of a record with a key it saves the next
\* link, and frees key and value, whose finalizers run before it goes on.
ClearRecord(r) ==
  /\ r # 0
  /\ DeleteRecords({r})
  /\ el' = LinkOf(r)
  /\ clearing' = TRUE
  /\ UNCHANGED <<between, corrupt>>

MapClear == Running /\ ClearRecord(FirstFrom(1))

ClearNext ==
  /\ clearing /\ ~corrupt /\ ~Freed(el)
  /\ ClearRecord(Along(el))

ClearEnds ==
  /\ clearing /\ ~corrupt /\ ~Freed(el)
  /\ Along(el) = 0
  /\ clearing' = FALSE /\ el' = 0
  /\ UNCHANGED <<listVars, walkVars, between, corrupt>>

\* Either goes on at a record that was freed meanwhile.
FollowFreed ==
  /\ clearing \/ between # {}
  /\ ~corrupt /\ Freed(el)
  /\ corrupt' = TRUE
  /\ UNCHANGED <<listVars, walkVars, between, clearing, el>>

----------------------------------------------------------------------------
(* Walks *)

\* js_create_map_iterator.
CreateIterator(w) ==
  /\ Running
  /\ ~walking[w]
  /\ walking' = [walking EXCEPT ![w] = TRUE]
  /\ cur_record' = [cur_record EXCEPT ![w] = 0]
  /\ UNCHANGED <<listVars, linkVars>>

\* Mutation, for Unlink: zombies stay in the list.
UnlinkNothing(r) == records

\* map_decref_record: the last reference takes a zombie off the list.
Decref(count, r) == [x \in DOMAIN count |-> IF x = r THEN count[x] - 1 ELSE count[x]]
Unlink(r) == IF r # 0 /\ ref_count[r] = 1 THEN Filter(records, Range(records) \ {r}) ELSE records

\* A walk goes from the record cur, of which it lets go, to mr, which it holds;
\* either may be 0 for none, and at none it is over.
Move(w, cur, mr) ==
  /\ records' = Unlink(cur)
  /\ ref_count' = [r \in DOMAIN ref_count |-> Decref(ref_count, cur)[r] + (IF r = mr THEN 1 ELSE 0)]
  /\ cur_record' = [cur_record EXCEPT ![w] = mr]
  /\ walking' = [walking EXCEPT ![w] = mr # 0]
  /\ UNCHANGED <<entry, record_count>>

\* Mutation, for IteratorNext: zombies are not skipped.
IteratorNextAny(w) ==
  /\ Running
  /\ walking[w]
  /\ Move(w, cur_record[w], LinkOf(cur_record[w]))
  /\ UNCHANGED linkVars

\* js_map_iterator_next: on from the record held to the next that is no zombie.
IteratorNext(w) ==
  /\ Running
  /\ walking[w]
  /\ Move(w, cur_record[w], FirstFrom(Place(cur_record[w]) + 1))
  /\ UNCHANGED linkVars

\* js_map_iterator_finalizer, which runs while scripts do or while a value is
\* freed in the middle of forEach or clear.
Abandon(w) ==
  /\ ~corrupt
  /\ walking[w]
  /\ Move(w, cur_record[w], 0)
  /\ UNCHANGED linkVars

\* js_map_forEach up to its first callback.
ForEach(w) ==
  /\ Running
  /\ ~walking[w] /\ FirstFrom(1) # 0
  /\ Move(w, 0, FirstFrom(1))
  /\ UNCHANGED linkVars

\* The callback throws.
ForEachThrows(w) == Running /\ Abandon(w)

\* The callback returned: on to the next link, off the record, and what the
\* callback returned is freed.
ForEachReturns(w) ==
  /\ Running
  /\ walking[w]
  /\ records' = Unlink(cur_record[w])
  /\ ref_count' = Decref(ref_count, cur_record[w])
  /\ el' = LinkOf(cur_record[w])
  /\ between' = {w}
  /\ UNCHANGED <<entry, record_count, walkVars, clearing, corrupt>>

\* Along the link to a record that is no zombie, and its callback.
ForEachNext(w) ==
  /\ w \in between
  /\ ~corrupt /\ ~Freed(el)
  /\ Move(w, 0, Along(el))
  /\ between' = {} /\ el' = 0
  /\ UNCHANGED <<clearing, corrupt>>

----------------------------------------------------------------------------
Init ==
  /\ records = <<>> /\ entry = <<>> /\ ref_count = <<>> /\ record_count = 0
  /\ walking = [w \in Walkers |-> FALSE]
  /\ cur_record = [w \in Walkers |-> 0]
  /\ between = {} /\ clearing = FALSE /\ el = 0 /\ corrupt = FALSE

Next ==
  \/ \E k \in Keys, v \in Values : MapSet(k, v)
  \/ \E k \in Keys : MapDelete(k)
  \/ MapClear \/ ClearNext \/ ClearEnds \/ FollowFreed
  \/ \E w \in Iterators : CreateIterator(w) \/ IteratorNext(w) \/ Abandon(w)
  \/ \E w \in ForEachs :
       ForEach(w) \/ ForEachThrows(w) \/ ForEachReturns(w) \/ ForEachNext(w)

Spec == Init /\ [][Next]_vars

----------------------------------------------------------------------------
(* Properties *)

\* A record is in the list as long as it has a key or a walk holds it, with
\* one reference for each: a walk that holds a record is never at one that was
\* freed (so the assertion of map_decref_record holds), no zombie stays for
\* ever, and the size counts the keys. A saved link is no reference, and may be
\* to a record that is gone: ElementLocked.
RefsExact ==
  /\ \A r \in DOMAIN entry :
       ref_count[r] = (IF empty(r) THEN 0 ELSE 1) + Cardinality(Holders(r))
  /\ Range(records) = {r \in DOMAIN entry : ref_count[r] > 0}
  /\ record_count = Cardinality({r \in DOMAIN entry : ~empty(r)})

\* Scripts see an ordered map: a walk that went through zombies, deletions and
\* insertions meets the entries that the abstract map says it does, up to a
\* link that is followed to a freed record. A clear that is under way has
\* emptied the map for whoever looks at it.
Abstract == INSTANCE OrderedMap WITH
  MaxEntries <- MaxRecords,
  entries <- IF clearing THEN [r \in DOMAIN entry |-> Gone] ELSE entry,
  at <- [w \in Walkers |-> IF walking[w] THEN cur_record[w] ELSE -1]
ImplementsOrderedMap == Abstract!Spec

\* quickjs.c:47396, "the list can be modified while traversing it, but the
\* current element is locked". The case in which the code has no answer: the
\* link to the next element is followed when it is locked no more.
ElementLocked == ~corrupt
=============================================================================
