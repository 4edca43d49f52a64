----------------------------- MODULE OrderedMap -----------------------------
(***************************************************************************)
(* What Map and Set promise to scripts: entries in the order in which they *)
(* were added, and walks (iterators and forEach) that meet every entry     *)
(* once, those added on the way too, and none that was deleted before.     *)
(***************************************************************************)
EXTENDS Integers, Sequences

CONSTANTS Keys, Values, Walkers, Gone, MaxEntries

VARIABLES
  entries, \* all entries ever added: <<key, value>>, or Gone
  at       \* where a walk is: an index, -1 when it is over or not begun

vars == <<entries, at>>

Holds(i, k) == entries[i] # Gone /\ entries[i][1] = k
After(i) == {j \in DOMAIN entries : j > i /\ entries[j] # Gone}
First(I) == CHOOSE i \in I : \A j \in I : i <= j

Init == entries = <<>> /\ at = [w \in Walkers |-> -1]

Put(k, v) ==
  /\ IF \E i \in DOMAIN entries : Holds(i, k)
     THEN entries' = [i \in DOMAIN entries |-> IF Holds(i, k) THEN <<k, v>> ELSE entries[i]]
     ELSE Len(entries) < MaxEntries /\ entries' = Append(entries, <<k, v>>)
  /\ UNCHANGED at

Remove(k) ==
  /\ entries' = [i \in DOMAIN entries |-> IF Holds(i, k) THEN Gone ELSE entries[i]]
  /\ UNCHANGED at

Empty == entries' = [i \in DOMAIN entries |-> Gone] /\ UNCHANGED at

Begin(w) == at[w] = -1 /\ at' = [at EXCEPT ![w] = 0] /\ UNCHANGED entries

\* A walk may begin with its first entry.
Enter(w) ==
  /\ at[w] = -1 /\ After(0) # {}
  /\ at' = [at EXCEPT ![w] = First(After(0))]
  /\ UNCHANGED entries

Step(w) ==
  /\ at[w] >= 0
  /\ at' = [at EXCEPT ![w] = IF After(at[w]) = {} THEN -1 ELSE First(After(at[w]))]
  /\ UNCHANGED entries

Leave(w) == at[w] >= 0 /\ at' = [at EXCEPT ![w] = -1] /\ UNCHANGED entries

Next ==
  \/ \E k \in Keys, v \in Values : Put(k, v)
  \/ \E k \in Keys : Remove(k)
  \/ Empty
  \/ \E w \in Walkers : Begin(w) \/ Enter(w) \/ Step(w) \/ Leave(w)

Spec == Init /\ [][Next]_vars
=============================================================================
