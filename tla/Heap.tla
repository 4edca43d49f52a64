-------------------------------- MODULE Heap --------------------------------
(***************************************************************************)
(* The engine's memory: reference counting, the removal of cycles and the  *)
(* three kinds of weak records (WeakRef, WeakMap, FinalizationRegistry).   *)
(* The loops that free take one iteration per step; no script runs         *)
(* meanwhile, so scripts act at pc = "run" only. The engine's              *)
(* lists are sets here: whatever order they are in, one of the steps below *)
(* takes the element the code takes.                                       *)
(***************************************************************************)
EXTENDS Integers, FiniteSets

CONSTANTS
  Objects,    \* JS objects and function bytecode: what a JS value points to
  Cells,      \* variable references, shapes, async functions: not values
  Slots,      \* the fields of a node
  None,       \* no reference
  MaxRecords, \* bound: weak records at a time
  MaxRepeats, \* bound: more entries that repeat the token of another and hold nothing
  MaxJobs     \* bound: finalization callbacks queued with one held value

ASSUME HeapConstants ==
  /\ IsFiniteSet(Objects) /\ IsFiniteSet(Cells) /\ IsFiniteSet(Slots)
  /\ Objects \cap Cells = {} /\ None \notin Objects \cup Cells
  /\ {MaxRecords, MaxRepeats, MaxJobs} \subseteq Nat

VARIABLES
  ref,      \* header.ref_count
  mem,      \* "free", "live", or "zombie": freed by a sweep, its header kept
  slot,     \* the fields
  weak,     \* the weak records of all objects
  roots,    \* objects a stack or a global holds, with one reference each
  jobs,     \* how many queued finalization callbacks hold an object
  gc_obj_list, tmp_obj_list, gc_zero_ref_count_list,
  gc_phase,
  pc,       \* "run"; "free": free_zero_refcount; the loops of JS_RunGC
  visited,  \* what the loop at pc has already taken
  walk,     \* unregister under way: token, el, the entry it goes on to, todo
  corrupt   \* a callback was queued with an object that its sweep then frees,
            \* or unregister went on to an entry that was freed

heapVars == <<ref, mem, slot, weak, roots, jobs, gc_obj_list, tmp_obj_list,
              gc_zero_ref_count_list, gc_phase, pc, visited>>
vars == <<heapVars, walk, corrupt>>
counts == <<ref, mem, slot, weak, roots, jobs>>
gcVars == <<tmp_obj_list, visited>>

Nodes == Objects \cup Cells

Record == [kind : {"weakref", "map", "finrec"}, owner : Objects, target : Objects,
           value : Objects \cup {None}, token : Objects \cup {None}]

TypeOK ==
  /\ ref \in [Nodes -> Nat]
  /\ mem \in [Nodes -> {"free", "live", "zombie"}]
  /\ slot \in [Nodes -> [Slots -> Nodes \cup {None}]]
  /\ weak \subseteq Record
  /\ roots \subseteq Objects
  /\ jobs \in [Objects -> 0..MaxJobs]
  /\ gc_obj_list \subseteq Nodes /\ tmp_obj_list \subseteq Nodes
  /\ gc_zero_ref_count_list \subseteq Nodes /\ visited \subseteq Nodes
  /\ gc_phase \in {"none", "decref", "remove_cycles"}
  /\ pc \in {"run", "free", "gc_decref", "gc_scan", "gc_free_cycles"}
  /\ walk \in [token : Objects \cup {None}, el : Record \cup {None}, todo : SUBSET Record]
  /\ corrupt \in BOOLEAN

----------------------------------------------------------------------------
(* References *)

FieldsTo(P, x)  == Cardinality({f \in P \X Slots : slot[f[1]][f[2]] = x})
RecordsTo(R, x) == Cardinality({r \in R : r.value = x}) + Cardinality({r \in R : r.token = x})
OwnedBy(p)      == {r \in weak : r.owner = p}

\* Mutation, for Marks: what weak records hold is not marked.
MarksFieldsOnly(P, x) == FieldsTo(P, x)

\* mark_children: how often it calls mark_func on x for the nodes P.
Marks(P, x) == FieldsTo(P, x) + RecordsTo({r \in weak : r.owner \in P}, x)

Live == {x \in Nodes : mem[x] = "live"}
Successors(S) == ({slot[p][s] : p \in S, s \in Slots}
                  \cup UNION {{r.value, r.token} : r \in {q \in weak : q.owner \in S}}) \ {None}
ReachableFrom(S) ==
  LET R[n \in 0..Cardinality(Nodes)] == IF n = 0 THEN S ELSE LET P == R[n - 1] IN P \cup Successors(P)
  IN  R[Cardinality(Nodes)]
Reachable == ReachableFrom(roots \cup {x \in Objects : jobs[x] > 0})

----------------------------------------------------------------------------
(* Scripts *)

NoWalk  == [token |-> None, el |-> None, todo |-> {}]
Running == pc = "run" /\ walk = NoWalk

\* JS_FreeValue of a value x held by a script, whose count before is n: its
\* last reference queues the object and enters free_zero_refcount.
LetGo(x, n) ==
  IF n = 1
  THEN /\ gc_obj_list' = gc_obj_list \ {x}
       /\ gc_zero_ref_count_list' = {x}
       /\ gc_phase' = "decref" /\ pc' = "free"
  ELSE UNCHANGED <<gc_obj_list, gc_zero_ref_count_list, gc_phase, pc>>

Keep == UNCHANGED <<gc_zero_ref_count_list, gc_phase, pc>>

NewNode(x) ==
  /\ mem[x] = "free"
  /\ mem' = [mem EXCEPT ![x] = "live"]
  /\ gc_obj_list' = gc_obj_list \cup {x}

\* JS_NewObjectFromShape.
NewObject(x) ==
  /\ Running /\ NewNode(x)
  /\ ref' = [ref EXCEPT ![x] = 1]
  /\ roots' = roots \cup {x}
  /\ Keep /\ UNCHANGED <<slot, weak, jobs, tmp_obj_list, visited, corrupt>>

\* js_closure2: the function p captures a variable for the first time.
NewCell(p, s, c) ==
  /\ Running /\ p \in roots /\ slot[p][s] = None /\ NewNode(c)
  /\ ref' = [ref EXCEPT ![c] = 1]
  /\ slot' = [slot EXCEPT ![p][s] = c]
  /\ Keep /\ UNCHANGED <<weak, roots, jobs, tmp_obj_list, visited, corrupt>>

\* js_closure2: the function p captures a variable that others captured.
ShareCell(p, s, c) ==
  /\ Running /\ p \in roots /\ slot[p][s] = None /\ c \in Reachable
  /\ ref' = [ref EXCEPT ![c] = @ + 1]
  /\ slot' = [slot EXCEPT ![p][s] = c]
  /\ Keep /\ UNCHANGED <<mem, weak, roots, jobs, gc_obj_list, gcVars, corrupt>>

\* set_value: the field s of a reachable node p becomes v, the old value goes.
SetField(p, s, v) ==
  LET old == slot[p][s]
      ref1 == [x \in Nodes |-> IF x = v THEN ref[x] + 1 ELSE ref[x]] IN
  /\ Running /\ p \in Reachable /\ v \in roots \cup {None}
  /\ old \in Objects \cup {None} /\ old # v
  /\ slot' = [slot EXCEPT ![p][s] = v]
  /\ IF old = None
     THEN ref' = ref1 /\ Keep /\ UNCHANGED gc_obj_list
     ELSE ref' = [ref1 EXCEPT ![old] = @ - 1] /\ LetGo(old, ref1[old])
  /\ UNCHANGED <<mem, weak, roots, jobs, gcVars, corrupt>>

\* A script takes a reference to what a field or a queued job shows it.
Load(x) ==
  /\ Running /\ x \in Objects \cap Reachable /\ x \notin roots
  /\ roots' = roots \cup {x}
  /\ ref' = [ref EXCEPT ![x] = @ + 1]
  /\ Keep /\ UNCHANGED <<mem, slot, weak, jobs, gc_obj_list, gcVars, corrupt>>

\* JS_FreeValue of a stack or global reference.
Drop(x) ==
  /\ Running /\ x \in roots
  /\ roots' = roots \ {x}
  /\ ref' = [ref EXCEPT ![x] = @ - 1]
  /\ LetGo(x, ref[x])
  /\ UNCHANGED <<mem, slot, weak, jobs, gcVars, corrupt>>

\* js_finrec_job, after which the queue lets go of the held value.
RunJob(x) ==
  /\ Running /\ jobs[x] > 0
  /\ jobs' = [jobs EXCEPT ![x] = @ - 1]
  /\ ref' = [ref EXCEPT ![x] = @ - 1]
  /\ LetGo(x, ref[x])
  /\ UNCHANGED <<mem, slot, weak, roots, gcVars, corrupt>>

----------------------------------------------------------------------------
(* Weak records *)

\* insert_weakref_record; the record keeps its value and its token alive.
Insert(r) ==
  /\ r \notin weak
  /\ weak' = weak \cup {r}
  /\ ref' = [x \in Nodes |-> ref[x] + RecordsTo({r}, x)]
  /\ Keep /\ UNCHANGED <<mem, slot, roots, jobs, gc_obj_list, gcVars, corrupt>>

\* js_weakref_constructor on a new WeakRef object w.
NewWeakRef(w, t) ==
  /\ Running /\ {w, t} \subseteq roots /\ OwnedBy(w) = {}
  /\ Cardinality(weak) < MaxRecords
  /\ Insert([kind |-> "weakref", owner |-> w, target |-> t, value |-> None, token |-> None])

\* js_weakref_deref.
Deref(r) ==
  /\ Running /\ r.kind = "weakref" /\ r.owner \in roots /\ r.target \notin roots
  /\ roots' = roots \cup {r.target}
  /\ ref' = [ref EXCEPT ![r.target] = @ + 1]
  /\ Keep /\ UNCHANGED <<mem, slot, weak, jobs, gc_obj_list, gcVars, corrupt>>

\* js_map_set on a WeakMap m: map_add_record for a new key.
WeakMapSet(m, k, v) ==
  /\ Running /\ {m, k, v} \subseteq roots
  /\ ~\E r \in weak : r.kind = "map" /\ r.owner = m /\ r.target = k
  /\ Cardinality(weak) < MaxRecords
  /\ Insert([kind |-> "map", owner |-> m, target |-> k, value |-> v, token |-> None])

\* js_finrec_register.
Register(f, t, held, token) ==
  /\ Running /\ {f, t} \subseteq roots /\ {held, token} \subseteq roots \cup {None}
  /\ t # f /\ held # t
  /\ \/ /\ Cardinality(weak) < MaxRecords
        /\ \A x \in Objects : jobs[x] + Cardinality(weak) < MaxJobs
     \/ /\ Cardinality(weak) < MaxRecords + MaxRepeats
        /\ held = None /\ \E r \in OwnedBy(f) : r.kind = "finrec" /\ r.token = token /\ token # None
  /\ Insert([kind |-> "finrec", owner |-> f, target |-> t, value |-> held, token |-> token])

\* Mutation, for Delete: the record's value and token are not freed.
DeleteLeaks(R) ==
  weak' = weak \ R
  /\ UNCHANGED <<ref, mem, slot, roots, jobs, gc_obj_list, gc_zero_ref_count_list,
                 gc_phase, pc, gcVars, corrupt>>

\* The records R go, and the values and tokens they held are freed.
Delete(R) ==
  LET ref1 == [x \in Nodes |-> ref[x] - RecordsTo(R, x)]
      zero == {x \in Nodes : ref1[x] = 0 /\ ref[x] > 0} IN
  /\ weak' = weak \ R
  /\ ref' = ref1
  /\ IF zero = {}
     THEN UNCHANGED <<gc_obj_list, gc_zero_ref_count_list, gc_phase, pc>>
     ELSE /\ gc_obj_list' = gc_obj_list \ zero
          /\ gc_zero_ref_count_list' = zero
          /\ gc_phase' = "decref" /\ pc' = "free"
  /\ UNCHANGED <<mem, slot, roots, jobs, gcVars, corrupt>>

\* js_map_delete on a WeakMap.
WeakMapDelete(r) ==
  Running /\ r.kind = "map" /\ {r.owner, r.target} \subseteq roots /\ Delete({r})

\* One of the entries E, None when there is none.
OneOf(E) == IF E = {} THEN {None} ELSE E

\* js_finrec_unregister goes over the entries of f; where none has the token
\* nothing happens.
Unregister(f, token) ==
  LET E == {r \in OwnedBy(f) : r.kind = "finrec"} IN
  /\ Running /\ {f, token} \subseteq roots
  /\ \E r \in E : r.token = token
  /\ \E el \in E : walk' = [token |-> token, el |-> el, todo |-> E \ {el}]
  /\ UNCHANGED <<heapVars, corrupt>>

\* Its loop saves the link of an entry, then frees what the entry held, which
\* may free other entries before the loop goes on.
UnregisterEntry ==
  /\ pc = "run" /\ walk.el \in weak
  /\ \E next \in OneOf(walk.todo \cap weak) :
       walk' = [walk EXCEPT !.el = next, !.todo = (@ \cap weak) \ {next}]
  /\ IF walk.el.token = walk.token THEN Delete({walk.el}) ELSE UNCHANGED <<heapVars, corrupt>>

UnregisterEnds ==
  /\ pc = "run" /\ walk # NoWalk /\ walk.el = None
  /\ walk' = NoWalk
  /\ UNCHANGED <<heapVars, corrupt>>

\* The saved entry was freed: its token and its link are read all the same.
UnregisterFreed ==
  /\ pc = "run" /\ walk.el # None /\ walk.el \notin weak
  /\ corrupt' = TRUE
  /\ UNCHANGED <<heapVars, walk>>

----------------------------------------------------------------------------
(* Freeing an object *)

\* reset_weak_ref: the callbacks it queues, by what they hold. A held object
\* that the sweep has already freed is left out.
Callbacks(p) ==
  {r \in weak : /\ r.target = p /\ r.kind = "finrec" /\ r.value # None
                /\ mem[r.value] = "live" /\ r.value # p}

\* Mutation, for FreeObject: without reset_weak_ref.
FreeObjectOnly(p) ==
  /\ ref' = [x \in Nodes |-> ref[x] - FieldsTo({p}, x)]
  /\ mem' = [mem EXCEPT ![p] = "free"]
  /\ slot' = [slot EXCEPT ![p] = [s \in Slots |-> None]]
  /\ gc_zero_ref_count_list' = gc_zero_ref_count_list \ {p}
  /\ gc_obj_list' = gc_obj_list \ {p} /\ tmp_obj_list' = tmp_obj_list \ {p}
  /\ UNCHANGED <<weak, jobs, corrupt, roots, visited>>

\* free_object: the fields, the records whose target it is (reset_weak_ref),
\* the records it owns (its finalizer). A cell goes with its last reference;
\* an object is queued, or left to the sweep.
FreeObject(p) ==
  LET records == {r \in weak : r.target = p \/ r.owner = p}
      held(x) == Cardinality({r \in Callbacks(p) : r.value = x})
      first(x) == FieldsTo({p}, x) + RecordsTo(records, x)
      cells == {c \in Cells : mem[c] = "live" /\ first(c) > 0 /\ ref[c] = first(c)}
      ref1 == [x \in Nodes |-> IF x \in cells THEN 0
                               ELSE ref[x] + held(x) - (first(x) + FieldsTo(cells, x))]
      queued == IF gc_phase = "decref"
                THEN {x \in gc_obj_list \ (cells \cup {p}) : ref1[x] = 0 /\ ref[x] > 0} ELSE {}
      kept == gc_phase = "remove_cycles" /\ ref1[p] # 0 IN
  /\ ref' = ref1
  /\ mem' = [x \in Nodes |-> CASE x = p -> IF kept THEN "zombie" ELSE "free"
                               [] x \in cells -> "free"
                               [] OTHER -> mem[x]]
  /\ slot' = [x \in Nodes |-> IF x \in cells \cup {p} THEN [s \in Slots |-> None] ELSE slot[x]]
  /\ weak' = weak \ records
  /\ jobs' = [x \in Objects |-> jobs[x] + held(x)]
  /\ corrupt' = (gc_phase = "remove_cycles" /\ \E r \in Callbacks(p) : r.value \in tmp_obj_list)
  /\ gc_obj_list' = gc_obj_list \ (cells \cup queued \cup {p})
  /\ tmp_obj_list' = tmp_obj_list \ (cells \cup {p})
  /\ gc_zero_ref_count_list' =
       ((gc_zero_ref_count_list \ (cells \cup {p})) \cup queued) \cup (IF kept THEN {p} ELSE {})
  /\ UNCHANGED <<roots, visited>>

\* free_zero_refcount.
FreeZero ==
  /\ pc = "free"
  /\ \/ \E p \in gc_zero_ref_count_list :
          FreeObject(p) /\ UNCHANGED <<gc_phase, pc>>
     \/ /\ gc_zero_ref_count_list = {}
        /\ gc_phase' = "none" /\ pc' = "run"
        /\ UNCHANGED <<counts, gcVars, gc_obj_list, gc_zero_ref_count_list, corrupt>>

----------------------------------------------------------------------------
(* JS_RunGC. The loops of gc_decref and gc_scan add and subtract, so a step *)
(* stands for the iterations over all nodes that the list holds by then.    *)

\* From js_trigger_gc, which any allocation may call.
RunGC ==
  /\ Running
  /\ pc' = "gc_decref" /\ tmp_obj_list' = {} /\ visited' = {}
  /\ UNCHANGED <<counts, gc_obj_list, gc_zero_ref_count_list, gc_phase, corrupt>>

\* gc_decref with gc_decref_child: the counts lose the references between
\* nodes, and the nodes left with none go to tmp_obj_list.
GcDecref ==
  LET ref1 == [x \in Nodes |-> ref[x] - Marks(gc_obj_list, x)]
      zero == {x \in gc_obj_list : ref1[x] = 0} IN
  /\ pc = "gc_decref"
  /\ ref' = ref1
  /\ gc_obj_list' = gc_obj_list \ zero
  /\ tmp_obj_list' = zero
  /\ pc' = "gc_scan"
  /\ UNCHANGED <<mem, slot, weak, roots, jobs, gc_zero_ref_count_list, gc_phase, visited, corrupt>>

\* gc_scan, first loop, with gc_scan_incref_child: what a kept node refers to
\* is kept too, goes to the end of the list and is visited in turn.
GcScan ==
  LET next == gc_obj_list \ visited
      ref1 == [x \in Nodes |-> ref[x] + Marks(next, x)]
      back == {x \in tmp_obj_list : ref1[x] > 0} IN
  /\ pc = "gc_scan" /\ next # {}
  /\ ref' = ref1
  /\ visited' = visited \cup next
  /\ gc_obj_list' = gc_obj_list \cup back
  /\ tmp_obj_list' = tmp_obj_list \ back
  /\ UNCHANGED <<mem, slot, weak, roots, jobs, gc_zero_ref_count_list, gc_phase, pc, corrupt>>

\* gc_scan, second loop, with gc_scan_incref_child2: the nodes to be freed get
\* their counts back, and gc_free_cycles begins.
GcRestore ==
  /\ pc = "gc_scan" /\ gc_obj_list \subseteq visited
  /\ ref' = [x \in Nodes |-> ref[x] + Marks(tmp_obj_list, x)]
  /\ visited' = {}
  /\ pc' = "gc_free_cycles" /\ gc_phase' = "remove_cycles"
  /\ UNCHANGED <<mem, slot, weak, roots, jobs, gc_obj_list, tmp_obj_list,
                 gc_zero_ref_count_list, corrupt>>

\* gc_free_cycles: objects are freed, cells wait for the node that refers to
\* them; at the end the headers of the zombies are freed.
GcFreeCycles ==
  /\ pc = "gc_free_cycles"
  /\ \/ \E p \in tmp_obj_list \cap Objects :
          FreeObject(p) /\ UNCHANGED <<gc_phase, pc>>
     \/ \E c \in tmp_obj_list \cap Cells :
          /\ tmp_obj_list' = tmp_obj_list \ {c}
          /\ gc_zero_ref_count_list' = gc_zero_ref_count_list \cup {c}
          /\ UNCHANGED <<counts, gc_obj_list, visited, gc_phase, pc, corrupt>>
     \/ /\ tmp_obj_list = {}
        /\ mem' = [x \in Nodes |-> IF x \in gc_zero_ref_count_list THEN "free" ELSE mem[x]]
        /\ ref' = [x \in Nodes |-> IF x \in gc_zero_ref_count_list THEN 0 ELSE ref[x]]
        /\ gc_zero_ref_count_list' = {}
        /\ gc_phase' = "none" /\ pc' = "run"
        /\ UNCHANGED <<slot, weak, roots, jobs, gc_obj_list, tmp_obj_list, visited, corrupt>>

----------------------------------------------------------------------------
Init ==
  /\ ref = [x \in Nodes |-> 0]
  /\ mem = [x \in Nodes |-> "free"]
  /\ slot = [x \in Nodes |-> [s \in Slots |-> None]]
  /\ weak = {} /\ roots = {} /\ jobs = [x \in Objects |-> 0]
  /\ gc_obj_list = {} /\ tmp_obj_list = {} /\ gc_zero_ref_count_list = {}
  /\ gc_phase = "none" /\ pc = "run" /\ visited = {}
  /\ walk = NoWalk /\ corrupt = FALSE

Script ==
  \/ \E x \in Objects : NewObject(x) \/ Load(x) \/ Drop(x) \/ RunJob(x)
  \/ \E p \in Objects, s \in Slots, c \in Cells : NewCell(p, s, c) \/ ShareCell(p, s, c)
  \/ \E p \in Nodes, s \in Slots, v \in Objects \cup {None} : SetField(p, s, v)
  \/ \E w, t \in Objects : NewWeakRef(w, t)
  \/ \E m, k, v \in Objects : WeakMapSet(m, k, v)
  \/ \E f, t \in Objects, held, token \in Objects \cup {None} : Register(f, t, held, token)
  \/ \E r \in weak : Deref(r) \/ WeakMapDelete(r)

Collector == RunGC \/ FreeZero \/ GcDecref \/ GcScan \/ GcRestore \/ GcFreeCycles

Unregistering ==
  \/ \E f, token \in Objects : Unregister(f, token)
  \/ UnregisterEntry \/ UnregisterEnds \/ UnregisterFreed

\* Nothing is claimed once a callback or unregister stands on freed memory.
Next ==
  /\ ~corrupt
  /\ \/ (Script \/ Collector) /\ UNCHANGED walk
     \/ Unregistering

Spec == Init /\ [][Next]_vars

----------------------------------------------------------------------------
(* Properties *)

\* Nothing in use is freed, in the middle of a sweep too: neither what scripts
\* and queued jobs reach, nor the target or the owner of a weak record,
\* whichever of the two the sweep frees first.
NothingDangles ==
  corrupt \/ Reachable \cup UNION {{r.owner, r.target} : r \in weak} \subseteq Live

\* Between operations every count is the number of references there are, so
\* no JS_DupValue or JS_FreeValue of these paths is missing or doubled, and the
\* nodes that exist are those of gc_obj_list: a sweep leaves no header behind
\* and no cell that only its freed owners referred to.
CountsExact ==
  pc = "run" /\ ~corrupt =>
    /\ gc_obj_list = Live /\ Live = {x \in Nodes : mem[x] # "free"}
    /\ \A x \in Live : ref[x] = FieldsTo(Live, x) + RecordsTo(weak, x)
                               + (IF x \in roots THEN 1 ELSE 0)
                               + (IF x \in Objects THEN jobs[x] ELSE 0)

\* When gc_scan is done, tmp_obj_list is what scripts and jobs cannot reach,
\* no more and no less, although it was found without any list of roots.
GarbageFound ==
  [][pc = "gc_scan" /\ pc' = "gc_free_cycles" => tmp_obj_list = Live \ Reachable]_vars

\* What js_finrec_finalizer takes two passes for, quickjs.c:55516, "avoid having
\* them modified by freeing a token / held value", and js_finrec_unregister
\* does not: the entry to which its loop goes on is still there.
SavedEntryStays == walk.el \in weak \cup {None}
=============================================================================
