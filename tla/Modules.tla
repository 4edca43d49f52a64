------------------------------ MODULE Modules -------------------------------
(***************************************************************************)
(* ES modules: linking and evaluation of a graph of modules with cycles    *)
(* and top-level await. Both walk the graph by depth first search and find *)
(* its strongly connected components with a stack of their own; a recursive*)
(* call is a frame of `call'. A walk is one C call: imports and the bodies *)
(* that await wait until it is over.                                       *)
(***************************************************************************)
EXTENDS Integers, Sequences, SequencesExt, FiniteSets

CONSTANTS
  Mods,      \* the modules, numbers in the order in which requests are written
  Graphs,    \* which modules request which
  MaxImports \* bound: calls of import()

ASSUME ModulesConstants ==
  /\ Mods \subseteq Nat /\ IsFiniteSet(Mods)
  /\ Graphs \subseteq [Mods -> SUBSET Mods]
  /\ MaxImports \in Nat

VARIABLES
  req_module_entries, has_tla,  \* the graph, and which modules await at top level
  status, cycle_root, promise, eval_has_exception,
  dfs_index, dfs_ancestor_index,
  async_evaluation, async_evaluation_timestamp, pending_async_dependencies,
  async_parent_modules,
  phase,      \* "idle"; the walk "link"; "begin" of js_evaluate_module and its walk
              \* "evaluate"; the loop "exec" of js_async_module_execution_fulfilled
  root,       \* the module of the current walk
  call,       \* the frames of the recursion: a module and its current request
  stack_top,  \* the stack of modules whose component is not complete
  exec_list,  \* the modules that the loop "exec" has still to run
  running,    \* modules whose body awaits
  runs,       \* how often a body was started
  finished,   \* the bodies that ended without an exception
  late,       \* imports that met a flag async_evaluation left behind
  imports     \* how many calls of import() are left

graph == <<req_module_entries, has_tla>>
record == <<status, cycle_root, promise, eval_has_exception>>
dfs == <<dfs_index, dfs_ancestor_index>>
async == <<async_evaluation, async_evaluation_timestamp, pending_async_dependencies, async_parent_modules>>
walk == <<phase, root, call, stack_top>>
bodies == <<running, runs, finished>>
vars == <<graph, record, dfs, async, walk, exec_list, bodies, late, imports>>

Set(f, X, v) == [m \in Mods |-> IF m \in X THEN v ELSE f[m]]

Requests(m) == Range(req_module_entries[m])
Reaches ==
  LET R[n \in 0..Cardinality(Mods)] ==
        IF n = 0 THEN [m \in Mods |-> {m}]
        ELSE [m \in Mods |-> R[n - 1][m] \cup UNION {R[n - 1][d] : d \in Requests(m)}]
  IN  R[Cardinality(Mods)]

----------------------------------------------------------------------------
(* The walk *)

Top == call[Len(call)]
NextRequest == req_module_entries[Top.m][Top.i]
Returned == Top.i > Len(req_module_entries[Top.m])
Advance == [call EXCEPT ![Len(call)].i = @ + 1]

\* The recursive call for m: it goes on the stack. Indices are only compared
\* between modules on the stack, so the place there stands for the index.
Enter(m, mark, frames) ==
  /\ status' = [status EXCEPT ![m] = mark]
  /\ dfs_index' = [dfs_index EXCEPT ![m] = Len(stack_top)]
  /\ dfs_ancestor_index' = [dfs_ancestor_index EXCEPT ![m] = Len(stack_top)]
  /\ stack_top' = Append(stack_top, m)
  /\ call' = Append(frames, [m |-> m, i |-> 1])

\* The component that m completes, if it is m's: what the stack holds from m on.
Component(m) ==
  IF dfs_index[m] = dfs_ancestor_index[m]
  THEN Range(SubSeq(stack_top, dfs_index[m] + 1, Len(stack_top)))
  ELSE {}
Pop(m) == stack_top' = SelectSeq(stack_top, LAMBDA x : x \notin Component(m))

\* Back from the request m1, or met again: while it is on the stack, the
\* component of the requesting module reaches down to m1's.
Lower(m1, mark) ==
  dfs_ancestor_index' =
    IF status[m1] = mark
    THEN [dfs_ancestor_index EXCEPT ![Top.m] = IF @ <= dfs_ancestor_index[m1] THEN @
                                               ELSE dfs_ancestor_index[m1]]
    ELSE dfs_ancestor_index

----------------------------------------------------------------------------
(* js_link_module with js_inner_module_linking *)

\* The job of import(): JS_EvalFunction links the module, if it has to.
Import(m) ==
  /\ phase = "idle" /\ imports > 0
  /\ imports' = imports - 1 /\ root' = m
  /\ IF status[m] = "unlinked"
     THEN phase' = "link" /\ Enter(m, "linking", <<>>)
     ELSE phase' = "begin" /\ UNCHANGED <<status, dfs, call, stack_top>>
  /\ UNCHANGED <<graph, cycle_root, promise, eval_has_exception, async, exec_list, bodies, late>>

LinkRequest ==
  /\ phase = "link" /\ ~Returned
  /\ IF status[NextRequest] = "unlinked"
     THEN Enter(NextRequest, "linking", call)
     ELSE /\ Lower(NextRequest, "linking")
          /\ call' = Advance
          /\ UNCHANGED <<status, dfs_index, stack_top>>
  /\ UNCHANGED <<graph, cycle_root, promise, eval_has_exception, async, phase, root, exec_list,
                 bodies, late, imports>>

\* The imports of a module resolve, and it is linked with its component.
Link ==
  /\ phase = "link" /\ Returned
  /\ status' = Set(status, Component(Top.m), "linked")
  /\ Pop(Top.m)
  /\ call' = Front(call)
  /\ phase' = IF Len(call) = 1 THEN "begin" ELSE "link"
  /\ UNCHANGED <<graph, cycle_root, promise, eval_has_exception, dfs, async, root, exec_list,
                 bodies, late, imports>>

\* Mutation, for LinkFails: only the module at fault is unlinked.
LinkFailsHere ==
  /\ phase = "link" /\ Returned
  /\ status' = [status EXCEPT ![Top.m] = "unlinked"]
  /\ stack_top' = <<>> /\ call' = <<>> /\ phase' = "idle"
  /\ UNCHANGED <<graph, cycle_root, promise, eval_has_exception, dfs, async, root, exec_list,
                 bodies, late, imports>>

\* An import or an export does not resolve: what is on the stack is unlinked.
LinkFails ==
  /\ phase = "link" /\ Returned
  /\ status' = Set(status, Range(stack_top), "unlinked")
  /\ stack_top' = <<>> /\ call' = <<>> /\ phase' = "idle"
  /\ UNCHANGED <<graph, cycle_root, promise, eval_has_exception, dfs, async, root, exec_list,
                 bodies, late, imports>>

----------------------------------------------------------------------------
(* js_evaluate_module with js_inner_module_evaluation *)

\* The flags that js_evaluate_module and its requests look at although the
\* module is done.
Leftover == {m \in Mods : status[m] = "evaluated" /\ async_evaluation[m] /\ ~eval_has_exception[m]}

\* A module seen before is represented by the root of its component; a promise
\* that exists is returned, a module that is done settles a new one.
Evaluate ==
  LET r == IF status[root] = "linked" THEN root ELSE cycle_root[root] IN
  /\ phase = "begin"
  /\ root' = r
  /\ late' = IF promise[r] = "none" /\ Leftover \cap Reaches[r] # {} THEN late \cup {r} ELSE late
  /\ IF promise[r] # "none"
     THEN phase' = "idle" /\ UNCHANGED <<status, promise, dfs, pending_async_dependencies, call, stack_top>>
     ELSE IF status[r] = "linked"
     THEN /\ phase' = "evaluate"
          /\ Enter(r, "evaluating", <<>>)
          /\ promise' = [promise EXCEPT ![r] = "pending"]
          /\ pending_async_dependencies' = [pending_async_dependencies EXCEPT ![r] = 0]
     ELSE /\ phase' = "idle"
          /\ promise' = [promise EXCEPT ![r] = IF eval_has_exception[r] THEN "rejected"
                                               ELSE IF async_evaluation[r] THEN "pending" ELSE "fulfilled"]
          /\ UNCHANGED <<status, dfs, pending_async_dependencies, call, stack_top>>
  /\ UNCHANGED <<graph, cycle_root, eval_has_exception, async_evaluation, async_evaluation_timestamp,
                 async_parent_modules, exec_list, bodies, imports>>

\* Mutation, for EvaluationFails: only the imported module has the exception.
EvaluationFailsAtRoot ==
  /\ status' = Set(status, Range(stack_top), "evaluated")
  /\ eval_has_exception' = [eval_has_exception EXCEPT ![root] = TRUE]
  /\ promise' = [promise EXCEPT ![root] = "rejected"]
  /\ stack_top' = <<>> /\ call' = <<>> /\ phase' = "idle"
  /\ UNCHANGED cycle_root

\* The walk ends with an exception: what is on the stack has it.
EvaluationFails ==
  /\ status' = Set(status, Range(stack_top), "evaluated")
  /\ eval_has_exception' = Set(eval_has_exception, Range(stack_top), TRUE)
  /\ cycle_root' = Set(cycle_root, Range(stack_top), root)
  /\ promise' = [promise EXCEPT ![root] = "rejected"]
  /\ stack_top' = <<>> /\ call' = <<>> /\ phase' = "idle"

\* Back from a request, or met again. m1 stands for its component once that is
\* complete; the module waits for it if it is asynchronous.
EvaluateRequest ==
  LET m == Top.m
      m1 == IF status[NextRequest] = "evaluating" THEN NextRequest ELSE cycle_root[NextRequest] IN
  /\ phase = "evaluate" /\ ~Returned
  /\ IF status[NextRequest] = "linked"
     THEN /\ Enter(NextRequest, "evaluating", call)
          /\ pending_async_dependencies' = [pending_async_dependencies EXCEPT ![NextRequest] = 0]
          /\ UNCHANGED <<cycle_root, promise, eval_has_exception, async_parent_modules, phase>>
     ELSE IF eval_has_exception[NextRequest] \/ eval_has_exception[m1]
     THEN EvaluationFails /\ UNCHANGED <<dfs, pending_async_dependencies, async_parent_modules>>
     ELSE /\ Lower(NextRequest, "evaluating")
          /\ IF async_evaluation[m1]
             THEN /\ pending_async_dependencies' = [pending_async_dependencies EXCEPT ![m] = @ + 1]
                  /\ async_parent_modules' = [async_parent_modules EXCEPT ![m1] = Append(@, m)]
             ELSE UNCHANGED <<pending_async_dependencies, async_parent_modules>>
          /\ call' = Advance
          /\ UNCHANGED <<record, dfs_index, phase, stack_top>>
  /\ UNCHANGED <<graph, async_evaluation, async_evaluation_timestamp, root, exec_list, bodies,
                 late, imports>>

Timestamp == Cardinality({m \in Mods : async_evaluation_timestamp[m] > 0}) + 1

\* All requests are back: the module waits, starts its body or runs it, and
\* its component is complete or it returns to the module that requested it.
EvaluateBody ==
  LET m == Top.m
      waits == pending_async_dependencies[m] > 0
      async1 == waits \/ m \in has_tla
      flags == IF async1 THEN [async_evaluation EXCEPT ![m] = TRUE] ELSE async_evaluation
      C == Component(m) IN
  /\ phase = "evaluate" /\ Returned
  /\ async_evaluation' = flags
  /\ async_evaluation_timestamp' =
       IF async1 THEN [async_evaluation_timestamp EXCEPT ![m] = Timestamp] ELSE async_evaluation_timestamp
  /\ running' = IF async1 /\ ~waits THEN running \cup {m} ELSE running
  /\ runs' = IF waits THEN runs ELSE [runs EXCEPT ![m] = @ + 1]
  /\ finished' = IF async1 THEN finished ELSE finished \cup {m}
  /\ status' = [x \in Mods |-> IF x \notin C THEN status[x]
                               ELSE IF flags[x] THEN "evaluating_async" ELSE "evaluated"]
  /\ cycle_root' = Set(cycle_root, C, m)
  /\ Pop(m)
  /\ call' = Front(call)
  /\ phase' = IF Len(call) = 1 THEN "idle" ELSE "evaluate"
  /\ promise' = IF Len(call) = 1 /\ ~flags[m] THEN [promise EXCEPT ![m] = "fulfilled"] ELSE promise
  /\ UNCHANGED <<graph, eval_has_exception, dfs, pending_async_dependencies, async_parent_modules,
                 root, exec_list, late, imports>>

\* js_execute_sync_module throws.
BodyThrows ==
  LET m == Top.m IN
  /\ phase = "evaluate" /\ Returned
  /\ pending_async_dependencies[m] = 0 /\ m \notin has_tla
  /\ runs' = [runs EXCEPT ![m] = @ + 1]
  /\ EvaluationFails
  /\ UNCHANGED <<graph, dfs, async, root, exec_list, running, finished, late, imports>>

----------------------------------------------------------------------------
(* The bodies that await *)

\* js_async_module_execution_rejected: m and, through the modules that wait for
\* them, all that are not done yet.
Rejected(m) ==
  LET Waiting(X) == UNION {Range(async_parent_modules[x]) : x \in X}
      R[n \in 0..Cardinality(Mods)] ==
        IF n = 0 THEN {m}
        ELSE R[n - 1] \cup {x \in Waiting(R[n - 1]) : status[x] = "evaluating_async"}
  IN  R[Cardinality(Mods)]

RejectWith(X) ==
  /\ status' = Set(status, X, "evaluated")
  /\ eval_has_exception' = Set(eval_has_exception, X, TRUE)
  /\ promise' = [x \in Mods |-> IF x \in X /\ promise[x] = "pending" THEN "rejected" ELSE promise[x]]

\* Mutation, for Gather: the modules that wait for another one too are listed.
GatherAll(g, m) ==
  FoldLeft(LAMBDA a, x : IF x \in Range(a.list) \/ eval_has_exception[cycle_root[x]] THEN a
                         ELSE [a EXCEPT !.pending[x] = @ - 1, !.list = Append(@, x)],
           g, async_parent_modules[m])

\* gather_available_ancestors: the counts go down, and the modules that wait
\* for nothing more are listed, with those that wait for the synchronous ones.
RECURSIVE Gather(_, _)
Gather(g, m) ==
  FoldLeft(LAMBDA a, x :
             IF x \in Range(a.list) \/ eval_has_exception[cycle_root[x]] THEN a
             ELSE LET b == [a EXCEPT !.pending[x] = @ - 1] IN
                  IF b.pending[x] # 0 THEN b
                  ELSE LET c == [b EXCEPT !.list = Append(@, x)] IN
                       IF x \in has_tla THEN c ELSE Gather(c, x),
           g, async_parent_modules[m])

Sorted(list) ==
  SortSeq(list, LAMBDA x, y : async_evaluation_timestamp[x] < async_evaluation_timestamp[y])

\* Mutation, for SetModuleEvaluated: the promise is left to another call.
SetEvaluatedOnly(m) ==
  status' = [status EXCEPT ![m] = "evaluated"] /\ UNCHANGED promise

\* js_set_module_evaluated.
SetModuleEvaluated(m) ==
  /\ status' = [status EXCEPT ![m] = "evaluated"]
  /\ promise' = [promise EXCEPT ![m] = IF @ = "pending" THEN "fulfilled" ELSE @]

\* js_async_module_execution_fulfilled up to its loop.
BodyFulfilled(m) ==
  LET g == Gather([pending |-> pending_async_dependencies, list |-> <<>>], m) IN
  /\ phase = "idle" /\ m \in running
  /\ running' = running \ {m} /\ finished' = finished \cup {m}
  /\ IF status[m] = "evaluated"
     THEN UNCHANGED <<status, promise, async_evaluation, pending_async_dependencies, exec_list, phase>>
     ELSE /\ async_evaluation' = [async_evaluation EXCEPT ![m] = FALSE]
          /\ SetModuleEvaluated(m)
          /\ pending_async_dependencies' = g.pending
          /\ exec_list' = Sorted(g.list)
          /\ phase' = "exec"
  /\ UNCHANGED <<graph, cycle_root, eval_has_exception, dfs, async_evaluation_timestamp,
                 async_parent_modules, root, call, stack_top, runs, late, imports>>

BodyRejected(m) ==
  /\ phase = "idle" /\ m \in running
  /\ running' = running \ {m}
  /\ IF status[m] = "evaluated" THEN UNCHANGED record
     ELSE RejectWith(Rejected(m)) /\ UNCHANGED cycle_root
  /\ UNCHANGED <<graph, dfs, async, walk, exec_list, runs, finished, late, imports>>

\* One iteration of the loop: ok says whether a synchronous body succeeds.
Execute(ok) ==
  LET m == Head(exec_list) IN
  /\ phase = "exec" /\ exec_list # <<>>
  /\ exec_list' = Tail(exec_list)
  /\ IF status[m] = "evaluated"
     THEN ok /\ UNCHANGED <<record, bodies>>
     ELSE /\ runs' = [runs EXCEPT ![m] = @ + 1]
          /\ UNCHANGED cycle_root
          /\ IF m \in has_tla
             THEN ok /\ running' = running \cup {m} /\ UNCHANGED <<status, promise, eval_has_exception, finished>>
             ELSE /\ IF ok THEN SetModuleEvaluated(m) /\ UNCHANGED eval_has_exception
                     ELSE RejectWith(Rejected(m))
                  /\ finished' = IF ok THEN finished \cup {m} ELSE finished
                  /\ UNCHANGED running
  /\ UNCHANGED <<graph, dfs, async, walk, late, imports>>

ExecuteEnd ==
  /\ phase = "exec" /\ exec_list = <<>> /\ phase' = "idle"
  /\ UNCHANGED <<graph, record, dfs, async, root, call, stack_top, exec_list, bodies, late, imports>>

----------------------------------------------------------------------------
Init ==
  /\ \E G \in Graphs :
       req_module_entries = [m \in Mods |-> SetToSortSeq(G[m], LAMBDA x, y : x < y)]
  /\ has_tla \in SUBSET Mods
  /\ status = [m \in Mods |-> "unlinked"]
  /\ cycle_root = [m \in Mods |-> m]
  /\ promise = [m \in Mods |-> "none"]
  /\ eval_has_exception = [m \in Mods |-> FALSE]
  /\ dfs_index = [m \in Mods |-> 0] /\ dfs_ancestor_index = [m \in Mods |-> 0]
  /\ async_evaluation = [m \in Mods |-> FALSE]
  /\ async_evaluation_timestamp = [m \in Mods |-> 0]
  /\ pending_async_dependencies = [m \in Mods |-> 0]
  /\ async_parent_modules = [m \in Mods |-> <<>>]
  /\ phase = "idle" /\ root \in {CHOOSE m \in Mods : TRUE} /\ call = <<>> /\ stack_top = <<>>
  /\ exec_list = <<>> /\ running = {} /\ finished = {} /\ late = {}
  /\ runs = [m \in Mods |-> 0]
  /\ imports = MaxImports

Walk == LinkRequest \/ Link \/ LinkFails \/ Evaluate \/ EvaluateRequest \/ EvaluateBody \/ BodyThrows
Loop == (\E ok \in BOOLEAN : Execute(ok)) \/ ExecuteEnd
Settle(m) == BodyFulfilled(m) \/ BodyRejected(m)

Next == (\E m \in Mods : Import(m) \/ Settle(m)) \/ Walk \/ Loop

Spec == Init /\ [][Next]_vars

\* C calls go on to their end, and what a body awaits settles at some time.
FairSpec == Spec /\ WF_vars(Walk) /\ WF_vars(Loop) /\ \A m \in Mods : WF_vars(Settle(m))

----------------------------------------------------------------------------
(* Properties *)

\* A body runs at most once, and after the bodies of the modules it requests,
\* those of its own cycle excepted: whatever awaits, throws or is imported
\* from elsewhere in between.
RunsOnceInOrder ==
  \A m \in Mods : /\ runs[m] <= 1
                  /\ runs[m] = 1 => \A d \in Requests(m) : d \in finished \/ m \in Reaches[d]

\* A promise of import() tells the truth: it is fulfilled when all the bodies
\* below have run to their end, and rejected when one of them threw.
PromiseTruthful ==
  \A m \in Mods :
    /\ promise[m] = "fulfilled" => Reaches[m] \subseteq finished
    /\ promise[m] = "rejected" => \E d \in Reaches[m] : runs[d] = 1 /\ d \notin finished \cup running

\* Between walks the marks of the search are gone, a linked module requests
\* only linked ones (a failed link took back as much as it had to), and what
\* gather_available_ancestors asserts of the modules it wakes holds.
GraphConsistent ==
  phase = "idle" =>
    \A m \in Mods :
      /\ status[m] \notin {"linking", "evaluating"}
      /\ status[m] # "unlinked" => \A d \in Requests(m) : status[d] # "unlinked"
      /\ status[m] = "evaluating_async" =>
           \A x \in Range(async_parent_modules[m]) :
             ~eval_has_exception[cycle_root[x]] =>
               status[x] = "evaluating_async" /\ async_evaluation[x] /\ pending_async_dependencies[x] > 0

\* An import that meets no module with a flag left behind is settled at last.
FreshImportsSettle ==
  \A m \in Mods : promise[m] = "pending" /\ m \notin late ~> promise[m] # "pending"

\* "Run the <eval> function of the module and of all its requested modules.
\* Return a promise": the promise of every import is settled at last.
ImportsSettle ==
  \A m \in Mods : promise[m] = "pending" ~> promise[m] # "pending"
=============================================================================
