---------------------------- MODULE TaskSchedule ----------------------------
(***************************************************************************)
(* The dispatch loop of a plan with several tasks.  The main session calls *)
(* task_graph.py with the tasks completed so far and spawns coders for     *)
(* ready tasks that are parallel-safe with every task in progress, while   *)
(* there is a free agent slot.  Coders, verifications and reviews end in   *)
(* any order, a spawn or a coder may fail, and the session may still act   *)
(* on an analysis that is older than the last completion.                  *)
(*                                                                         *)
(* What happens inside a task is TaskLoop; here it completes after at most *)
(* MaxFix fixes, or fails (blocked, stopped or escalated).                 *)
(***************************************************************************)
EXTENDS TaskGraph

CONSTANTS
  Graphs,    \* the declared task graphs
  Capacity,  \* agent slots
  MaxFix,    \* bound: fixes of one task
  None       \* no analysis yet

ASSUME ScheduleInputs ==
  /\ Graphs \subseteq Graph
  /\ Capacity \in Nat \ {0} /\ MaxFix \in Nat
  /\ None \notin Analysis

VARIABLES
  graph,   \* the declared tasks
  state,   \* where each task is
  fixes,   \* the fixes of each task so far
  plan     \* the last analysis

vars == <<graph, state, fixes, plan>>

Working    == {"coding", "reviewing", "fixing"}   \* these take an agent slot
InProgress == {t \in Tasks : state[t] \in Working \union {"verifying"}}
Completed  == {t \in Tasks : state[t] = "completed"}

ScheduleTypeOK ==
  /\ graph \in Graph
  /\ state \in [Tasks -> Working \union {"waiting", "verifying", "completed", "failed"}]
  /\ fixes \in [Tasks -> 0..MaxFix]
  /\ plan # None =>
       /\ plan.done \subseteq Tasks
       /\ plan.ready \subseteq Tasks \ plan.done
       /\ plan.parallel_safe \subseteq plan.ready \X plan.ready

Init ==
  /\ graph \in Graphs
  /\ state = [t \in Tasks |-> "waiting"]
  /\ fixes = [t \in Tasks |-> 0]
  /\ plan = None
-----------------------------------------------------------------------------
SlotFree == Cardinality({t \in Tasks : state[t] \in Working}) < Capacity
Becomes(t, next) == state' = [state EXCEPT ![t] = next]

\* task_graph.py with what is completed now.
AnalyzeGraph ==
  /\ plan # None => plan.done # Completed
  /\ plan' = Analyze(graph, Completed)
  /\ UNCHANGED <<graph, state, fixes>>

\* Ready, not started, and parallel-safe with all that is in progress.
MayDispatch(t) ==
  /\ plan # None /\ t \in plan.ready
  /\ state[t] = "waiting"
  /\ SlotFree
  /\ \A u \in InProgress : <<t, u>> \in plan.parallel_safe

Dispatch(t)   == MayDispatch(t) /\ Becomes(t, "coding") /\ UNCHANGED <<graph, fixes, plan>>
SpawnFails(t) == MayDispatch(t) /\ Becomes(t, "failed") /\ UNCHANGED <<graph, fixes, plan>>

CoderEnds(t) ==
  /\ state[t] \in {"coding", "fixing"}
  /\ Becomes(t, "verifying") \/ Becomes(t, "failed")
  /\ UNCHANGED <<graph, fixes, plan>>

\* A task without a task review is completed by its verification.
Verified(t) ==
  /\ state[t] = "verifying"
  /\ Becomes(t, "completed") \/ (SlotFree /\ Becomes(t, "reviewing"))
  /\ UNCHANGED <<graph, fixes, plan>>

FixNeeded(t) ==
  /\ state[t] = "reviewing" \/ (state[t] = "verifying" /\ SlotFree)
  /\ fixes[t] < MaxFix
  /\ fixes' = [fixes EXCEPT ![t] = @ + 1]
  /\ Becomes(t, "fixing")
  /\ UNCHANGED <<graph, plan>>

Reviewed(t) ==
  /\ state[t] = "reviewing"
  /\ Becomes(t, "completed") \/ Becomes(t, "failed")
  /\ UNCHANGED <<graph, fixes, plan>>

Next ==
  \/ \E t \in Tasks : \/ Dispatch(t) \/ SpawnFails(t) \/ CoderEnds(t)
                      \/ Verified(t) \/ FixNeeded(t) \/ Reviewed(t)
  \/ AnalyzeGraph

Spec == Init /\ [][Next]_vars

\* The main session goes on and its agents answer.
FairSpec == Spec /\ WF_vars(Next)
-----------------------------------------------------------------------------
(* Coders that work at the same time never own the same path, although the *)
(* session may act on an old analysis: parallel_safe holds for every pair  *)
(* in progress, and write sets do not change.                              *)
WritersDisjoint ==
  \A t, u \in InProgress :
    t # u => graph.write_set[t] \intersect graph.write_set[u] = {}

(* No task is started before everything it depends on, however indirectly, *)
(* is completed, although ready looks at direct predecessors only.         *)
AncestorsFirst ==
  \A t \in Tasks :
    state[t] # "waiting" => Ancestors(graph, t) \subseteq Completed

(* The completed set of a session that obeys the analysis is always closed *)
(* under predecessors, so analyze never rejects a consistent plan half way.*)
NeverRejected == plan # None /\ Consistent(graph) => plan.accepted

(* The cycles are exactly the sets of tasks that are ancestors of each     *)
(* other: what two passes of Kosaraju find is what cycles are.             *)
CyclesFound ==
  plan # None /\ plan.accepted =>
    plan.cycles =
      {{u \in Ids(graph) : t \in Ancestors(graph, u) /\ u \in Ancestors(graph, t)} :
         t \in {t \in Ids(graph) : t \in Ancestors(graph, t)}}

(* The order of an acyclic plan lists every task once, after its ancestors.*)
OrderIsTopological ==
  plan # None /\ plan.accepted /\ plan.cycles = {} =>
    /\ Len(plan.order) = Len(graph.ids) /\ ToSet(plan.order) = Ids(graph)
    /\ \A i, j \in DOMAIN plan.order :
         plan.order[i] \in Ancestors(graph, plan.order[j]) => i < j

(* Every task of an acyclic plan ends: it completes, or it or something it *)
(* depends on fails.                                                       *)
Over(t) ==
  \/ state[t] \in {"completed", "failed"}
  \/ \E a \in Ancestors(graph, t) : state[a] = "failed"
Schedulable ==
  Consistent(graph) /\ \A t \in Ids(graph) : t \notin Ancestors(graph, t)
TasksEnd == Schedulable ~> \A t \in Ids(graph) : Over(t)
=============================================================================
