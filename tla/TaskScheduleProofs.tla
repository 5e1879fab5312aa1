------------------------- MODULE TaskScheduleProofs -------------------------
(***************************************************************************)
(* Theorems of TaskSchedule for every set of graphs, every capacity and    *)
(* every number of fixes: first the dispatch loop and what it uses of an   *)
(* analysis, then the traversals of a graph that analyze makes (Kosaraju   *)
(* and Kahn).  Their loops are shown to end, with what their invariants    *)
(* promise, by a rule for Loop that rests on the least-number principle.   *)
(***************************************************************************)
EXTENDS TaskSchedule, SequenceTheorems, FiniteSetTheorems, WellFoundedInduction, TLAPS

(* The predecessors of a task are among its ancestors.                     *)
LEMMA PredecessorIsAncestor ==
  ASSUME NEW g \in Graph, NEW t \in Tasks
  PROVE  g.predecessors[t] \subseteq Ancestors(g, t)
<1>1. g.predecessors[t] \subseteq Tasks
  BY DEF Graph
<1> QED
  BY <1>1 DEF Ancestors

(* A set closed under predecessors that holds the predecessors of a task   *)
(* holds its ancestors: the worklist adds nothing else.                    *)
LEMMA AncestorsLeast ==
  ASSUME NEW g \in Graph, NEW t \in Tasks, NEW s \in SUBSET Tasks,
         g.predecessors[t] \subseteq s, Closed(g, s)
  PROVE  Ancestors(g, t) \subseteq s
BY DEF Ancestors

(* ready of analyze: every ancestor is completed, not only the direct      *)
(* predecessors it looks at, because analyze has rejected a completed set  *)
(* that is not closed.                                                     *)
LEMMA ReadySound ==
  ASSUME NEW g \in Graph, NEW done \in SUBSET Tasks,
         NEW t \in Analyze(g, done).ready
  PROVE  /\ t \in Ids(g) /\ t \in Tasks \ done
         /\ Ancestors(g, t) \subseteq done
<1>1. Accepted(g, done) /\ t \in Ready(g, done)
  BY DEF Analyze
<1>2. /\ t \in Ids(g) \ done
      /\ g.predecessors[t] \subseteq done
  BY <1>1 DEF Ready
<1>3. Ids(g) \subseteq Tasks
  BY DEF Ids, ToSet, Graph
<1>4. Closed(g, done)
  <2> SUFFICES ASSUME NEW v \in done
               PROVE  g.predecessors[v] \subseteq done
    BY DEF Closed
  <2>1. g.predecessors[v] \subseteq Ancestors(g, v)
    BY PredecessorIsAncestor
  <2>2. Ancestors(g, v) \subseteq done
    BY <1>1 DEF Accepted
  <2> QED
    BY <2>1, <2>2
<1> QED
  BY <1>2, <1>3, <1>4, AncestorsLeast

(* parallel_safe of analyze: the pair owns no path in common.              *)
LEMMA ParallelSafeSound ==
  ASSUME NEW g \in Graph, NEW done \in SUBSET Tasks, NEW t, NEW u,
         <<t, u>> \in Analyze(g, done).parallel_safe
  PROVE  g.write_set[t] \intersect g.write_set[u] = {}
<1>1. <<t, u>> \in ParallelSafe(g, done)
  BY DEF Analyze
<1> QED
  BY <1>1 DEF ParallelSafe
-----------------------------------------------------------------------------
(* The inductive invariant: the last analysis, however old, still speaks   *)
(* the truth, because completed tasks stay completed and graphs stay.      *)
PlanSound ==
  plan # None =>
    /\ plan.done \subseteq Completed
    /\ \A t \in plan.ready :
         /\ t \in Ids(graph) /\ t \in Tasks
         /\ Ancestors(graph, t) \subseteq plan.done
    /\ \A t, u \in Tasks : <<t, u>> \in plan.parallel_safe =>
         graph.write_set[t] \intersect graph.write_set[u] = {}

StartedKnown == \A t \in Tasks : state[t] # "waiting" => t \in Ids(graph)

IInv ==
  /\ ScheduleTypeOK /\ PlanSound /\ StartedKnown
  /\ AncestorsFirst /\ WritersDisjoint /\ NeverRejected

LEMMA InitInv == Init => IInv
<1> SUFFICES ASSUME Init PROVE IInv
  OBVIOUS
<1>1. ScheduleTypeOK
  BY ScheduleInputs DEF Init, ScheduleTypeOK
<1>2. \A t \in Tasks : state[t] = "waiting"
  BY DEF Init
<1>3. InProgress = {}
  BY <1>2 DEF InProgress, Working
<1> QED
  BY <1>1, <1>2, <1>3
  DEF Init, IInv, PlanSound, StartedKnown, AncestorsFirst, WritersDisjoint, NeverRejected

(* A step that leaves the graph and the analysis alone and moves a started *)
(* task that is not completed keeps the invariant.                         *)
LEMMA StartedMoves ==
  ASSUME IInv, NEW t \in Tasks,
         state[t] \in Working \union {"verifying"},
         NEW next \in Working \union {"verifying", "completed", "failed"},
         Becomes(t, next), fixes' \in [Tasks -> 0..MaxFix],
         UNCHANGED <<graph, plan>>
  PROVE  IInv'
<1> USE DEF IInv
<1>1. ScheduleTypeOK'
  BY DEF ScheduleTypeOK, Becomes
<1>2. \A u \in Tasks : state'[u] = IF u = t THEN next ELSE state[u]
  BY DEF ScheduleTypeOK, Becomes
<1>3. Completed \subseteq Completed'
  BY <1>2 DEF Completed, Working
<1>4. InProgress' \subseteq InProgress
  BY <1>2 DEF InProgress, Working
<1>5. \A u \in Tasks : state'[u] # "waiting" => state[u] # "waiting"
  BY <1>2 DEF Working
<1>6. PlanSound'
  BY <1>3 DEF PlanSound
<1>7. StartedKnown'
  BY <1>5 DEF StartedKnown
<1>8. AncestorsFirst'
  BY <1>3, <1>5 DEF AncestorsFirst
<1>9. WritersDisjoint'
  BY <1>4 DEF WritersDisjoint
<1>10. NeverRejected'
  BY DEF NeverRejected
<1> QED
  BY <1>1, <1>6, <1>7, <1>8, <1>9, <1>10

(* Starting a task the analysis allows keeps the invariant.                *)
LEMMA Starts ==
  ASSUME IInv, NEW t \in Tasks, MayDispatch(t),
         NEW next \in {"coding", "failed"},
         Becomes(t, next), UNCHANGED <<graph, fixes, plan>>
  PROVE  IInv'
<1> USE DEF IInv
<1>1. ScheduleTypeOK'
  BY DEF ScheduleTypeOK, Becomes, Working
<1>2. \A u \in Tasks : state'[u] = IF u = t THEN next ELSE state[u]
  BY DEF ScheduleTypeOK, Becomes
<1>3. Completed \subseteq Completed'
  BY <1>2 DEF Completed, MayDispatch
<1>4. PlanSound'
  BY <1>3 DEF PlanSound
<1>5. t \in Ids(graph) /\ Ancestors(graph, t) \subseteq Completed
  BY DEF MayDispatch, PlanSound
<1>6. StartedKnown'
  BY <1>2, <1>5 DEF StartedKnown
<1>7. AncestorsFirst'
  BY <1>2, <1>3, <1>5 DEF AncestorsFirst
<1>8. WritersDisjoint'
  <2>1. InProgress' \subseteq InProgress \union {t}
    BY <1>2 DEF InProgress, Working
  <2>2. \A u \in InProgress :
          graph.write_set[t] \intersect graph.write_set[u] = {}
    BY DEF MayDispatch, PlanSound, InProgress
  <2> QED
    BY <2>1, <2>2 DEF WritersDisjoint
<1>9. NeverRejected'
  BY DEF NeverRejected
<1> QED
  BY <1>1, <1>4, <1>6, <1>7, <1>8, <1>9

(* A new analysis keeps the invariant: what is completed is closed under   *)
(* predecessors and known, so analyze accepts it.                          *)
LEMMA AnalysisSound ==
  ASSUME IInv, AnalyzeGraph
  PROVE  IInv'
<1> USE DEF IInv, AnalyzeGraph
<1>1. graph \in Graph /\ Completed \in SUBSET Tasks
  BY DEF ScheduleTypeOK, Completed
<1>2. UNCHANGED <<graph, state>> /\ plan' = Analyze(graph, Completed)
  OBVIOUS
<1>3. plan'.done = Completed
  BY <1>2 DEF Analyze
<1>4. PlanSound'
  <2>1. ASSUME NEW t \in plan'.ready
        PROVE  t \in Ids(graph) /\ t \in Tasks /\ Ancestors(graph, t) \subseteq plan'.done
    BY <2>1, <1>1, <1>2, <1>3, ReadySound
  <2>2. ASSUME NEW t \in Tasks, NEW u \in Tasks, <<t, u>> \in plan'.parallel_safe
        PROVE  graph.write_set[t] \intersect graph.write_set[u] = {}
    BY <2>2, <1>1, <1>2, ParallelSafeSound
  <2>3. Completed' = Completed
    BY <1>2 DEF Completed
  <2> QED
    BY <1>2, <1>3, <2>1, <2>2, <2>3 DEF PlanSound
<1>5. NeverRejected'
  <2>1. Completed \subseteq Ids(graph)
    BY DEF StartedKnown, Completed
  <2>2. \A t \in Completed : Ancestors(graph, t) \subseteq Completed
    BY DEF AncestorsFirst, Completed
  <2>3. Consistent(graph) => Accepted(graph, Completed)
    BY <2>1, <2>2 DEF Accepted
  <2>4. plan'.accepted = Accepted(graph, Completed)
    BY <1>2 DEF Analyze
  <2> QED
    BY <1>2, <2>3, <2>4 DEF NeverRejected
<1>6. ScheduleTypeOK'
  <2>1. plan'.ready \subseteq Tasks \ plan'.done
    BY <1>1, <1>2, <1>3, ReadySound
  <2>2. plan'.parallel_safe \subseteq plan'.ready \X plan'.ready
    BY <1>2 DEF Analyze, ParallelSafe
  <2> QED
    BY <1>1, <1>2, <1>3, <2>1, <2>2 DEF ScheduleTypeOK
<1>7. StartedKnown' /\ AncestorsFirst' /\ WritersDisjoint'
  BY <1>2 DEF StartedKnown, AncestorsFirst, WritersDisjoint,
              Completed, InProgress
<1> QED
  BY <1>4, <1>5, <1>6, <1>7

LEMMA NextInv == IInv /\ [Next]_vars => IInv'
<1> SUFFICES ASSUME IInv, [Next]_vars PROVE IInv'
  OBVIOUS
<1>1. CASE AnalyzeGraph
  BY <1>1, AnalysisSound
<1>2. ASSUME NEW t \in Tasks, Dispatch(t) \/ SpawnFails(t) PROVE IInv'
  BY <1>2, Starts DEF Dispatch, SpawnFails
<1>3. ASSUME NEW t \in Tasks, CoderEnds(t) PROVE IInv'
  BY <1>3, StartedMoves DEF CoderEnds, Working, IInv, ScheduleTypeOK
<1>4. ASSUME NEW t \in Tasks, Verified(t) PROVE IInv'
  BY <1>4, StartedMoves DEF Verified, Working, IInv, ScheduleTypeOK
<1>5. ASSUME NEW t \in Tasks, FixNeeded(t) PROVE IInv'
  <2>1. fixes' \in [Tasks -> 0..MaxFix]
    BY <1>5, ScheduleInputs DEF FixNeeded, IInv, ScheduleTypeOK
  <2> QED
    BY <1>5, <2>1, StartedMoves DEF FixNeeded, Working
<1>6. ASSUME NEW t \in Tasks, Reviewed(t) PROVE IInv'
  BY <1>6, StartedMoves DEF Reviewed, Working, IInv, ScheduleTypeOK
<1>7. CASE UNCHANGED vars
  BY <1>7 DEF vars, IInv, ScheduleTypeOK, PlanSound, StartedKnown, AncestorsFirst,
              WritersDisjoint, NeverRejected, Completed, InProgress
<1> QED
  BY <1>1, <1>2, <1>3, <1>4, <1>5, <1>6, <1>7 DEF Next

(* The invariant holds throughout.                                         *)
LEMMA ScheduleInductive == Spec => []IInv
BY InitInv, NextInv, PTL DEF Spec

(* The session and the analysis it acts on keep their types; what analyze  *)
(* calls ready is not completed, and its pairs are of ready tasks.         *)
THEOREM ScheduleTypeCorrect == Spec => []ScheduleTypeOK
<1>1. IInv => ScheduleTypeOK
  BY DEF IInv
<1> QED
  BY <1>1, ScheduleInductive, PTL

(* Coders that work at the same time own no path in common.                *)
THEOREM ScheduleWritersDisjoint == Spec => []WritersDisjoint
<1>1. IInv => WritersDisjoint
  BY DEF IInv
<1> QED
  BY <1>1, ScheduleInductive, PTL

(* No task starts before all its ancestors are completed.                  *)
THEOREM ScheduleAncestorsFirst == Spec => []AncestorsFirst
<1>1. IInv => AncestorsFirst
  BY DEF IInv
<1> QED
  BY <1>1, ScheduleInductive, PTL

(* The completed set of a session is never rejected by analyze.            *)
THEOREM ScheduleNeverRejected == Spec => []NeverRejected
<1>1. IInv => NeverRejected
  BY DEF IInv
<1> QED
  BY <1>1, ScheduleInductive, PTL
-----------------------------------------------------------------------------
(* Induction by a least counterexample: the least-number principle for sets *)
(* instead of predicates.                                                  *)
LEMMA LeastMember ==
  ASSUME NEW s \in SUBSET Nat, s # {}
  PROVE  \E n \in s : \A m \in s : ~(m < n)
<1>1. IsWellFoundedOn({p \in Nat \X Nat : p[1] < p[2]}, Nat)
  BY NatLessThanWellFounded DEF OpToRel
<1>2. PICK n \in s : \A m \in s : ~(<<m, n>> \in {p \in Nat \X Nat : p[1] < p[2]})
  BY <1>1, WFMin
<1>3. ASSUME NEW m \in s, m < n PROVE FALSE
  <2>1. <<m, n>> \in {p \in Nat \X Nat : p[1] < p[2]}
    BY <1>3
  <2> QED
    BY <1>2, <2>1
<1> QED
  BY <1>3

(* A loop whose steps stay within its states does what its text says.  Its  *)
(* function exists: the value at w is the stopping state on the orbit of w, *)
(* the least set with w that the steps do not leave.                       *)
LEMMA LoopUnfolds ==
  ASSUME NEW S, NEW stop, NEW step, \A w \in S \ stop : step[w] \in S
  PROVE  \A w \in S : Loop(S, stop, step, w) =
                        IF w \in stop THEN w ELSE Loop(S, stop, step, step[w])
<1> DEFINE Holds(s, w) == w \in s /\ \A x \in s \ stop : step[x] \in s
           orbit(w) == {x \in S : \A s \in SUBSET S : Holds(s, w) => x \in s}
           out == [w \in S |-> CHOOSE x : x \in orbit(w) \intersect stop]
           body(f) == [w \in S |-> IF w \in stop THEN w ELSE f[step[w]]]
<1>1. ASSUME NEW w \in S, w \in stop PROVE out[w] = w
  <2>1. Holds({w}, w)
    BY <1>1
  <2>2. w \in orbit(w)
    OBVIOUS
  <2>3. orbit(w) = {w}
    BY <2>1, <2>2
  <2> QED
    BY <1>1, <2>3
<1>2. ASSUME NEW w \in S, w \notin stop PROVE out[w] = out[step[w]]
  <2>1. orbit(step[w]) \subseteq orbit(w)
    <3> SUFFICES ASSUME NEW s \in SUBSET S, Holds(s, w) PROVE Holds(s, step[w])
      OBVIOUS
    <3> QED
      BY <1>2
  <2>2. orbit(w) \subseteq orbit(step[w]) \union {w}
    <3> SUFFICES ASSUME NEW x \in orbit(w), x # w, NEW s \in SUBSET S, Holds(s, step[w])
                 PROVE  x \in s
      OBVIOUS
    <3>1. Holds(s \union {w}, w)
      BY <1>2
    <3> QED
      BY <3>1
  <2>3. orbit(w) \intersect stop = orbit(step[w]) \intersect stop
    BY <1>2, <2>1, <2>2
  <2> HIDE DEF orbit
  <2> QED
    BY <1>2, <2>3
<1>3. out = body(out)
  <2> HIDE DEF orbit
  <2> SUFFICES ASSUME NEW w \in S PROVE out[w] = body(out)[w]
    OBVIOUS
  <2> QED
    BY <1>1, <1>2
<1> DEFINE run == CHOOSE f : f = body(f)
<1> HIDE DEF out
<1>4. run = body(run)
  BY <1>3
<1>5. \A w : Loop(S, stop, step, w) = run[w]
  BY DEF Loop
<1> HIDE DEF run
<1>6. \A w \in S : run[w] = IF w \in stop THEN w ELSE run[step[w]]
  BY <1>4
<1> QED
  BY <1>5, <1>6

(* The rule for loops: an invariant and a measure that every step lowers.  *)
LEMMA LoopEnds ==
  ASSUME NEW S, NEW stop, NEW step, \A w \in S \ stop : step[w] \in S,
         NEW inv \in SUBSET S, NEW measure \in [inv -> Nat],
         \A w \in inv \ stop : step[w] \in inv /\ measure[step[w]] < measure[w]
  PROVE  \A w \in inv : Loop(S, stop, step, w) \in inv \intersect stop
<1> DEFINE out(w) == Loop(S, stop, step, w)
           bad == {w \in inv : out(w) \notin inv \intersect stop}
           sizes == {measure[w] : w \in bad}
<1>1. \A w \in inv : out(w) = IF w \in stop THEN w ELSE out(step[w])
  BY LoopUnfolds
<1> HIDE DEF out
<1> SUFFICES ASSUME bad # {} PROVE FALSE
  BY DEF out
<1>2. sizes \in SUBSET Nat /\ sizes # {}
  OBVIOUS
<1> HIDE DEF sizes
<1>3. PICK n \in sizes : \A m \in sizes : ~(m < n)
  BY <1>2, LeastMember
<1>4. PICK w \in bad : n = measure[w]
  BY DEF sizes
<1>5. w \notin stop /\ step[w] \in bad
  BY <1>1
<1>6. measure[step[w]] \in sizes
  BY <1>5 DEF sizes
<1> QED
  BY <1>3, <1>4, <1>5, <1>6
-----------------------------------------------------------------------------
(* Ways through a graph. *)

(* u is t or an ancestor of t. *)
Leads(g, u, t) == u = t \/ u \in Ancestors(g, t)

(* The ancestors of a task are closed under predecessors.                  *)
LEMMA AncestorsClosed ==
  ASSUME NEW g \in Graph, NEW t \in Tasks
  PROVE  Ancestors(g, t) \subseteq Tasks /\ Closed(g, Ancestors(g, t))
<1>1. \A v \in Ancestors(g, t) : g.predecessors[v] \subseteq Tasks
  BY DEF Ancestors, Graph
<1> QED
  BY <1>1 DEF Ancestors, Closed

(* Ancestors of ancestors are ancestors.                                   *)
LEMMA AncestorsTransitive ==
  ASSUME NEW g \in Graph, NEW t \in Tasks, NEW u \in Ancestors(g, t)
  PROVE  Ancestors(g, u) \subseteq Ancestors(g, t)
<1>1. u \in Tasks /\ Ancestors(g, t) \in SUBSET Tasks /\ Closed(g, Ancestors(g, t))
  BY AncestorsClosed
<1>2. g.predecessors[u] \subseteq Ancestors(g, t)
  BY <1>1 DEF Closed
<1> QED
  BY <1>1, <1>2, AncestorsLeast

(* Ways through a graph can be put together.                               *)
LEMMA LeadsOn ==
  ASSUME NEW g \in Graph, NEW t \in Tasks, NEW u \in Tasks, NEW v \in Tasks,
         Leads(g, u, v)
  PROVE  /\ v \in g.predecessors[t] => u \in Ancestors(g, t)
         /\ v \in Ancestors(g, t) => u \in Ancestors(g, t)
         /\ Leads(g, v, t) => Leads(g, u, t)
BY AncestorsTransitive, PredecessorIsAncestor DEF Leads

(* A consistent graph: edges are mirrored and stay among the declared ids. *)
LEMMA EdgesMirrored ==
  ASSUME NEW g \in Graph, Consistent(g), NEW t \in Ids(g)
  PROVE  /\ g.successors[t] \subseteq Ids(g) /\ g.predecessors[t] \subseteq Ids(g)
         /\ \A u \in g.successors[t] : t \in g.predecessors[u]
         /\ \A u \in g.predecessors[t] : t \in g.successors[u]
BY DEF Consistent

(* The ancestors of a declared task are declared.                          *)
LEMMA AncestorsDeclared ==
  ASSUME NEW g \in Graph, Consistent(g), NEW t \in Ids(g)
  PROVE  t \in Tasks /\ Ancestors(g, t) \subseteq Ids(g)
<1>1. Ids(g) \in SUBSET Tasks
  BY DEF Ids, ToSet, Graph
<1>2. Closed(g, Ids(g)) /\ g.predecessors[t] \subseteq Ids(g)
  BY EdgesMirrored DEF Closed
<1> QED
  BY <1>1, <1>2, AncestorsLeast

(* The first step of a way backwards.                                      *)
LEMMA AncestorsUnfold ==
  ASSUME NEW g \in Graph, NEW t \in Tasks, NEW u \in Ancestors(g, t)
  PROVE  \E p \in g.predecessors[t] : Leads(g, u, p)
<1> DEFINE s == {x \in Tasks : \E p \in g.predecessors[t] : Leads(g, x, p)}
<1>1. g.predecessors \in [Tasks -> SUBSET Tasks]
  BY DEF Graph
<1>2. g.predecessors[t] \subseteq s
  BY <1>1 DEF Leads
<1>3. Closed(g, s)
  <2> SUFFICES ASSUME NEW v \in s, NEW x \in g.predecessors[v] PROVE x \in s
    BY DEF Closed
  <2>1. PICK p \in g.predecessors[t] : Leads(g, v, p)
    OBVIOUS
  <2>2. x \in Tasks /\ p \in Tasks
    BY <1>1
  <2>3. Leads(g, x, v)
    BY PredecessorIsAncestor DEF Leads
  <2> QED
    BY <2>1, <2>2, <2>3, LeadsOn
<1> HIDE DEF s
<1>4. s \in SUBSET Tasks
  BY DEF s
<1>5. u \in s
  BY <1>2, <1>3, <1>4, AncestorsLeast
<1> QED
  BY <1>5 DEF s

(* A way from inside of a set to the outside crosses its border.           *)
LEMMA WayOut ==
  ASSUME NEW g \in Graph, NEW t \in Tasks, NEW u \in Ancestors(g, t), NEW s,
         u \in s, t \notin s
  PROVE  \E a \in s \intersect Tasks, b \in Tasks \ s :
           a \in g.predecessors[b] /\ Leads(g, u, a) /\ Leads(g, b, t)
<1> SUFFICES ASSUME \A a \in s \intersect Tasks, b \in Tasks \ s :
                      ~(a \in g.predecessors[b] /\ Leads(g, u, a) /\ Leads(g, b, t))
             PROVE  FALSE
  OBVIOUS
<1> DEFINE z == {x \in Ancestors(g, t) : ~(x \in s /\ Leads(g, u, x))}
<1>1. g.predecessors \in [Tasks -> SUBSET Tasks]
  BY DEF Graph
<1>2. Ancestors(g, t) \subseteq Tasks /\ Closed(g, Ancestors(g, t))
  BY AncestorsClosed
<1>3. g.predecessors[t] \subseteq z
  BY <1>1, PredecessorIsAncestor DEF Leads
<1>4. ASSUME NEW v \in z, NEW x \in g.predecessors[v] PROVE x \in z
  <2>1. v \in Tasks /\ x \in Tasks /\ x \in Ancestors(g, t)
    BY <1>1, <1>2 DEF Closed
  <2>2. Leads(g, u, x) => Leads(g, u, v)
    BY <1>2, <2>1, LeadsOn DEF Leads
  <2> QED
    BY <2>1, <2>2 DEF Leads
<1>5. Ancestors(g, t) \subseteq z
  <2> HIDE DEF z
  <2>1. Closed(g, z)
    BY <1>4 DEF Closed
  <2>2. z \in SUBSET Tasks
    BY <1>2 DEF z
  <2> QED
    BY <1>3, <2>1, <2>2, AncestorsLeast
<1> QED
  BY <1>5 DEF Leads
-----------------------------------------------------------------------------
(* The declared ids and their order. *)

(* There are finitely many declared tasks.                                 *)
LEMMA IdsFinite ==
  ASSUME NEW g \in Graph
  PROVE  Ids(g) \in SUBSET Tasks /\ IsFiniteSet(Ids(g))
<1>1. g.ids \in Seq(Tasks)
  BY DEF Graph
<1>2. g.ids \in Surjection(1..Len(g.ids), Ids(g))
  BY <1>1 DEF Surjection, Ids, ToSet
<1>3. IsFiniteSet(1..Len(g.ids))
  BY <1>1, FS_Interval
<1> QED
  BY <1>1, <1>2, <1>3, FS_Surjection DEF Ids, ToSet

(* InOrder lists what it is asked for, no more often than ids does.        *)
LEMMA InOrderLists ==
  ASSUME NEW g \in Graph, NEW tasks
  PROVE  /\ InOrder(g, tasks) \in Seq(Tasks)
         /\ ToSet(InOrder(g, tasks)) = Ids(g) \intersect tasks
         /\ Len(InOrder(g, tasks)) <= Len(g.ids)
         /\ IsInjective(g.ids) => IsInjective(InOrder(g, tasks))
<1> DEFINE at == {i \in DOMAIN g.ids : g.ids[i] \in tasks}
           upTo(i) == {j \in at : j <= i}
           rank == [i \in at |-> Cardinality(upTo(i))]
           nth == [k \in 1..Cardinality(at) |-> Nth(at, k)]
<1>1. g.ids \in Seq(Tasks) /\ DOMAIN g.ids = 1..Len(g.ids) /\ Len(g.ids) \in Nat
  BY DEF Graph
<1> HIDE DEF nth, rank
<1>2. /\ IsFiniteSet(at) /\ Cardinality(at) \in Nat /\ Cardinality(at) <= Len(g.ids)
      /\ at \subseteq Nat
  <2>1. IsFiniteSet(1..Len(g.ids)) /\ Cardinality(1..Len(g.ids)) = Len(g.ids)
    <3> DEFINE n == Len(g.ids)
    <3>1. n \in Nat
      BY <1>1
    <3> HIDE DEF n
    <3>2. IsFiniteSet(1..n) /\ Cardinality(1..n) = n
      BY <3>1, FS_Interval
    <3> QED
      BY <3>2 DEF n
  <2> HIDE DEF upTo
  <2>2. at \in SUBSET (1..Len(g.ids))
    BY <1>1
  <2> QED
    BY <2>1, <2>2, FS_Subset, FS_CardinalityType
<1> HIDE DEF at
<1>3. ASSUME NEW i \in at
      PROVE  /\ IsFiniteSet(upTo(i)) /\ rank[i] \in 1..Cardinality(at)
             /\ \A j \in at : j < i => rank[j] < rank[i]
  <2>1. /\ IsFiniteSet(upTo(i)) /\ Cardinality(upTo(i)) <= Cardinality(at)
        /\ Cardinality(upTo(i)) \in Nat
    BY <1>2, FS_Subset, FS_CardinalityType
  <2>2. i \in upTo(i)
    BY <1>2
  <2>3. Cardinality(upTo(i)) # 0
    BY <2>1, <2>2, FS_EmptySet
  <2>4. ASSUME NEW j \in at, j < i PROVE rank[j] < rank[i]
    <3>1. \A k \in at : k <= j => k <= i
      BY <1>2, <2>4
    <3>2. ~(i <= j)
      BY <1>2, <2>4
    <3>3. upTo(j) \subseteq upTo(i) /\ i \notin upTo(j)
      BY <3>1, <3>2
    <3>4. /\ Cardinality(upTo(j)) <= Cardinality(upTo(i))
          /\ Cardinality(upTo(j)) # Cardinality(upTo(i))
      BY <2>1, <2>2, <3>3, FS_Subset
    <3>5. Cardinality(upTo(j)) \in Nat
      BY <2>1, <3>3, FS_Subset, FS_CardinalityType
    <3> HIDE DEF upTo
    <3> QED
      BY <2>1, <3>4, <3>5 DEF rank
  <2> HIDE DEF upTo
  <2> QED
    BY <1>2, <2>1, <2>3, <2>4 DEF rank
<1> HIDE DEF upTo
<1>4. \A i, j \in at : rank[i] = rank[j] => i = j
  BY <1>2, <1>3
<1>5. rank \in Surjection(at, 1..Cardinality(at))
  <2>1. rank \in [at -> 1..Cardinality(at)]
    BY <1>3 DEF rank
  <2>2. rank \in Injection(at, 1..Cardinality(at))
    BY <2>1, <1>4 DEF Injection, IsInjective
  <2>3. /\ IsFiniteSet(1..Cardinality(at))
        /\ Cardinality(1..Cardinality(at)) = Cardinality(at)
    BY <1>2, FS_Interval
  <2> QED
    BY <2>2, <2>3, FS_Injection
<1>6. \A k \in 1..Cardinality(at) : nth[k] \in at /\ rank[nth[k]] = k
  <2> SUFFICES ASSUME NEW k \in 1..Cardinality(at)
               PROVE  nth[k] \in at /\ rank[nth[k]] = k
    OBVIOUS
  <2>1. \E i \in at : rank[i] = k
    BY <1>5 DEF Surjection
  <2>2. \E i \in at : Cardinality({j \in at : j <= i}) = k
    BY <2>1 DEF rank, upTo
  <2>3. Nth(at, k) \in at /\ Cardinality({j \in at : j <= Nth(at, k)}) = k
    BY <2>2 DEF Nth
  <2> QED
    BY <2>3 DEF nth, rank, upTo
<1>7. \A i \in at : \E k \in 1..Cardinality(at) : nth[k] = i
  <2> SUFFICES ASSUME NEW i \in at PROVE nth[rank[i]] = i
    BY <1>3
  <2>1. rank[i] \in 1..Cardinality(at)
    BY <1>3
  <2>2. nth[rank[i]] \in at /\ rank[nth[rank[i]]] = rank[i]
    BY <1>6, <2>1
  <2> QED
    BY <1>4, <2>2
<1>8. InOrder(g, tasks) = [k \in 1..Cardinality(at) |-> g.ids[nth[k]]]
  BY DEF InOrder, at, nth
<1>9. \A i \in at : i \in 1..Len(g.ids) /\ g.ids[i] \in tasks /\ g.ids[i] \in Tasks
  BY <1>1 DEF at
<1>10. /\ InOrder(g, tasks) \in Seq(Tasks)
      /\ Len(InOrder(g, tasks)) = Cardinality(at)
  <2>1. InOrder(g, tasks) \in [1..Cardinality(at) -> Tasks]
    BY <1>6, <1>8, <1>9
  <2> QED
    BY <1>2, <2>1
<1>11. ToSet(InOrder(g, tasks)) = {g.ids[i] : i \in at}
  BY <1>6, <1>7, <1>8 DEF ToSet
<1>12. {g.ids[i] : i \in at} = Ids(g) \intersect tasks
  BY DEF Ids, ToSet, at
<1>13. IsInjective(g.ids) => IsInjective(InOrder(g, tasks))
  BY <1>1, <1>6, <1>8, <1>9 DEF IsInjective
<1> QED
  BY <1>2, <1>10, <1>11, <1>12, <1>13
-----------------------------------------------------------------------------
(* The first pass of Kosaraju. *)

(* A sequence without its last element, and that element.                  *)
LEMMA FrontAndLast ==
  ASSUME NEW X, NEW s \in Seq(X), s # << >>
  PROVE  /\ Len(s) \in Nat \ {0} /\ Last(s) = s[Len(s)] /\ Last(s) \in X
         /\ Front(s) \in Seq(X) /\ Len(Front(s)) = Len(s) - 1
         /\ \A i \in 1..(Len(s) - 1) : Front(s)[i] = s[i]
<1>1. PICK n : n = Len(s)
  OBVIOUS
<1>2. n \in Nat \ {0} /\ \A i \in 1..n : s[i] \in X
  BY <1>1
<1>3. Front(s) = SubSeq(s, 1, n - 1) /\ Last(s) = s[n]
  BY <1>1 DEF Front, Last
<1>4. \A i \in 1..(n - 1) : s[i] \in X
  BY <1>2
<1>5. /\ SubSeq(s, 1, n - 1) \in Seq(X)
      /\ Len(SubSeq(s, 1, n - 1)) = IF 1 <= n - 1 THEN n - 1 - 1 + 1 ELSE 0
      /\ \A i \in 1..(n - 1 - 1 + 1) : SubSeq(s, 1, n - 1)[i] = s[1 + i - 1]
  BY <1>2, <1>4, SubSeqProperties
<1>6. Len(Front(s)) = n - 1
  BY <1>2, <1>3, <1>5
<1>7. \A i \in 1..(n - 1) : Front(s)[i] = s[i]
  <2> SUFFICES ASSUME NEW i \in 1..(n - 1) PROVE Front(s)[i] = s[i]
    OBVIOUS
  <2>1. i \in 1..(n - 1 - 1 + 1) /\ 1 + i - 1 = i
    BY <1>2
  <2> QED
    BY <1>3, <1>5, <2>1
<1> QED
  BY <1>1, <1>2, <1>3, <1>5, <1>6, <1>7

(* The entries for a list of tasks.                                        *)
LEMMA ListOfEntries ==
  ASSUME NEW s \in Seq(Tasks)
  PROVE  /\ Entries(s) \in Seq(Entry) /\ Len(Entries(s)) = Len(s)
         /\ \A i \in 1..Len(s) : Entries(s)[i] = <<s[i], FALSE>>
<1>1. PICK n : n = Len(s)
  OBVIOUS
<1>2. n \in Nat /\ DOMAIN s = 1..n /\ \A i \in 1..n : s[i] \in Tasks
  BY <1>1
<1>3. Entries(s) = [i \in 1..n |-> <<s[i], FALSE>>]
  BY <1>2 DEF Entries
<1>4. \A i \in 1..n : <<s[i], FALSE>> \in Entry
  BY <1>2 DEF Entry
<1>5. Entries(s) \in [1..n -> Entry]
  BY <1>3, <1>4
<1>6. Entries(s) \in Seq(Entry) /\ Len(Entries(s)) = n
  BY <1>2, <1>5
<1> QED
  BY <1>1, <1>3, <1>6

(* A sequence, one more element and another sequence.                      *)
LEMMA Stacked ==
  ASSUME NEW E, NEW a \in Seq(E), NEW x \in E, NEW b \in Seq(E)
  PROVE  LET s == a \o <<x>> \o b
             n == Len(a) + 1
         IN /\ s \in Seq(E) /\ DOMAIN s = 1..(n + Len(b))
            /\ \A i \in 1..(n - 1) : s[i] = a[i]
            /\ s[n] = x
            /\ \A i \in 1..Len(b) : s[n + i] = b[i]
<1>1. PICK s : s = a \o <<x>> \o b
  OBVIOUS
<1>2. PICK n : n = Len(a) + 1
  OBVIOUS
<1>3. PICK top : top = <<x>>
  OBVIOUS
<1>4. top \in Seq(E) /\ Len(top) = 1 /\ top[1] = x
  BY <1>3
<1>5. PICK low : low = a \o top
  OBVIOUS
<1>6. /\ low \in Seq(E) /\ Len(low) = Len(a) + Len(top)
      /\ \A i \in 1..(Len(a) + Len(top)) : low[i] = IF i <= Len(a) THEN a[i] ELSE top[i - Len(a)]
  BY <1>4, <1>5, ConcatProperties
<1>7. s = low \o b
  BY <1>1, <1>3, <1>5
<1>8. /\ s \in Seq(E) /\ Len(s) = Len(low) + Len(b)
      /\ \A i \in 1..(Len(low) + Len(b)) : s[i] = IF i <= Len(low) THEN low[i] ELSE b[i - Len(low)]
  <2>1. low \in Seq(E)
    BY <1>6
  <2> QED
    BY <1>7, <2>1, ConcatProperties
<1>9. Len(a) \in Nat /\ Len(b) \in Nat /\ n \in Nat \ {0} /\ Len(low) = n
  BY <1>2, <1>4, <1>6
<1>10. DOMAIN s = 1..(n + Len(b))
  BY <1>8, <1>9
<1>11. \A i \in 1..n : s[i] = low[i]
  BY <1>8, <1>9
<1>12. \A i \in 1..(n - 1) : low[i] = a[i]
  BY <1>2, <1>4, <1>6, <1>9
<1>13. low[n] = x
  BY <1>2, <1>4, <1>6, <1>9
<1>14. \A i \in 1..Len(b) : s[n + i] = b[i]
  <2> SUFFICES ASSUME NEW i \in 1..Len(b) PROVE s[n + i] = b[i]
    OBVIOUS
  <2>1. PICK k : k = n + i
    OBVIOUS
  <2>2. k \in 1..(Len(low) + Len(b)) /\ ~(k <= Len(low)) /\ k - Len(low) = i
    BY <1>9, <2>1
  <2>3. s[k] = b[k - Len(low)]
    BY <1>8, <2>2
  <2> QED
    BY <2>1, <2>2, <2>3
<1>15. \A i \in 1..(n - 1) : s[i] = a[i]
  BY <1>9, <1>11, <1>12
<1>16. s[n] = x
  BY <1>9, <1>11, <1>13
<1> QED
  BY <1>1, <1>2, <1>8, <1>10, <1>14, <1>15, <1>16

(* A stack whose top is replaced by a node to leave and nodes to enter.    *)
Stack(front, node, fresh) == front \o << <<node, TRUE>> >> \o Entries(fresh)
Atop(s, front, node, fresh, n) ==
  /\ s \in Seq(Entry) /\ DOMAIN s = 1..(n + Len(fresh))
  /\ \A i \in 1..(n - 1) : s[i] = front[i]
  /\ s[n] = <<node, TRUE>>
  /\ \A i \in 1..Len(fresh) : s[n + i] = <<fresh[i], FALSE>>

(* What is where on it.                                                    *)
LEMMA StackedEntries ==
  ASSUME NEW front \in Seq(Entry), NEW node \in Tasks, NEW fresh \in Seq(Tasks)
  PROVE  Atop(Stack(front, node, fresh), front, node, fresh, Len(front) + 1)
<1>1. PICK x : x = <<node, TRUE>>
  OBVIOUS
<1>2. x \in Entry
  BY <1>1 DEF Entry
<1>3. PICK more : more = Entries(fresh)
  OBVIOUS
<1>4. /\ more \in Seq(Entry) /\ Len(more) = Len(fresh)
      /\ \A i \in 1..Len(fresh) : more[i] = <<fresh[i], FALSE>>
  BY <1>3, ListOfEntries
<1>5. PICK n : n = Len(front) + 1
  OBVIOUS
<1>6. PICK s : s = front \o <<x>> \o more
  OBVIOUS
<1>7. /\ s \in Seq(Entry) /\ DOMAIN s = 1..(n + Len(more))
      /\ \A i \in 1..(n - 1) : s[i] = front[i]
      /\ s[n] = x
      /\ \A i \in 1..Len(more) : s[n + i] = more[i]
  BY <1>2, <1>4, <1>5, <1>6, Stacked
<1>8. Atop(s, front, node, fresh, n)
  BY <1>1, <1>4, <1>7 DEF Atop
<1>9. Stack(front, node, fresh) = s
  BY <1>1, <1>3, <1>6 DEF Stack
<1> QED
  BY <1>5, <1>8, <1>9

(* The nodes that are entered and not left, and those still to enter.      *)
OnStack(st, x, b) == \E i \in DOMAIN st : st[i][1] = x /\ st[i][2] = b
Open(w)    == {x \in Tasks : OnStack(w.stack, x, TRUE)}
ToEnter(w) == {x \in Tasks : OnStack(w.stack, x, FALSE)}

(* Out of a beginning of the finish order a way leads only to nodes that    *)
(* lead to its last task.                                                  *)
Exits(g, f) ==
  \A k \in DOMAIN f : \A i \in 1..k : \A y \in g.successors[f[i]] :
    (\E j \in 1..k : y = f[j]) \/ Leads(g, y, f[k])

WalkKnown(g, w) ==
  /\ w \in Walk
  /\ w.visited = ToSet(w.finish) \union Open(w)
  /\ \A i \in DOMAIN w.stack : w.stack[i][1] \in Ids(g)
  /\ w.visited \subseteq Ids(g) /\ Ids(g) \subseteq w.visited \union ToEnter(w)
WalkChained(g, w) ==
  \A i, j \in DOMAIN w.stack :
    i < j /\ w.stack[i][2] = TRUE => Leads(g, w.stack[i][1], w.stack[j][1])
WalkPending(g, w) ==
  \A i \in DOMAIN w.stack : w.stack[i][2] = TRUE =>
    \A y \in g.successors[w.stack[i][1]] :
      \/ y \in w.visited
      \/ \E j \in DOMAIN w.stack : i < j /\ w.stack[j][1] = y /\ w.stack[j][2] = FALSE
WalkFinished(g, w) ==
  /\ \A x \in ToSet(w.finish) : g.successors[x] \subseteq w.visited
  /\ Exits(g, w.finish)
WalkOnce(w) ==
  /\ IsInjective(w.finish)
  /\ \A i \in DOMAIN w.stack : w.stack[i][2] = TRUE =>
       /\ w.stack[i][1] \notin ToSet(w.finish)
       /\ \A j \in DOMAIN w.stack :
            j # i /\ w.stack[j][2] = TRUE => w.stack[j][1] # w.stack[i][1]
WalkInv(g) ==
  {w \in Walk : /\ WalkKnown(g, w) /\ WalkChained(g, w) /\ WalkPending(g, w)
                /\ WalkFinished(g, w) /\ WalkOnce(w)}

(* The top of a stack that is not empty, and what is below it.             *)
LEMMA VisitTop ==
  ASSUME NEW w \in Walk, w.stack # << >>
  PROVE  LET st == w.stack
             n  == Len(st)
         IN /\ n \in Nat \ {0} /\ DOMAIN st = 1..n /\ st[n][1] \in Tasks
            /\ st[n] = <<st[n][1], st[n][2]>> /\ st[n][2] \in BOOLEAN
            /\ Front(st) \in Seq(Entry) /\ DOMAIN Front(st) = 1..(n - 1)
            /\ Len(Front(st)) = n - 1
            /\ \A i \in 1..(n - 1) : Front(st)[i] = st[i]
            /\ Last(st) = st[n]
<1>1. PICK st : st = w.stack
  OBVIOUS
<1>2. PICK n : n = Len(st)
  OBVIOUS
<1>3. st \in Seq(Entry) /\ st # << >>
  BY <1>1 DEF Walk
<1>4. /\ n \in Nat \ {0} /\ Last(st) = st[n] /\ st[n] \in Entry
      /\ Front(st) \in Seq(Entry) /\ Len(Front(st)) = n - 1
      /\ \A i \in 1..(n - 1) : Front(st)[i] = st[i]
  BY <1>2, <1>3, FrontAndLast
<1>5. DOMAIN st = 1..n
  BY <1>2, <1>3
<1>6. DOMAIN Front(st) = 1..(n - 1)
  BY <1>4
<1>7. st[n][1] \in Tasks /\ st[n] = <<st[n][1], st[n][2]>> /\ st[n][2] \in BOOLEAN
  BY <1>4 DEF Entry
<1> QED
  BY <1>1, <1>2, <1>4, <1>5, <1>6, <1>7

(* A node to leave goes to the end of the finish order; one that was       *)
(* entered already is dropped.                                             *)
LEMMA VisitPops ==
  ASSUME NEW g \in Graph, NEW w \in Walk, w.stack # << >>
  PROVE  LET st   == w.stack
             top  == st[Len(st)]
             v    == Visit(g, w)
         IN top[2] \/ top[1] \in w.visited =>
              /\ v \in Walk /\ v.stack = Front(st) /\ v.visited = w.visited
              /\ v.finish = IF top[2] THEN Append(w.finish, top[1]) ELSE w.finish
<1>1. PICK st, front, top : st = w.stack /\ front = Front(st) /\ top = st[Len(st)]
  OBVIOUS
<1>2. PICK f : f = IF top[2] THEN Append(w.finish, top[1]) ELSE w.finish
  OBVIOUS
<1>3. /\ st \in Seq(Entry) /\ w.visited \in SUBSET Tasks /\ w.finish \in Seq(Tasks)
      /\ w = [stack |-> st, visited |-> w.visited, finish |-> w.finish]
  BY <1>1 DEF Walk
<1>4. top[1] \in Tasks /\ front \in Seq(Entry) /\ Last(st) = top
  BY <1>1, VisitTop
<1>5. f \in Seq(Tasks)
  BY <1>2, <1>3, <1>4
<1>6. top[2] \/ top[1] \in w.visited =>
        Visit(g, w) = [stack |-> front, visited |-> w.visited, finish |-> f]
  BY <1>1, <1>2, <1>3, <1>4 DEF Visit
<1>7. PICK v : v = Visit(g, w)
  OBVIOUS
<1>8. top[2] \/ top[1] \in w.visited =>
        /\ v \in Walk /\ v.stack = front /\ v.visited = w.visited /\ v.finish = f
  BY <1>3, <1>4, <1>5, <1>6, <1>7 DEF Walk
<1> QED
  BY <1>1, <1>2, <1>7, <1>8

(* Any other node is entered: its entry is turned into one to leave, under  *)
(* entries for the successors that are not visited.                        *)
LEMMA VisitEnters ==
  ASSUME NEW g \in Graph, NEW w \in Walk, w.stack # << >>
  PROVE  LET st    == w.stack
             n     == Len(st)
             node  == st[n][1]
             fresh == InOrder(g, g.successors[node] \ (w.visited \union {node}))
             v     == Visit(g, w)
         IN ~st[n][2] /\ node \notin w.visited =>
              /\ v \in Walk /\ v.visited = w.visited \union {node} /\ v.finish = w.finish
              /\ DOMAIN v.stack = 1..(n + Len(fresh)) /\ Len(fresh) \in Nat
              /\ \A i \in 1..(n - 1) : v.stack[i] = st[i]
              /\ v.stack[n] = <<node, TRUE>>
              /\ \A i \in 1..Len(fresh) : v.stack[n + i] = <<fresh[i], FALSE>>
<1>1. PICK st, n, node, fresh, front :
        /\ st = w.stack /\ n = Len(st) /\ node = st[n][1] /\ front = Front(st)
        /\ fresh = InOrder(g, g.successors[node] \ (w.visited \union {node}))
  OBVIOUS
<1>2. /\ st \in Seq(Entry) /\ w.visited \in SUBSET Tasks /\ w.finish \in Seq(Tasks)
      /\ w = [stack |-> st, visited |-> w.visited, finish |-> w.finish]
  BY <1>1 DEF Walk
<1>3. /\ n \in Nat \ {0} /\ node \in Tasks /\ front \in Seq(Entry) /\ Last(st) = st[n]
      /\ Len(front) = n - 1 /\ \A i \in 1..(n - 1) : front[i] = st[i]
  BY <1>1, VisitTop
<1>4. fresh \in Seq(Tasks) /\ Len(fresh) \in Nat
  BY <1>1, InOrderLists
<1>5. PICK s : s = Stack(front, node, fresh)
  OBVIOUS
<1>6. Len(front) + 1 = n
  BY <1>3
<1>7. /\ s \in Seq(Entry) /\ DOMAIN s = 1..(n + Len(fresh))
      /\ \A i \in 1..(n - 1) : s[i] = front[i]
      /\ s[n] = <<node, TRUE>>
      /\ \A i \in 1..Len(fresh) : s[n + i] = <<fresh[i], FALSE>>
  <2>1. Atop(s, front, node, fresh, n)
    BY <1>3, <1>4, <1>5, <1>6, StackedEntries
  <2> QED
    BY <2>1 DEF Atop
<1>8. ~st[n][2] /\ node \notin w.visited =>
        Visit(g, w) = [stack |-> s, visited |-> w.visited \union {node}, finish |-> w.finish]
  BY <1>1, <1>2, <1>3, <1>5 DEF Visit, Stack
<1>9. \A i \in 1..(n - 1) : s[i] = st[i]
  BY <1>3, <1>7
<1>10. PICK v : v = Visit(g, w)
  OBVIOUS
<1>11. ~st[n][2] /\ node \notin w.visited =>
        /\ v \in Walk /\ v.stack = s /\ v.visited = w.visited \union {node}
        /\ v.finish = w.finish
  BY <1>2, <1>3, <1>7, <1>8, <1>10 DEF Walk
<1>12. ~st[n][2] /\ node \notin w.visited =>
        /\ v \in Walk /\ v.visited = w.visited \union {node} /\ v.finish = w.finish
        /\ DOMAIN v.stack = 1..(n + Len(fresh))
        /\ \A i \in 1..(n - 1) : v.stack[i] = st[i]
        /\ v.stack[n] = <<node, TRUE>>
        /\ \A i \in 1..Len(fresh) : v.stack[n + i] = <<fresh[i], FALSE>>
  <2> HAVE ~st[n][2] /\ node \notin w.visited
  <2> QED
    BY <1>7, <1>11, <1>9
<1> QED
  BY <1>1, <1>4, <1>10, <1>12

(* One round: the top of a stack of n entries is left, dropped or entered.  *)
Pops(w, v, n) ==
  /\ v \in Walk /\ n \in Nat \ {0}
  /\ DOMAIN w.stack = 1..n /\ DOMAIN v.stack = 1..(n - 1)
  /\ \A i \in 1..(n - 1) : v.stack[i] = w.stack[i]
  /\ v.visited = w.visited
Leaves(w, v, n) ==
  /\ Pops(w, v, n)
  /\ w.stack[n][2] = TRUE /\ v.finish = Append(w.finish, w.stack[n][1])
Drops(w, v, n) ==
  /\ Pops(w, v, n)
  /\ w.stack[n][2] = FALSE /\ w.stack[n][1] \in w.visited /\ v.finish = w.finish
Enters(g, w, v, n, fresh) ==
  /\ v \in Walk /\ n \in Nat \ {0} /\ fresh \in Seq(Tasks)
  /\ DOMAIN w.stack = 1..n /\ DOMAIN v.stack = 1..(n + Len(fresh))
  /\ \A i \in 1..(n - 1) : v.stack[i] = w.stack[i]
  /\ v.stack[n] = <<w.stack[n][1], TRUE>>
  /\ \A i \in 1..Len(fresh) : v.stack[n + i] = <<fresh[i], FALSE>>
  /\ w.stack[n][2] = FALSE /\ w.stack[n][1] \notin w.visited
  /\ v.visited = w.visited \union {w.stack[n][1]} /\ v.finish = w.finish
  /\ ToSet(fresh) = Ids(g) \intersect (g.successors[w.stack[n][1]] \ v.visited)

(* What is on the stack is below its top, or the top.                       *)
LEMMA PopsOne ==
  ASSUME NEW w, NEW v, NEW n, Pops(w, v, n), NEW x, NEW b
  PROVE  OnStack(w.stack, x, b) <=>
           (w.stack[n][1] = x /\ w.stack[n][2] = b) \/ OnStack(v.stack, x, b)
<1>1. /\ n \in Nat \ {0} /\ DOMAIN w.stack = 1..n /\ DOMAIN v.stack = 1..(n - 1)
      /\ \A i \in 1..(n - 1) : v.stack[i] = w.stack[i]
  BY DEF Pops
<1>2. \A i \in 1..n : i \in 1..(n - 1) \/ i = n
  BY <1>1
<1>3. n \in 1..n /\ \A i \in 1..(n - 1) : i \in 1..n
  BY <1>1
<1>4. ASSUME NEW i \in DOMAIN w.stack, w.stack[i][1] = x, w.stack[i][2] = b, i # n
      PROVE  \E j \in DOMAIN v.stack : v.stack[j][1] = x /\ v.stack[j][2] = b
  <2>1. i \in DOMAIN v.stack /\ v.stack[i] = w.stack[i]
    BY <1>1, <1>2, <1>4
  <2> QED
    BY <1>4, <2>1
<1>5. ASSUME NEW i \in DOMAIN v.stack, v.stack[i][1] = x, v.stack[i][2] = b
      PROVE  \E j \in DOMAIN w.stack : w.stack[j][1] = x /\ w.stack[j][2] = b
  <2>1. i \in DOMAIN w.stack /\ v.stack[i] = w.stack[i]
    BY <1>1, <1>3
  <2> QED
    BY <1>5, <2>1
<1>6. n \in DOMAIN w.stack
  BY <1>1, <1>3
<1> QED
  BY <1>4, <1>5, <1>6 DEF OnStack

(* A sequence and one more element.                                        *)
LEMMA AppendKeeps ==
  ASSUME NEW X, NEW s \in Seq(X), NEW x \in X
  PROVE  /\ Len(s) \in Nat /\ DOMAIN s = 1..Len(s)
         /\ Append(s, x) \in Seq(X) /\ DOMAIN Append(s, x) = 1..(Len(s) + 1)
         /\ \A i \in 1..Len(s) : Append(s, x)[i] = s[i]
         /\ Append(s, x)[Len(s) + 1] = x
         /\ ToSet(Append(s, x)) = ToSet(s) \union {x}
<1>1. PICK n, t : n = Len(s) /\ t = Append(s, x)
  OBVIOUS
<1>2. n \in Nat /\ DOMAIN s = 1..n
  BY <1>1
<1>3. /\ t \in Seq(X) /\ Len(t) = n + 1
      /\ \A i \in 1..n : t[i] = s[i]
      /\ t[n + 1] = x
  BY <1>1, AppendProperties
<1>4. DOMAIN t = 1..(n + 1)
  BY <1>2, <1>3
<1>5. \A i \in 1..(n + 1) : i \in 1..n \/ i = n + 1
  BY <1>2
<1>6. ToSet(t) = ToSet(s) \union {x}
  BY <1>2, <1>3, <1>4, <1>5 DEF ToSet
<1> QED
  BY <1>1, <1>2, <1>3, <1>4, <1>6

(* Leaving the top of the stack: it goes to the end of the finish order.   *)
LEMMA LeaveKeeps ==
  ASSUME NEW g \in Graph, NEW w \in WalkInv(g), NEW v, NEW n, Leaves(w, v, n)
  PROVE  v \in WalkInv(g)
<1> DEFINE node == w.stack[n][1]
<1>1. /\ v \in Walk /\ n \in Nat \ {0}
      /\ DOMAIN w.stack = 1..n /\ DOMAIN v.stack = 1..(n - 1)
      /\ \A i \in 1..(n - 1) : v.stack[i] = w.stack[i]
      /\ v.visited = w.visited
      /\ w.stack[n][2] = TRUE /\ v.finish = Append(w.finish, node)
  BY DEF Leaves, Pops
<1>2. /\ w \in Walk /\ WalkKnown(g, w) /\ WalkChained(g, w) /\ WalkPending(g, w)
      /\ WalkFinished(g, w) /\ WalkOnce(w)
  BY DEF WalkInv
<1>3. w.finish \in Seq(Tasks) /\ node \in Tasks
  <2>1. node \in Ids(g)
    BY <1>1, <1>2 DEF WalkKnown
  <2> QED
    BY <1>2, <2>1, IdsFinite DEF Walk
<1>4. PICK l : l = Len(w.finish)
  OBVIOUS
<1>5. /\ l \in Nat /\ DOMAIN w.finish = 1..l /\ DOMAIN v.finish = 1..(l + 1)
      /\ \A i \in 1..l : v.finish[i] = w.finish[i]
      /\ v.finish[l + 1] = node
      /\ ToSet(v.finish) = ToSet(w.finish) \union {node}
  BY <1>1, <1>3, <1>4, AppendKeeps
<1>6. \A i \in 1..n : i \in 1..(n - 1) \/ i = n
  BY <1>1
<1>7. \A i \in 1..(n - 1) : i \in 1..n /\ i < n
  BY <1>1
<1>8. Open(w) = Open(v) \union {node} /\ ToEnter(v) = ToEnter(w)
  <2>1. Pops(w, v, n)
    BY DEF Leaves
  <2>2. ASSUME NEW x PROVE x \in Open(w) <=> x \in Open(v) \/ x = node
    <3>1. OnStack(w.stack, x, TRUE) <=>
            (node = x /\ w.stack[n][2] = TRUE) \/ OnStack(v.stack, x, TRUE)
      BY <2>1, PopsOne
    <3>2. w.stack[n][2] = TRUE
      BY <1>1
    <3> QED
      BY <1>3, <3>1, <3>2 DEF Open
  <2>3. ASSUME NEW x PROVE x \in ToEnter(w) <=> x \in ToEnter(v)
    <3>1. OnStack(w.stack, x, FALSE) <=>
            (node = x /\ w.stack[n][2] = FALSE) \/ OnStack(v.stack, x, FALSE)
      BY <2>1, PopsOne
    <3>2. w.stack[n][2] # FALSE
      BY <1>1
    <3> QED
      BY <3>1, <3>2 DEF ToEnter
  <2> QED
    BY <2>2, <2>3
<1>9. WalkKnown(g, v)
  <2>1. \A i \in DOMAIN v.stack : v.stack[i][1] \in Ids(g)
    BY <1>1, <1>2, <1>7 DEF WalkKnown
  <2>2. v.visited = ToSet(v.finish) \union Open(v)
    BY <1>1, <1>2, <1>5, <1>8 DEF WalkKnown
  <2> QED
    BY <1>1, <1>2, <1>8, <2>1, <2>2 DEF WalkKnown
<1>10. WalkChained(g, v)
  BY <1>1, <1>2, <1>7 DEF WalkChained
<1>11. WalkPending(g, v)
  <2> SUFFICES ASSUME NEW i \in DOMAIN v.stack, v.stack[i][2] = TRUE,
                      NEW y \in g.successors[v.stack[i][1]], y \notin v.visited
               PROVE  \E j \in DOMAIN v.stack :
                        i < j /\ v.stack[j][1] = y /\ v.stack[j][2] = FALSE
    BY DEF WalkPending
  <2>1. i \in DOMAIN w.stack /\ v.stack[i] = w.stack[i]
    BY <1>1, <1>7
  <2>2. PICK j \in DOMAIN w.stack : i < j /\ w.stack[j][1] = y /\ w.stack[j][2] = FALSE
    BY <1>1, <1>2, <2>1 DEF WalkPending
  <2>3. j # n
    BY <1>1, <2>2
  <2>4. j \in DOMAIN v.stack /\ v.stack[j] = w.stack[j]
    BY <1>1, <1>6, <2>2, <2>3
  <2> QED
    BY <2>2, <2>4
<1>12. g.successors[node] \subseteq w.visited
  <2> SUFFICES ASSUME NEW y \in g.successors[node], y \notin w.visited PROVE FALSE
    OBVIOUS
  <2>1. \E j \in 1..n : n < j
    BY <1>1, <1>2 DEF WalkPending
  <2> QED
    BY <1>1, <2>1
<1>13. WalkFinished(g, v)
  <2>1. \A x \in ToSet(v.finish) : g.successors[x] \subseteq v.visited
    BY <1>1, <1>2, <1>5, <1>12 DEF WalkFinished
  <2>2. ASSUME NEW k \in 1..(l + 1), NEW i \in 1..k, NEW y \in g.successors[v.finish[i]],
               \A j \in 1..k : y # v.finish[j]
        PROVE  Leads(g, y, v.finish[k])
    <3>1. CASE k \in 1..l
      <4>1. \A j \in 1..k : j \in 1..l
        BY <1>5, <3>1
      <4>2. v.finish[i] = w.finish[i] /\ v.finish[k] = w.finish[k]
        BY <1>5, <3>1, <4>1
      <4>3. \A j \in 1..k : y # w.finish[j]
        BY <1>5, <2>2, <4>1
      <4>4. Exits(g, w.finish) /\ k \in DOMAIN w.finish
        BY <1>2, <1>5, <3>1 DEF WalkFinished
      <4>5. y \in g.successors[w.finish[i]]
        BY <4>2
      <4> QED
        BY <4>2, <4>3, <4>4, <4>5 DEF Exits
    <3>2. CASE k = l + 1
      <4>1. v.finish[i] \in ToSet(v.finish)
        BY <1>5, <3>2 DEF ToSet
      <4>2. y \in v.visited
        BY <2>1, <4>1
      <4>3. y \notin ToSet(v.finish)
        BY <1>5, <2>2, <3>2 DEF ToSet
      <4>4. y \in Open(v)
        BY <1>9, <4>2, <4>3 DEF WalkKnown
      <4>5. PICK j \in DOMAIN v.stack : v.stack[j][1] = y /\ v.stack[j][2] = TRUE
        BY <4>4 DEF OnStack, Open
      <4>6. j \in DOMAIN w.stack /\ n \in DOMAIN w.stack /\ j < n /\ v.stack[j] = w.stack[j]
        BY <1>1, <1>7
      <4>7. Leads(g, w.stack[j][1], node)
        BY <1>2, <4>5, <4>6 DEF WalkChained
      <4>8. Leads(g, y, node)
        BY <4>5, <4>7, <4>6
      <4> QED
        BY <1>5, <3>2, <4>8
    <3> QED
      BY <1>5, <3>1, <3>2
  <2>3. Exits(g, v.finish)
    BY <1>5, <2>2 DEF Exits
  <2> QED
    BY <2>1, <2>3 DEF WalkFinished
<1>14. WalkOnce(v)
  <2>1. node \notin ToSet(w.finish)
    BY <1>1, <1>2 DEF WalkOnce
  <2>2. \A i \in 1..l : w.finish[i] # node
    BY <1>5, <2>1 DEF ToSet
  <2>3. \A i \in 1..(l + 1) : i \in 1..l \/ i = l + 1
    BY <1>5
  <2>4. \A i, j \in 1..l : w.finish[i] = w.finish[j] => i = j
    BY <1>2, <1>5 DEF WalkOnce, IsInjective
  <2>5. IsInjective(v.finish)
    BY <1>5, <2>2, <2>3, <2>4 DEF IsInjective
  <2>6. ASSUME NEW i \in DOMAIN v.stack, v.stack[i][2] = TRUE
        PROVE  /\ v.stack[i][1] \notin ToSet(v.finish)
               /\ \A j \in DOMAIN v.stack :
                    j # i /\ v.stack[j][2] = TRUE => v.stack[j][1] # v.stack[i][1]
    <3>1. \A j \in DOMAIN v.stack : j \in DOMAIN w.stack /\ v.stack[j] = w.stack[j]
      BY <1>1, <1>7
    <3>2. n \in DOMAIN w.stack /\ n # i
      BY <1>1, <1>7
    <3>3. v.stack[i][1] \notin ToSet(w.finish) /\ v.stack[i][1] # node
      BY <1>1, <1>2, <2>6, <3>1, <3>2 DEF WalkOnce
    <3> QED
      BY <1>2, <1>5, <2>6, <3>1, <3>3 DEF WalkOnce
  <2> QED
    BY <2>5, <2>6 DEF WalkOnce
<1> QED
  BY <1>1, <1>9, <1>10, <1>11, <1>13, <1>14 DEF WalkInv

(* Dropping the top of the stack: it is entered already.                   *)
LEMMA DropKeeps ==
  ASSUME NEW g \in Graph, NEW w \in WalkInv(g), NEW v, NEW n, Drops(w, v, n)
  PROVE  v \in WalkInv(g)
<1> DEFINE node == w.stack[n][1]
<1>1. /\ v \in Walk /\ n \in Nat \ {0}
      /\ DOMAIN w.stack = 1..n /\ DOMAIN v.stack = 1..(n - 1)
      /\ \A i \in 1..(n - 1) : v.stack[i] = w.stack[i]
      /\ v.visited = w.visited
      /\ w.stack[n][2] = FALSE /\ node \in w.visited /\ v.finish = w.finish
  BY DEF Drops, Pops
<1>2. /\ WalkKnown(g, w) /\ WalkChained(g, w) /\ WalkPending(g, w)
      /\ WalkFinished(g, w) /\ WalkOnce(w)
  BY DEF WalkInv
<1>3. \A i \in 1..n : i \in 1..(n - 1) \/ i = n
  BY <1>1
<1>4. \A i \in 1..(n - 1) : i \in 1..n /\ i < n
  BY <1>1
<1>5. Open(w) = Open(v) /\ ToEnter(w) = ToEnter(v) \union {node}
  <2>1. Pops(w, v, n)
    BY DEF Drops
  <2>2. node \in Tasks
    BY <1>1, <1>2, IdsFinite DEF WalkKnown
  <2>3. ASSUME NEW x PROVE x \in Open(w) <=> x \in Open(v)
    <3>1. OnStack(w.stack, x, TRUE) <=>
            (node = x /\ w.stack[n][2] = TRUE) \/ OnStack(v.stack, x, TRUE)
      BY <2>1, PopsOne
    <3>2. w.stack[n][2] # TRUE
      BY <1>1
    <3> QED
      BY <3>1, <3>2 DEF Open
  <2>4. ASSUME NEW x PROVE x \in ToEnter(w) <=> x \in ToEnter(v) \/ x = node
    <3>1. OnStack(w.stack, x, FALSE) <=>
            (node = x /\ w.stack[n][2] = FALSE) \/ OnStack(v.stack, x, FALSE)
      BY <2>1, PopsOne
    <3>2. w.stack[n][2] = FALSE
      BY <1>1
    <3> QED
      BY <2>2, <3>1, <3>2 DEF ToEnter
  <2> QED
    BY <2>3, <2>4
<1>6. WalkKnown(g, v)
  <2>1. \A i \in DOMAIN v.stack : v.stack[i][1] \in Ids(g)
    BY <1>1, <1>2, <1>4 DEF WalkKnown
  <2> QED
    BY <1>1, <1>2, <1>5, <2>1 DEF WalkKnown
<1>7. WalkChained(g, v)
  BY <1>1, <1>2, <1>4 DEF WalkChained
<1>8. WalkPending(g, v)
  <2> SUFFICES ASSUME NEW i \in DOMAIN v.stack, v.stack[i][2] = TRUE,
                      NEW y \in g.successors[v.stack[i][1]], y \notin v.visited
               PROVE  \E j \in DOMAIN v.stack :
                        i < j /\ v.stack[j][1] = y /\ v.stack[j][2] = FALSE
    BY DEF WalkPending
  <2>1. i \in DOMAIN w.stack /\ v.stack[i] = w.stack[i]
    BY <1>1, <1>4
  <2>2. PICK j \in DOMAIN w.stack : i < j /\ w.stack[j][1] = y /\ w.stack[j][2] = FALSE
    BY <1>1, <1>2, <2>1 DEF WalkPending
  <2>3. j # n
    BY <1>1, <2>2
  <2>4. j \in DOMAIN v.stack /\ v.stack[j] = w.stack[j]
    BY <1>1, <1>3, <2>2, <2>3
  <2> QED
    BY <2>2, <2>4
<1>9. WalkFinished(g, v)
  BY <1>1, <1>2 DEF WalkFinished
<1>10. WalkOnce(v)
  BY <1>1, <1>2, <1>4 DEF WalkOnce
<1> QED
  BY <1>1, <1>6, <1>7, <1>8, <1>9, <1>10 DEF WalkInv

(* A round that enters a node neither loses nor adds another node.         *)
Layered(w, v, n, fresh) ==
  \A i \in DOMAIN v.stack :
    \/ i < n /\ i \in DOMAIN w.stack /\ v.stack[i] = w.stack[i]
    \/ i = n
    \/ n < i /\ v.stack[i][2] = FALSE /\ v.stack[i][1] \in ToSet(fresh)
(* The stack of such a round, seen from above.                             *)
LEMMA EntersOne ==
  ASSUME NEW g, NEW w, NEW v, NEW n, NEW fresh, Enters(g, w, v, n, fresh)
  PROVE  Layered(w, v, n, fresh)
<1> SUFFICES ASSUME NEW i \in DOMAIN v.stack
             PROVE  \/ i < n /\ i \in DOMAIN w.stack /\ v.stack[i] = w.stack[i]
                    \/ i = n
                    \/ n < i /\ v.stack[i][2] = FALSE /\ v.stack[i][1] \in ToSet(fresh)
  BY DEF Layered
<1>1. /\ n \in Nat \ {0} /\ fresh \in Seq(Tasks)
      /\ DOMAIN w.stack = 1..n /\ DOMAIN v.stack = 1..(n + Len(fresh))
      /\ \A k \in 1..(n - 1) : v.stack[k] = w.stack[k]
      /\ \A k \in 1..Len(fresh) : v.stack[n + k] = <<fresh[k], FALSE>>
  BY DEF Enters
<1>2. PICK l : l = Len(fresh)
  OBVIOUS
<1>3. l \in Nat /\ DOMAIN fresh = 1..l
  BY <1>1, <1>2
<1>4. i \in 1..(n + l)
  BY <1>1, <1>2
<1>5. CASE i < n
  <2>1. i \in 1..(n - 1) /\ i \in 1..n
    BY <1>1, <1>3, <1>4, <1>5
  <2> QED
    BY <1>1, <1>5, <2>1
<1>6. CASE n < i
  <2>1. PICK k : k = i - n
    OBVIOUS
  <2>2. k \in 1..l /\ n + k = i
    BY <1>1, <1>3, <1>4, <1>6, <2>1
  <2>3. v.stack[i] = <<fresh[k], FALSE>>
    BY <1>1, <1>2, <2>2
  <2>4. fresh[k] \in ToSet(fresh)
    BY <1>3, <2>2 DEF ToSet
  <2>5. v.stack[i][1] = fresh[k] /\ v.stack[i][2] = FALSE
    BY <2>3
  <2> QED
    BY <1>6, <2>4, <2>5
<1>7. i \in Nat /\ n \in Nat
  BY <1>1, <1>3, <1>4
<1>8. i < n \/ i = n \/ n < i
  BY <1>7
<1> QED
  BY <1>5, <1>6, <1>8

(* Entering the top of the stack: what it leads to comes on top of it.     *)
LEMMA EnterKeeps ==
  ASSUME NEW g \in Graph, Consistent(g), NEW w \in WalkInv(g), NEW v, NEW n, NEW fresh,
         Enters(g, w, v, n, fresh)
  PROVE  v \in WalkInv(g)
<1> DEFINE node == w.stack[n][1]
<1>1. /\ v \in Walk /\ n \in Nat \ {0} /\ fresh \in Seq(Tasks)
      /\ DOMAIN w.stack = 1..n /\ DOMAIN v.stack = 1..(n + Len(fresh))
      /\ \A i \in 1..(n - 1) : v.stack[i] = w.stack[i]
      /\ v.stack[n] = <<node, TRUE>>
      /\ \A i \in 1..Len(fresh) : v.stack[n + i] = <<fresh[i], FALSE>>
      /\ w.stack[n][2] = FALSE /\ node \notin w.visited
      /\ v.visited = w.visited \union {node} /\ v.finish = w.finish
      /\ ToSet(fresh) = Ids(g) \intersect (g.successors[node] \ v.visited)
  BY DEF Enters
<1>2. /\ WalkKnown(g, w) /\ WalkChained(g, w) /\ WalkPending(g, w)
      /\ WalkFinished(g, w) /\ WalkOnce(w)
  BY DEF WalkInv
<1>3. n \in DOMAIN w.stack /\ n \in DOMAIN v.stack /\ Len(fresh) \in Nat
      /\ v.stack[n][1] = node /\ v.stack[n][2] = TRUE
  <2>1. PICK l : l = Len(fresh)
    OBVIOUS
  <2>2. l \in Nat /\ n \in Nat \ {0} /\ DOMAIN w.stack = 1..n /\ DOMAIN v.stack = 1..(n + l)
    BY <1>1, <2>1
  <2>3. n \in DOMAIN w.stack /\ n \in DOMAIN v.stack
    BY <2>2
  <2>4. v.stack[n] = <<node, TRUE>>
    BY <1>1
  <2>5. v.stack[n][1] = node /\ v.stack[n][2] = TRUE
    BY <2>4
  <2> QED
    BY <2>1, <2>2, <2>3, <2>5
<1>4. node \in Ids(g) /\ node \in Tasks /\ Ids(g) \subseteq Tasks
  BY <1>2, <1>3, IdsFinite DEF WalkKnown
<1>5. \A y \in ToSet(fresh) :
        y \in Ids(g) /\ y \in Tasks /\ Leads(g, node, y)
  BY <1>1, <1>4, EdgesMirrored, PredecessorIsAncestor DEF Leads
<1>6. \A i \in DOMAIN v.stack :
        \/ i < n /\ i \in DOMAIN w.stack /\ v.stack[i] = w.stack[i]
        \/ i = n
        \/ n < i /\ v.stack[i][2] = FALSE /\ v.stack[i][1] \in ToSet(fresh)
  <2>1. Layered(w, v, n, fresh)
    BY EntersOne
  <2> QED
    BY <2>1 DEF Layered
<1>7. \A i \in DOMAIN w.stack :
        i # n => i < n /\ i \in DOMAIN v.stack /\ v.stack[i] = w.stack[i]
  <2> SUFFICES ASSUME NEW i \in 1..n, i # n
               PROVE  i < n /\ i \in DOMAIN v.stack /\ v.stack[i] = w.stack[i]
    BY <1>1
  <2>1. i \in 1..(n - 1) /\ i \in 1..(n + Len(fresh)) /\ i < n
    BY <1>1, <1>3
  <2> QED
    BY <1>1, <2>1
<1>8. Open(v) = Open(w) \union {node}
  <2>1. ASSUME NEW x \in Open(v), x # node PROVE x \in Open(w)
    <3>1. PICK i \in DOMAIN v.stack : v.stack[i][1] = x /\ v.stack[i][2] = TRUE
      BY DEF OnStack, Open
    <3>2. i \in DOMAIN w.stack /\ v.stack[i] = w.stack[i]
      BY <1>3, <1>6, <2>1, <3>1
    <3> QED
      BY <3>1, <3>2 DEF OnStack, Open
  <2>2. ASSUME NEW x \in Open(w) PROVE x \in Open(v)
    <3>1. PICK i \in DOMAIN w.stack : w.stack[i][1] = x /\ w.stack[i][2] = TRUE
      BY DEF OnStack, Open
    <3>2. i \in DOMAIN v.stack /\ v.stack[i] = w.stack[i]
      BY <1>1, <1>7, <3>1
    <3> QED
      BY <3>1, <3>2 DEF OnStack, Open
  <2>3. node \in Open(v)
    BY <1>3, <1>4 DEF OnStack, Open
  <2> QED
    BY <2>1, <2>2, <2>3
<1>9. ToEnter(w) \subseteq ToEnter(v) \union {node}
  <2> SUFFICES ASSUME NEW x \in ToEnter(w), x # node PROVE x \in ToEnter(v)
    OBVIOUS
  <2>1. PICK i \in DOMAIN w.stack : w.stack[i][1] = x /\ w.stack[i][2] = FALSE
    BY DEF OnStack, ToEnter
  <2>2. i \in DOMAIN v.stack /\ v.stack[i] = w.stack[i]
    BY <1>7, <2>1
  <2> QED
    BY <2>1, <2>2 DEF OnStack, ToEnter
<1>10. WalkKnown(g, v)
  <2>1. ASSUME NEW i \in DOMAIN v.stack PROVE v.stack[i][1] \in Ids(g)
    BY <1>2, <1>3, <1>4, <1>5, <1>6 DEF WalkKnown
  <2>2. v.visited = ToSet(v.finish) \union Open(v)
    BY <1>1, <1>2, <1>8 DEF WalkKnown
  <2> QED
    BY <1>1, <1>2, <1>4, <1>9, <2>1, <2>2 DEF WalkKnown
<1>11. WalkChained(g, v)
  <2> SUFFICES ASSUME NEW i \in DOMAIN v.stack, NEW j \in DOMAIN v.stack,
                      i < j, v.stack[i][2] = TRUE
               PROVE  Leads(g, v.stack[i][1], v.stack[j][1])
    BY DEF WalkChained
  <2>1. i \in Nat /\ j \in Nat /\ n \in Nat
    <3>1. PICK m : m = n + Len(fresh)
      OBVIOUS
    <3>2. n \in Nat /\ m \in Nat /\ DOMAIN v.stack = 1..m
      BY <1>1, <1>3, <3>1
    <3>3. i \in 1..m /\ j \in 1..m
      BY <3>2
    <3> QED
      BY <3>2, <3>3
  <2>2. ~(n < i)
    BY <1>6, <2>1
  <2>3. CASE i = n
    BY <1>3, <1>5, <1>6, <2>1, <2>3
  <2>4. CASE i < n
    <3>1. i \in DOMAIN w.stack /\ v.stack[i] = w.stack[i]
      BY <1>6, <2>1, <2>4
    <3>2. Leads(g, w.stack[i][1], node)
      BY <1>2, <1>3, <2>4, <3>1 DEF WalkChained
    <3>3. CASE j < n
      <4>1. j \in DOMAIN w.stack /\ v.stack[j] = w.stack[j]
        BY <1>6, <2>1, <3>3
      <4> QED
        BY <1>2, <3>1, <4>1 DEF WalkChained
    <3>4. CASE j = n
      BY <1>3, <3>1, <3>2, <3>4
    <3>5. CASE n < j
      <4>1. v.stack[j][1] \in Tasks /\ Leads(g, node, v.stack[j][1])
        BY <1>5, <1>6, <2>1, <3>5
      <4>2. w.stack[i][1] \in Tasks
        BY <1>2, <1>4, <3>1 DEF WalkKnown
      <4> QED
        BY <1>4, <3>1, <3>2, <4>1, <4>2, LeadsOn
    <3> QED
      BY <2>1, <3>3, <3>4, <3>5
  <2> QED
    BY <2>1, <2>2, <2>3, <2>4
<1>12. WalkPending(g, v)
  <2> SUFFICES ASSUME NEW i \in DOMAIN v.stack, v.stack[i][2] = TRUE,
                      NEW y \in g.successors[v.stack[i][1]], y \notin v.visited
               PROVE  \E j \in DOMAIN v.stack :
                        i < j /\ v.stack[j][1] = y /\ v.stack[j][2] = FALSE
    BY DEF WalkPending
  <2>1. i \in Nat /\ n \in Nat
    BY <1>1, <1>3
  <2>2. CASE i = n
    <3>1. y \in ToSet(fresh)
      BY <1>1, <1>3, <1>4, <2>2, EdgesMirrored
    <3>2. PICK k \in 1..Len(fresh) : y = fresh[k]
      BY <1>1, <3>1 DEF ToSet
    <3>3. v.stack[n + k] = <<y, FALSE>>
      BY <1>1, <3>2
    <3>4. n + k \in DOMAIN v.stack /\ n < n + k
      BY <1>1, <1>3
    <3>5. v.stack[n + k][1] = y /\ v.stack[n + k][2] = FALSE
      BY <3>3
    <3> QED
      BY <2>2, <3>4, <3>5
  <2>3. CASE i < n
    <3>1. i \in DOMAIN w.stack /\ v.stack[i] = w.stack[i]
      BY <1>6, <2>1, <2>3
    <3>2. PICK j \in DOMAIN w.stack : i < j /\ w.stack[j][1] = y /\ w.stack[j][2] = FALSE
      BY <1>1, <1>2, <3>1 DEF WalkPending
    <3>3. j # n
      BY <1>1, <3>2
    <3> QED
      BY <1>7, <3>2, <3>3
  <2> QED
    BY <1>6, <2>1, <2>2, <2>3
<1>13. WalkFinished(g, v)
  BY <1>1, <1>2 DEF WalkFinished
<1>14. WalkOnce(v)
  <2>1. \A x \in Open(w) \union ToSet(w.finish) : x # node
    BY <1>1, <1>2 DEF WalkKnown
  <2>2. ASSUME NEW i \in DOMAIN v.stack, v.stack[i][2] = TRUE, i # n
        PROVE  /\ i \in DOMAIN w.stack /\ v.stack[i] = w.stack[i]
               /\ v.stack[i][1] # node
    <3>1. i \in DOMAIN w.stack /\ v.stack[i] = w.stack[i]
      BY <1>6, <2>2
    <3>2. w.stack[i][1] \in Open(w)
      BY <1>2, <1>4, <2>2, <3>1 DEF OnStack, Open, WalkKnown
    <3> QED
      BY <2>1, <3>1, <3>2
  <2>3. ASSUME NEW i \in DOMAIN v.stack, v.stack[i][2] = TRUE
        PROVE  /\ v.stack[i][1] \notin ToSet(v.finish)
               /\ \A j \in DOMAIN v.stack :
                    j # i /\ v.stack[j][2] = TRUE => v.stack[j][1] # v.stack[i][1]
    <3>1. CASE i = n
      <4>1. node \notin ToSet(v.finish)
        BY <1>1, <2>1
      <4>2. \A j \in DOMAIN v.stack :
              j # n /\ v.stack[j][2] = TRUE => v.stack[j][1] # node
        BY <2>2
      <4> QED
        BY <1>3, <3>1, <4>1, <4>2
    <3>2. CASE i # n
      <4>1. i \in DOMAIN w.stack /\ v.stack[i] = w.stack[i] /\ v.stack[i][1] # node
        BY <2>2, <2>3, <3>2
      <4>2. v.stack[i][1] \notin ToSet(v.finish)
        BY <1>1, <1>2, <2>3, <4>1 DEF WalkOnce
      <4>3. ASSUME NEW j \in DOMAIN v.stack, j # i, v.stack[j][2] = TRUE, j # n
            PROVE  v.stack[j][1] # v.stack[i][1]
        <5>1. j \in DOMAIN w.stack /\ v.stack[j] = w.stack[j]
          BY <2>2, <4>3
        <5> QED
          BY <1>2, <2>3, <4>1, <4>3, <5>1 DEF WalkOnce
      <4> QED
        BY <1>3, <4>1, <4>2, <4>3
    <3> QED
      BY <3>1, <3>2
  <2> QED
    BY <1>1, <1>2, <2>3 DEF WalkOnce
<1> QED
  BY <1>1, <1>10, <1>11, <1>12, <1>13, <1>14 DEF WalkInv

(* One round keeps the invariant and has less left to do: fewer tasks to    *)
(* enter or, with the same ones, a shorter stack.                          *)
Effort(g, w) == Cardinality(Ids(g) \ w.visited) * (Len(g.ids) + 2) + Len(w.stack)

(* Every round does one of the three.                                      *)
LEMMA RoundsKeep ==
  ASSUME NEW g \in Graph, Consistent(g), NEW w \in WalkInv(g), w.stack # << >>
  PROVE  \E v, n, fresh :
           /\ v = Visit(g, w) /\ n = Len(w.stack)
           /\ \/ Leaves(w, v, n)
              \/ Drops(w, v, n)
              \/ Enters(g, w, v, n, fresh) /\ Len(fresh) <= Len(g.ids)
<1>1. w \in Walk
  BY DEF WalkInv
<1> DEFINE n == Len(w.stack)
           v == Visit(g, w)
           top == w.stack[n]
           node == top[1]
           front == Front(w.stack)
           fresh == InOrder(g, g.successors[node] \ (w.visited \union {node}))
<1>2. top[2] \/ node \in w.visited =>
        /\ v \in Walk /\ v.stack = front /\ v.visited = w.visited
        /\ v.finish = IF top[2] THEN Append(w.finish, node) ELSE w.finish
  BY <1>1, VisitPops
<1>3. ~top[2] /\ node \notin w.visited =>
        /\ v \in Walk /\ v.visited = w.visited \union {node} /\ v.finish = w.finish
        /\ DOMAIN v.stack = 1..(n + Len(fresh)) /\ Len(fresh) \in Nat
        /\ \A i \in 1..(n - 1) : v.stack[i] = w.stack[i]
        /\ v.stack[n] = <<node, TRUE>>
        /\ \A i \in 1..Len(fresh) : v.stack[n + i] = <<fresh[i], FALSE>>
  BY <1>1, VisitEnters
<1>4. /\ n \in Nat \ {0} /\ DOMAIN w.stack = 1..n /\ node \in Tasks
      /\ top[2] \in BOOLEAN
      /\ DOMAIN front = 1..(n - 1)
      /\ \A i \in 1..(n - 1) : front[i] = w.stack[i]
  BY <1>1, VisitTop
<1>5. /\ fresh \in Seq(Tasks) /\ Len(fresh) <= Len(g.ids)
      /\ ToSet(fresh) = Ids(g) \intersect (g.successors[node] \ (w.visited \union {node}))
  BY InOrderLists
<1>6. top = w.stack[n] /\ node = w.stack[n][1]
  OBVIOUS
<1>7. v = Visit(g, w) /\ n = Len(w.stack)
  OBVIOUS
<1> HIDE DEF n, v, top, node, front, fresh
<1>8. CASE top[2] = TRUE
  <2>1. /\ v \in Walk /\ v.stack = front /\ v.visited = w.visited
        /\ v.finish = Append(w.finish, node)
    BY <1>2, <1>8
  <2>2. Leaves(w, v, n)
    BY <1>4, <1>8, <1>6, <2>1 DEF Leaves, Pops
  <2> QED
    BY <1>7, <2>2
<1>9. CASE top[2] = FALSE /\ node \in w.visited
  <2>1. v \in Walk /\ v.stack = front /\ v.visited = w.visited /\ v.finish = w.finish
    BY <1>2, <1>9
  <2>2. Drops(w, v, n)
    BY <1>4, <1>9, <1>6, <2>1 DEF Drops, Pops
  <2> QED
    BY <1>7, <2>2
<1>10. CASE top[2] = FALSE /\ node \notin w.visited
  <2>1. /\ v \in Walk /\ v.visited = w.visited \union {node} /\ v.finish = w.finish
        /\ DOMAIN v.stack = 1..(n + Len(fresh)) /\ Len(fresh) \in Nat
        /\ \A i \in 1..(n - 1) : v.stack[i] = w.stack[i]
        /\ v.stack[n] = <<node, TRUE>>
        /\ \A i \in 1..Len(fresh) : v.stack[n + i] = <<fresh[i], FALSE>>
    BY <1>3, <1>10
  <2>2. Enters(g, w, v, n, fresh)
    BY <1>4, <1>10, <1>5, <1>6, <2>1 DEF Enters
  <2> QED
    BY <1>5, <1>7, <2>2
<1> QED
  BY <1>4, <1>8, <1>9, <1>10

(* The arithmetic of Effort: one task less outweighs a stack that grows by  *)
(* as many entries as there are tasks.                                     *)
LEMMA RoundsLower ==
  ASSUME NEW a \in Nat, NEW b \in Nat, NEW k \in Nat, NEW n \in Nat \ {0}, NEW m \in Nat
  PROVE  /\ a * (k + 2) + n \in Nat
         /\ a = b /\ m = n - 1 => b * (k + 2) + m < a * (k + 2) + n
         /\ a = b + 1 /\ m <= n + k => b * (k + 2) + m < a * (k + 2) + n
<1>1. PICK p : p = b * (k + 2)
  OBVIOUS
<1>2. (b + 1) * (k + 2) = p + k + 2
  BY <1>1
<1>3. PICK q : q = a * (k + 2)
  OBVIOUS
<1>4. p \in Nat /\ q \in Nat
  BY <1>1, <1>3
<1>5. a = b => p = q
  BY <1>1, <1>3
<1>6. a = b + 1 => q = p + k + 2
  BY <1>2, <1>3
<1> QED
  BY <1>1, <1>3, <1>4, <1>5, <1>6

(* A round keeps the invariant and lowers the effort that is left.         *)
LEMMA VisitKeeps ==
  ASSUME NEW g \in Graph, Consistent(g), NEW w \in WalkInv(g), w.stack # << >>
  PROVE  /\ Visit(g, w) \in WalkInv(g)
         /\ Effort(g, w) \in Nat /\ Effort(g, Visit(g, w)) < Effort(g, w)
<1>1. PICK v, n, fresh :
        /\ v = Visit(g, w) /\ n = Len(w.stack)
        /\ \/ Leaves(w, v, n)
           \/ Drops(w, v, n)
           \/ Enters(g, w, v, n, fresh) /\ Len(fresh) <= Len(g.ids)
  BY RoundsKeep
<1>2. v \in WalkInv(g)
  BY <1>1, LeaveKeeps, DropKeeps, EnterKeeps
<1>3. PICK a, b, k, m : /\ a = Cardinality(Ids(g) \ w.visited)
                        /\ b = Cardinality(Ids(g) \ v.visited)
                        /\ k = Len(g.ids) /\ m = Len(v.stack)
  OBVIOUS
<1>4. Effort(g, w) = a * (k + 2) + n /\ Effort(g, v) = b * (k + 2) + m
  BY <1>1, <1>3 DEF Effort
<1>5. IsFiniteSet(Ids(g) \ w.visited) /\ IsFiniteSet(Ids(g) \ v.visited)
  BY IdsFinite, FS_Difference
<1>6. /\ a \in Nat /\ b \in Nat /\ k \in Nat /\ n \in Nat /\ m \in Nat
      /\ w.stack \in Seq(Entry) /\ v.stack \in Seq(Entry)
  BY <1>1, <1>2, <1>3, <1>5, FS_CardinalityType DEF WalkInv, Walk, Graph
<1>7. CASE Leaves(w, v, n) \/ Drops(w, v, n)
  <2>1. /\ n \in Nat \ {0} /\ DOMAIN v.stack = 1..(n - 1) /\ v.visited = w.visited
    BY <1>7 DEF Leaves, Drops, Pops
  <2>2. n - 1 \in Nat /\ DOMAIN v.stack = 1..m
    BY <1>3, <1>6, <2>1
  <2>3. m = n - 1
    BY <1>6, <2>1, <2>2
  <2>4. a = b
    BY <1>3, <2>1
  <2>5. a * (k + 2) + n \in Nat /\ b * (k + 2) + m < a * (k + 2) + n
    BY <1>6, <2>1, <2>3, <2>4, RoundsLower
  <2> QED
    BY <1>1, <1>2, <1>4, <2>5
<1>8. CASE Enters(g, w, v, n, fresh) /\ Len(fresh) <= Len(g.ids)
  <2>1. /\ n \in Nat \ {0} /\ fresh \in Seq(Tasks) /\ DOMAIN v.stack = 1..(n + Len(fresh))
        /\ w.stack[n][1] \notin w.visited /\ n \in DOMAIN w.stack
        /\ v.visited = w.visited \union {w.stack[n][1]}
    BY <1>8 DEF Enters
  <2>2. m = n + Len(fresh) /\ m <= n + k
    BY <1>3, <1>6, <1>8, <2>1
  <2>3. w.stack[n][1] \in Ids(g)
    BY <2>1 DEF WalkInv, WalkKnown
  <2>4. PICK left, x : left = Ids(g) \ w.visited /\ x = w.stack[n][1]
    OBVIOUS
  <2>5. x \in left /\ Ids(g) \ v.visited = left \ {x}
    BY <2>1, <2>3, <2>4
  <2>6. IsFiniteSet(left) /\ a = Cardinality(left) /\ b = Cardinality(left \ {x})
    BY <1>3, <1>5, <2>5, <2>4
  <2>7. b = a - 1
    BY <2>5, <2>6, FS_RemoveElement
  <2>8. a = b + 1
    BY <1>6, <2>7
  <2>9. a * (k + 2) + n \in Nat /\ b * (k + 2) + m < a * (k + 2) + n
    BY <1>6, <2>1, <2>2, <2>8, RoundsLower
  <2> QED
    BY <1>1, <1>2, <1>4, <2>9
<1> QED
  BY <1>1, <1>7, <1>8

(* What the first pass promises: it lists every task once, and a way that   *)
(* leaves the tasks listed so far leads to the last one of them.           *)
LEMMA FinishOrderLists ==
  ASSUME NEW g \in Graph, Consistent(g)
  PROVE  /\ FinishOrder(g) \in Seq(Tasks) /\ ToSet(FinishOrder(g)) = Ids(g)
         /\ IsInjective(FinishOrder(g)) /\ Exits(g, FinishOrder(g))
<1> DEFINE stop == {w \in Walk : w.stack = << >>}
           step == [w \in Walk |-> Visit(g, w)]
           inv == WalkInv(g)
           measure == [w \in inv |-> Effort(g, w)]
           start == [stack |-> Entries(Reverse(g.ids)), visited |-> {}, finish |-> << >>]
<1>1. \A w \in Walk \ stop : step[w] \in Walk
  <2> SUFFICES ASSUME NEW w \in Walk, w.stack # << >> PROVE Visit(g, w) \in Walk
    OBVIOUS
  <2>1. PICK top : top = w.stack[Len(w.stack)]
    OBVIOUS
  <2>2. top[2] \in BOOLEAN
    BY <2>1, VisitTop
  <2>3. top[2] \/ top[1] \in w.visited => Visit(g, w) \in Walk
    BY <2>1, VisitPops
  <2>4. ~top[2] /\ top[1] \notin w.visited => Visit(g, w) \in Walk
    BY <2>1, VisitEnters
  <2> QED
    BY <2>2, <2>3, <2>4
<1>2. inv \in SUBSET Walk
  BY DEF WalkInv
<1>3. measure \in [inv -> Nat]
  <2> SUFFICES ASSUME NEW w \in WalkInv(g) PROVE Effort(g, w) \in Nat
    OBVIOUS
  <2>1. IsFiniteSet(Ids(g) \ w.visited)
    BY IdsFinite, FS_Difference
  <2>2. PICK a, k, n : a = Cardinality(Ids(g) \ w.visited) /\ k = Len(g.ids) /\ n = Len(w.stack)
    OBVIOUS
  <2>3. a \in Nat /\ k \in Nat /\ n \in Nat
    BY <2>1, <2>2, FS_CardinalityType DEF WalkInv, Walk, Graph
  <2>4. a * (k + 2) + n \in Nat
    BY <2>3
  <2> QED
    BY <2>2, <2>4 DEF Effort
<1>4. \A w \in inv \ stop : step[w] \in inv /\ measure[step[w]] < measure[w]
  <2> SUFFICES ASSUME NEW w \in WalkInv(g), w.stack # << >>
               PROVE  step[w] \in WalkInv(g) /\ measure[step[w]] < measure[w]
    BY <1>2
  <2>1. /\ Visit(g, w) \in WalkInv(g) /\ Effort(g, Visit(g, w)) < Effort(g, w)
    BY VisitKeeps
  <2>2. step[w] = Visit(g, w)
    BY <1>2
  <2> QED
    BY <2>1, <2>2
<1>5. start \in inv
  <2>1. g.ids \in Seq(Tasks)
    BY DEF Graph
  <2>2. PICK n, r, s, ids :
          n = Len(ids) /\ r = Reverse(ids) /\ s = Entries(r) /\ ids = g.ids
    OBVIOUS
  <2>3. /\ n \in Nat /\ DOMAIN ids = 1..n /\ r = [i \in 1..n |-> ids[(n - i) + 1]]
        /\ \A i \in 1..n : ids[i] \in Tasks
    BY <2>1, <2>2 DEF Reverse
  <2>4. \A i \in 1..n : (n - i) + 1 \in 1..n /\ (n - ((n - i) + 1)) + 1 = i
    BY <2>3
  <2>5. Ids(g) = {ids[i] : i \in 1..n}
    BY <2>2, <2>3 DEF Ids, ToSet
  <2>6. r \in [1..n -> Tasks]
    BY <2>3, <2>4
  <2>7. r \in Seq(Tasks) /\ Len(r) = n
    BY <2>3, <2>6
  <2>8. s \in Seq(Entry) /\ Len(s) = n /\ \A i \in 1..n : s[i] = <<r[i], FALSE>>
    BY <2>2, <2>7, ListOfEntries
  <2>9. s \in Seq(Entry) /\ DOMAIN s = 1..n
    BY <2>3, <2>8
  <2>10. PICK w : w = start
    OBVIOUS
  <2>11. w.stack = s /\ w.visited = {} /\ w.finish = << >> /\ w \in Walk
    BY <2>2, <2>9, <2>10 DEF Walk
  <2>12. \A i \in DOMAIN w.stack : w.stack[i][1] \in Ids(g) /\ w.stack[i][2] = FALSE
    <3> SUFFICES ASSUME NEW i \in 1..n PROVE s[i][1] \in Ids(g) /\ s[i][2] = FALSE
      BY <2>9, <2>11
    <3>1. s[i] = <<r[i], FALSE>>
      BY <2>8
    <3>2. s[i][1] = r[i] /\ s[i][2] = FALSE
      BY <3>1
    <3>3. r[i] \in Ids(g)
      BY <2>3, <2>4, <2>5
    <3> QED
      BY <3>2, <3>3
  <2>13. Open(w) = {} /\ ToSet(w.finish) = {}
    BY <2>11, <2>12 DEF OnStack, Open, ToSet
  <2>14. Ids(g) \subseteq ToEnter(w)
    <3> SUFFICES ASSUME NEW i \in 1..n PROVE ids[i] \in ToEnter(w)
      BY <2>5
    <3>1. PICK j : j = (n - i) + 1
      OBVIOUS
    <3>2. j \in 1..n /\ r[j] = ids[i]
      BY <2>3, <2>4, <3>1
    <3>3. s[j] = <<r[j], FALSE>>
      BY <2>8, <3>2
    <3>4. s[j][1] = ids[i] /\ s[j][2] = FALSE
      BY <3>2, <3>3
    <3> QED
      BY <2>3, <2>9, <2>11, <3>2, <3>4 DEF OnStack, ToEnter
  <2>15. WalkKnown(g, w)
    BY <2>11, <2>12, <2>13, <2>14 DEF WalkKnown
  <2>16. WalkChained(g, w) /\ WalkPending(g, w)
    BY <2>12 DEF WalkChained, WalkPending
  <2>17. WalkFinished(g, w) /\ WalkOnce(w)
    BY <2>11, <2>12, <2>13 DEF WalkFinished, Exits, WalkOnce, IsInjective
  <2> QED
    BY <2>10, <2>11, <2>15, <2>16, <2>17 DEF WalkInv
<1> HIDE DEF stop, step, inv, measure, start
<1>6. Loop(Walk, stop, step, start) \in inv \intersect stop
  BY <1>1, <1>2, <1>3, <1>4, <1>5, LoopEnds
<1>7. PICK w \in inv \intersect stop : w = Loop(Walk, stop, step, start)
  BY <1>6
<1>8. FinishOrder(g) = w.finish
  BY <1>7 DEF FinishOrder, stop, step, start
<1>9. /\ w \in Walk /\ w.stack = << >> /\ WalkKnown(g, w) /\ WalkFinished(g, w) /\ WalkOnce(w)
  BY <1>7 DEF inv, stop, WalkInv
<1>10. Open(w) = {} /\ ToEnter(w) = {}
  BY <1>9 DEF OnStack, Open, ToEnter
<1> QED
  BY <1>8, <1>9, <1>10 DEF WalkKnown, WalkFinished, WalkOnce, Walk
-----------------------------------------------------------------------------
(* The second pass of Kosaraju. *)

(* The tasks that lead to t and that t leads to.                           *)
ClassOf(g, t) == {u \in Ids(g) : Leads(g, u, t) /\ Leads(g, t, u)}

(* Ways through a graph can be chained.                                    *)
LEMMA LeadsChain ==
  ASSUME NEW g \in Graph, NEW t \in Tasks, NEW u \in Tasks, NEW v \in Tasks,
         Leads(g, t, u), Leads(g, u, v)
  PROVE  Leads(g, t, v)
BY LeadsOn

(* A task is in its class, and the classes of its members are the same.    *)
LEMMA ClassesAgree ==
  ASSUME NEW g \in Graph, NEW t \in Ids(g), NEW u \in ClassOf(g, t)
  PROVE  t \in ClassOf(g, t) /\ ClassOf(g, u) = ClassOf(g, t)
<1>1. Ids(g) \subseteq Tasks
  BY IdsFinite
<1>2. Leads(g, t, t)
  BY DEF Leads
<1>3. u \in Ids(g) /\ Leads(g, u, t) /\ Leads(g, t, u)
  BY DEF ClassOf
<1>4. ASSUME NEW x \in Ids(g)
      PROVE  /\ Leads(g, x, u) <=> Leads(g, x, t)
             /\ Leads(g, u, x) <=> Leads(g, t, x)
  BY <1>1, <1>3, LeadsChain
<1> QED
  BY <1>2, <1>4 DEF ClassOf

(* The worklist of one component: it holds start and what leads to it, and  *)
(* is closed under the unassigned parents.                                 *)
Gathered(g, start, assigned) ==
  {s \in SUBSET Tasks :
     /\ start \in s /\ s \subseteq Ids(g) \union {start}
     /\ (s \ {start}) \intersect assigned = {}
     /\ \A x \in s : Leads(g, x, start)}

(* The worklist of a component ends, closed under unassigned parents.      *)
LEMMA ComponentCloses ==
  ASSUME NEW g \in Graph, Consistent(g), NEW start \in Tasks, NEW assigned
  PROVE  /\ Component(g, start, assigned) \in Gathered(g, start, assigned)
         /\ LET c == Component(g, start, assigned) IN Parents(g, c, assigned) \subseteq c
<1> DEFINE S == SUBSET Tasks
           stop == {s \in SUBSET Tasks : Parents(g, s, assigned) \subseteq s}
           step == [s \in SUBSET Tasks |-> s \union Parents(g, s, assigned)]
           inv == Gathered(g, start, assigned)
           all == Ids(g) \union {start}
           measure == [s \in inv |-> Cardinality(all \ s)]
<1>1. Ids(g) \subseteq Tasks /\ IsFiniteSet(all)
  BY IdsFinite, FS_AddElement
<1>2. \A s \in SUBSET Tasks : step[s] \in SUBSET Tasks
  BY <1>1 DEF Parents
<1>3. inv \in SUBSET S
  BY DEF Gathered
<1>4. \A s \in inv : IsFiniteSet(all \ s) /\ Cardinality(all \ s) \in Nat
  BY <1>1, FS_Difference, FS_CardinalityType
<1>5. measure \in [inv -> Nat]
  BY <1>4
<1>6. ASSUME NEW s \in inv, s \notin stop
      PROVE  step[s] \in inv /\ measure[step[s]] < measure[s]
  <2>1. /\ s \in SUBSET Tasks /\ start \in s /\ s \subseteq all
        /\ (s \ {start}) \intersect assigned = {}
        /\ \A x \in s : Leads(g, x, start)
    BY DEF Gathered
  <2> DEFINE r == s \union Parents(g, s, assigned)
  <2>2. ASSUME NEW u \in Parents(g, s, assigned)
        PROVE  u \in Ids(g) /\ u \notin assigned /\ Leads(g, u, start)
    <3>1. PICK v \in g.successors[u] : v \in s /\ u \in Ids(g) /\ u \notin assigned
      BY DEF Parents
    <3>2. u \in g.predecessors[v]
      BY <3>1, EdgesMirrored
    <3>3. u \in Tasks /\ v \in Tasks /\ Leads(g, u, v)
      BY <1>1, <2>1, <3>1, <3>2, PredecessorIsAncestor DEF Leads
    <3> QED
      BY <2>1, <3>1, <3>3, LeadsChain
  <2>3. r \in inv
    BY <1>1, <2>1, <2>2 DEF Gathered
  <2>4. PICK u \in Parents(g, s, assigned) : u \notin s
    BY <2>1, <1>6
  <2>5. all \ r \subseteq all \ s /\ u \in all \ s /\ u \notin all \ r
    BY <2>2, <2>4
  <2>6. PICK a, b : a = all \ r /\ b = all \ s
    OBVIOUS
  <2>7. IsFiniteSet(b) /\ a \subseteq b /\ a # b
    BY <1>4, <2>5, <2>6
  <2>8. /\ Cardinality(a) <= Cardinality(b) /\ Cardinality(a) # Cardinality(b)
        /\ Cardinality(a) \in Nat /\ Cardinality(b) \in Nat
    BY <2>7, FS_Subset, FS_CardinalityType
  <2>9. step[s] = r /\ measure[s] = Cardinality(b) /\ measure[r] = Cardinality(a)
    BY <2>1, <2>3, <2>6
  <2>10. Cardinality(a) < Cardinality(b)
    BY <2>8
  <2>11. step[s] \in inv
    BY <2>3, <2>9
  <2>12. measure[step[s]] = Cardinality(a)
    BY <2>9
  <2> QED
    BY <2>9, <2>10, <2>11, <2>12
<1>7. {start} \in inv
  BY DEF Gathered, Leads
<1> HIDE DEF S, stop, step, inv, measure
<1>8. Loop(S, stop, step, {start}) \in inv \intersect stop
  <2>1. \A s \in S \ stop : step[s] \in S
    BY <1>2 DEF S
  <2>2. \A s \in inv \ stop : step[s] \in inv /\ measure[step[s]] < measure[s]
    BY <1>6
  <2> QED
    BY <1>3, <1>5, <1>7, <2>1, <2>2, LoopEnds
<1>9. Component(g, start, assigned) = Loop(S, stop, step, {start})
  BY DEF Component, S, stop, step
<1> QED
  BY <1>8, <1>9 DEF inv, stop

(* Among the tasks that lead to one another, one that is finished before a  *)
(* task they lead to is not the last one.                                  *)
LEMMA NotTheLast ==
  ASSUME NEW g \in Graph, Consistent(g), NEW f \in Seq(Tasks),
         ToSet(f) = Ids(g), IsInjective(f), Exits(g, f),
         NEW k \in DOMAIN f, NEW i \in DOMAIN f, i < k, Leads(g, f[i], f[k])
  PROVE  \E j \in DOMAIN f : i < j /\ f[j] \in ClassOf(g, f[i])
<1>1. PICK n : n \in Nat /\ DOMAIN f = 1..n
  <2>1. Len(f) \in Nat /\ DOMAIN f = 1..Len(f)
    OBVIOUS
  <2> QED
    BY <2>1
<1> DEFINE x == f[i]
           t == f[k]
           s == {f[j] : j \in 1..i}
<1>2. /\ i \in Nat /\ k \in Nat /\ i \in 1..i /\ k \notin 1..i
      /\ \A j \in 1..i : j \in DOMAIN f
  BY <1>1
<1>3. \A j \in DOMAIN f : f[j] \in Ids(g) /\ f[j] \in Tasks
  BY DEF ToSet
<1>4. x \in s /\ t \notin s
  BY <1>2 DEF IsInjective
<1>5. x # t /\ x \in Ancestors(g, t)
  BY <1>4 DEF Leads
<1>6. PICK a \in s \intersect Tasks, b \in Tasks \ s :
        a \in g.predecessors[b] /\ Leads(g, x, a) /\ Leads(g, b, t)
  BY <1>3, <1>4, <1>5, WayOut
<1>7. b \in Ids(g)
  <2>1. Ancestors(g, t) \subseteq Ids(g)
    BY <1>3, AncestorsDeclared
  <2> QED
    BY <1>3, <1>6, <2>1 DEF Leads
<1>8. b \in g.successors[a]
  BY <1>6, <1>7, EdgesMirrored
<1>9. PICK l \in 1..i : a = f[l]
  BY <1>6
<1>10. Leads(g, b, x)
  <2>1. \A j \in 1..i : b # f[j]
    BY <1>6
  <2> QED
    BY <1>8, <1>9, <2>1 DEF Exits
<1>11. Leads(g, x, b)
  <2>1. Leads(g, a, b)
    BY <1>6, PredecessorIsAncestor DEF Leads
  <2> QED
    BY <1>3, <1>6, <2>1, LeadsChain
<1>12. b \in ClassOf(g, x)
  BY <1>7, <1>10, <1>11 DEF ClassOf
<1>13. PICK j \in DOMAIN f : b = f[j]
  BY <1>7 DEF ToSet
<1>14. i < j
  <2>1. j \notin 1..i
    BY <1>6, <1>13
  <2> QED
    BY <1>1, <1>2, <2>1
<1> QED
  BY <1>12, <1>13, <1>14

(* When all that is finished after a task is assigned, in whole classes,    *)
(* what leads to it is assigned or in its class.                           *)
Unassigned(g, f, k, assigned) ==
  /\ f[k] \notin assigned /\ assigned \subseteq Ids(g)
  /\ \A j \in DOMAIN f : k < j => f[j] \in assigned
  /\ \A x \in assigned : ClassOf(g, x) \subseteq assigned

(* What is unassigned and leads to the last unassigned task of the finish   *)
(* order can be reached from it: of its class, the task finished last      *)
(* cannot be finished before it.                                           *)
LEMMA LeadsBack ==
  ASSUME NEW g \in Graph, Consistent(g), NEW f \in Seq(Tasks),
         ToSet(f) = Ids(g), IsInjective(f), Exits(g, f),
         NEW k \in DOMAIN f, NEW assigned, Unassigned(g, f, k, assigned),
         NEW x \in Ids(g) \ assigned, Leads(g, x, f[k])
  PROVE  Leads(g, f[k], x)
<1>1. PICK n : n \in Nat /\ DOMAIN f = 1..n
  <2>1. Len(f) \in Nat /\ DOMAIN f = 1..Len(f)
    OBVIOUS
  <2> QED
    BY <2>1
<1> DEFINE members == {j \in DOMAIN f : f[j] \in ClassOf(g, x)}
           gaps == {n - j : j \in members}
<1>2. \A j \in DOMAIN f : f[j] \in Ids(g) /\ f[j] \in Tasks
  BY DEF ToSet
<1>3. Ids(g) \subseteq Tasks /\ x \in ClassOf(g, x)
  BY IdsFinite DEF ClassOf, Leads
<1>4. gaps \in SUBSET Nat /\ gaps # {}
  <2>1. PICK i \in DOMAIN f : x = f[i]
    BY DEF ToSet
  <2> QED
    BY <1>1, <1>3, <2>1
<1>5. PICK m \in gaps : \A o \in gaps : ~(o < m)
  <2> HIDE DEF gaps
  <2> QED
    BY <1>4, LeastMember
<1>6. PICK i \in members : m = n - i
  BY <1>5
<1>7. f[i] \in ClassOf(g, x) /\ i \in DOMAIN f
  BY <1>6
<1>8. ClassOf(g, f[i]) = ClassOf(g, x)
  BY <1>7, ClassesAgree
<1>9. f[i] \in Ids(g) /\ f[i] \in Tasks /\ Leads(g, f[i], x) /\ Leads(g, x, f[i])
  BY <1>2, <1>7 DEF ClassOf
<1>10. ASSUME i < k PROVE FALSE
  <2>1. Leads(g, f[i], f[k])
    BY <1>2, <1>3, <1>9, LeadsChain
  <2>2. PICK j \in DOMAIN f : i < j /\ f[j] \in ClassOf(g, f[i])
    BY <1>7, <1>10, <2>1, NotTheLast
  <2>3. j \in members
    BY <1>8, <2>2
  <2>4. n - j \in gaps /\ n - j < m
    BY <1>1, <1>6, <1>7, <2>2, <2>3
  <2> HIDE DEF gaps
  <2> QED
    BY <1>5, <2>4
<1>11. ASSUME k < i PROVE FALSE
  <2>1. f[i] \in assigned
    BY <1>7, <1>11 DEF Unassigned
  <2>2. x \in ClassOf(g, f[i])
    BY <1>3, <1>8
  <2> QED
    BY <2>1, <2>2 DEF Unassigned
<1>12. i = k
  BY <1>1, <1>7, <1>10, <1>11
<1> QED
  BY <1>9, <1>12

(* The component of the last unassigned task is its class.                 *)
LEMMA ComponentIsClass ==
  ASSUME NEW g \in Graph, Consistent(g), NEW f \in Seq(Tasks),
         ToSet(f) = Ids(g), IsInjective(f), Exits(g, f),
         NEW k \in DOMAIN f, NEW assigned, Unassigned(g, f, k, assigned)
  PROVE  Component(g, f[k], assigned) = ClassOf(g, f[k])
<1>1. PICK t : t = f[k]
  OBVIOUS
<1>2. PICK c : c = Component(g, t, assigned)
  OBVIOUS
<1>3. t \in Ids(g) /\ t \in Tasks /\ Ids(g) \subseteq Tasks
  BY <1>1, IdsFinite DEF ToSet
<1>4. c \in Gathered(g, t, assigned) /\ Parents(g, c, assigned) \subseteq c
  BY <1>2, <1>3, ComponentCloses
<1>5. /\ t \in c /\ c \subseteq Ids(g) /\ c \intersect assigned = {}
      /\ \A x \in c : Leads(g, x, t)
  <2>1. t \notin assigned
    BY <1>1 DEF Unassigned
  <2> QED
    BY <1>3, <1>4, <2>1 DEF Gathered
<1>6. ASSUME NEW x \in c PROVE x \in ClassOf(g, t)
  <2>1. x \in Ids(g) \ assigned /\ Leads(g, x, f[k])
    BY <1>1, <1>5
  <2>2. Leads(g, f[k], x)
    BY <2>1, LeadsBack
  <2> QED
    BY <1>1, <2>1, <2>2 DEF ClassOf
<1>7. ASSUME NEW u \in ClassOf(g, t), u \notin c PROVE FALSE
  <2>1. u \in Ids(g) /\ u \in Tasks /\ Leads(g, u, t) /\ Leads(g, t, u)
    BY <1>3 DEF ClassOf
  <2>2. u \in Ancestors(g, t)
    BY <1>5, <1>7, <2>1 DEF Leads
  <2>3. PICK s : s = Tasks \ c
    OBVIOUS
  <2>4. u \in s /\ t \notin s
    BY <1>5, <1>7, <2>1, <2>3
  <2>5. PICK a \in s \intersect Tasks, b \in Tasks \ s :
          a \in g.predecessors[b] /\ Leads(g, u, a) /\ Leads(g, b, t)
    BY <1>3, <2>2, <2>4, WayOut
  <2>6. a \in Tasks /\ a \notin c /\ b \in Tasks /\ b \in c /\ b \in Ids(g)
    BY <1>5, <2>3, <2>5
  <2>7. a \in Ids(g) /\ b \in g.successors[a]
    BY <2>5, <2>6, EdgesMirrored
  <2>8. a \in assigned
    BY <1>4, <2>6, <2>7 DEF Parents
  <2>9. Leads(g, a, t)
    <3>1. Leads(g, a, b)
      BY <2>5, <2>6, PredecessorIsAncestor DEF Leads
    <3> QED
      BY <1>3, <2>5, <2>6, <3>1, LeadsChain
  <2>10. Leads(g, t, a)
    BY <1>3, <2>1, <2>5, <2>6, LeadsChain
  <2>11. t \in ClassOf(g, a)
    BY <1>3, <2>9, <2>10 DEF ClassOf
  <2> QED
    BY <1>1, <2>8, <2>11 DEF Unassigned
<1> QED
  BY <1>1, <1>2, <1>6, <1>7

(* What is assigned so far: whole classes, with all that was taken from the *)
(* end of the finish order.                                                *)
SplitInv(g, f) ==
  {w \in Split :
     /\ Len(w.left) <= Len(f) /\ \A i \in DOMAIN w.left : w.left[i] = f[i]
     /\ \A c \in w.found : \E t \in Ids(g) : c = ClassOf(g, t)
     /\ \A i \in DOMAIN f : Len(w.left) < i => f[i] \in UNION w.found}

(* The next task from the end of the finish order is in a class already, or *)
(* its component is a new class.                                           *)
LEMMA AssignKeeps ==
  ASSUME NEW g \in Graph, Consistent(g), NEW f \in Seq(Tasks),
         ToSet(f) = Ids(g), IsInjective(f), Exits(g, f),
         NEW w \in SplitInv(g, f), w.left # << >>
  PROVE  Assign(g, w) \in SplitInv(g, f)
<1>1. PICK left, found, n : left = w.left /\ found = w.found /\ n = Len(left)
  OBVIOUS
<1>2. PICK l : l = Len(f) /\ l \in Nat /\ DOMAIN f = 1..l
  OBVIOUS
<1>3. /\ left \in Seq(Tasks) /\ found \in SUBSET SUBSET Tasks
      /\ n <= l /\ \A i \in DOMAIN left : left[i] = f[i]
      /\ \A c \in found : \E t \in Ids(g) : c = ClassOf(g, t)
      /\ \A i \in 1..l : n < i => f[i] \in UNION found
  BY <1>1, <1>2 DEF SplitInv, Split
<1>4. PICK front : front = Front(left)
  OBVIOUS
<1>5. /\ n \in Nat \ {0} /\ Last(left) = left[n] /\ front \in Seq(Tasks)
      /\ Len(front) = n - 1 /\ \A i \in 1..(n - 1) : front[i] = left[i]
  BY <1>1, <1>3, <1>4, FrontAndLast
<1>6. n \in DOMAIN f /\ n \in DOMAIN left /\ Last(left) = f[n]
  BY <1>1, <1>2, <1>3, <1>5
<1>7. DOMAIN front = 1..(n - 1) /\ \A i \in 1..(n - 1) : front[i] = f[i]
  BY <1>1, <1>3, <1>5
<1>8. PICK t : t = f[n]
  OBVIOUS
<1>9. t \in Ids(g)
  BY <1>6, <1>8 DEF ToSet
<1>10. PICK more : more = IF t \in UNION found THEN found
                          ELSE found \union {Component(g, t, UNION found)}
  OBVIOUS
<1>11. Assign(g, w) = [left |-> front, found |-> more]
  BY <1>1, <1>4, <1>6, <1>8, <1>10 DEF Assign
<1>12. more = found \union {ClassOf(g, t)} \/ (t \in UNION found /\ more = found)
  <2>1. CASE t \in UNION found
    BY <1>10, <2>1
  <2>2. CASE t \notin UNION found
    <3>1. UNION found \subseteq Ids(g)
      BY <1>3 DEF ClassOf
    <3>2. ASSUME NEW x \in UNION found PROVE ClassOf(g, x) \subseteq UNION found
      <4>1. PICK c \in found : x \in c
        OBVIOUS
      <4>2. PICK u \in Ids(g) : c = ClassOf(g, u)
        BY <1>3
      <4>3. ClassOf(g, x) = c
        BY <4>1, <4>2, ClassesAgree
      <4> QED
        BY <4>3
    <3>3. Unassigned(g, f, n, UNION found)
      BY <1>2, <1>3, <1>8, <2>2, <3>1, <3>2 DEF Unassigned
    <3>4. Component(g, f[n], UNION found) = ClassOf(g, f[n])
      BY <1>6, <3>3, ComponentIsClass
    <3> QED
      BY <1>8, <1>10, <2>2, <3>4
  <2> QED
    BY <2>1, <2>2
<1>13. t \in ClassOf(g, t) /\ ClassOf(g, t) \subseteq Tasks
  BY <1>9, IdsFinite DEF ClassOf, Leads
<1>14. more \in SUBSET SUBSET Tasks /\ t \in UNION more /\ UNION found \subseteq UNION more
  BY <1>3, <1>12, <1>13
<1>15. \A c \in more : \E u \in Ids(g) : c = ClassOf(g, u)
  BY <1>3, <1>9, <1>12
<1>16. ASSUME NEW i \in 1..l, n - 1 < i PROVE f[i] \in UNION more
  <2>1. i = n \/ n < i
    BY <1>5, <1>16
  <2> QED
    BY <1>3, <1>8, <1>14, <2>1
<1>17. n - 1 <= l
  BY <1>2, <1>3, <1>5
<1>18. PICK v : v = Assign(g, w)
  OBVIOUS
<1>19. v.left = front /\ v.found = more /\ v \in Split
  BY <1>5, <1>11, <1>14, <1>18 DEF Split
<1> QED
  BY <1>2, <1>5, <1>7, <1>15, <1>16, <1>17, <1>18, <1>19 DEF SplitInv

(* The components of a consistent graph are its classes.                   *)
LEMMA ComponentsAreClasses ==
  ASSUME NEW g \in Graph, Consistent(g)
  PROVE  Components(g) = {ClassOf(g, t) : t \in Ids(g)}
<1>1. PICK f : f = FinishOrder(g)
  OBVIOUS
<1>2. f \in Seq(Tasks) /\ ToSet(f) = Ids(g) /\ IsInjective(f) /\ Exits(g, f)
  BY <1>1, FinishOrderLists
<1> DEFINE stop == {w \in Split : w.left = << >>}
           step == [w \in Split |-> Assign(g, w)]
           inv == SplitInv(g, f)
           measure == [w \in inv |-> Len(w.left)]
           start == [left |-> f, found |-> {}]
<1>3. ASSUME NEW w \in Split, w.left # << >>
      PROVE  /\ Assign(g, w) \in Split /\ Len(w.left) \in Nat
             /\ Len(Assign(g, w).left) < Len(w.left)
  <2>1. PICK left, found : left = w.left /\ found = w.found
    OBVIOUS
  <2>2. left \in Seq(Tasks) /\ found \in SUBSET SUBSET Tasks /\ left # << >>
    BY <1>3, <2>1 DEF Split
  <2>3. /\ Last(left) \in Tasks /\ Front(left) \in Seq(Tasks)
        /\ Len(left) \in Nat \ {0} /\ Len(Front(left)) = Len(left) - 1
    BY <2>2, FrontAndLast
  <2>4. Component(g, Last(left), UNION found) \in SUBSET Tasks
    BY <2>3, ComponentCloses DEF Gathered
  <2>5. PICK more : more = IF Last(left) \in UNION found THEN found
                           ELSE found \union {Component(g, Last(left), UNION found)}
    OBVIOUS
  <2>6. more \in SUBSET SUBSET Tasks
    BY <2>2, <2>4, <2>5
  <2>7. Assign(g, w) = [left |-> Front(left), found |-> more]
    BY <2>1, <2>5 DEF Assign
  <2> QED
    BY <2>1, <2>3, <2>6, <2>7 DEF Split
<1>4. \A w \in Split \ stop : step[w] \in Split
  BY <1>3
<1>5. inv \in SUBSET Split
  BY DEF SplitInv
<1>6. measure \in [inv -> Nat]
  BY DEF SplitInv, Split
<1>7. \A w \in inv \ stop : step[w] \in inv /\ measure[step[w]] < measure[w]
  <2> SUFFICES ASSUME NEW w \in inv, w \notin stop
               PROVE  step[w] \in inv /\ measure[step[w]] < measure[w]
    OBVIOUS
  <2>1. w \in Split /\ w.left # << >> /\ step[w] = Assign(g, w)
    BY <1>5
  <2>2. Assign(g, w) \in inv
    BY <1>2, <2>1, AssignKeeps
  <2>3. measure[w] = Len(w.left) /\ measure[Assign(g, w)] = Len(Assign(g, w).left)
    BY <2>2
  <2> QED
    BY <1>3, <2>1, <2>2, <2>3
<1>8. start \in inv
  <2>1. PICK w : w = start
    OBVIOUS
  <2>2. w.left = f /\ w.found = {} /\ w \in Split
    BY <1>2, <2>1 DEF Split
  <2>3. Len(f) \in Nat /\ DOMAIN f = 1..Len(f)
    BY <1>2
  <2>4. \A i \in DOMAIN f : ~(Len(f) < i)
    BY <2>3
  <2> QED
    BY <2>1, <2>2, <2>3, <2>4 DEF SplitInv
<1> HIDE DEF stop, step, inv, measure, start
<1>9. PICK w \in inv \intersect stop : w = Loop(Split, stop, step, start)
  BY <1>4, <1>5, <1>6, <1>7, <1>8, LoopEnds
<1>10. Components(g) = w.found
  BY <1>1, <1>9 DEF Components, stop, step, start
<1>11. /\ \A c \in w.found : \E t \in Ids(g) : c = ClassOf(g, t)
       /\ \A i \in DOMAIN f : f[i] \in UNION w.found
  <2>1. Len(w.left) = 0 /\ w \in SplitInv(g, f)
    BY <1>9 DEF inv, stop
  <2>2. \A i \in DOMAIN f : 0 < i
    BY <1>2
  <2> QED
    BY <2>1, <2>2 DEF SplitInv
<1>12. ASSUME NEW t \in Ids(g) PROVE ClassOf(g, t) \in w.found
  <2>1. PICK c \in w.found : t \in c
    BY <1>2, <1>11 DEF ToSet
  <2>2. PICK u \in Ids(g) : c = ClassOf(g, u)
    BY <1>11
  <2>3. ClassOf(g, t) = c
    BY <2>1, <2>2, ClassesAgree
  <2> QED
    BY <2>1, <2>3
<1> QED
  BY <1>10, <1>11, <1>12

(* A class is a cycle when its tasks are ancestors of themselves.          *)
LEMMA CyclicClass ==
  ASSUME NEW g \in Graph, Consistent(g), NEW t \in Ids(g)
  PROVE  (Cardinality(ClassOf(g, t)) > 1 \/ \E x \in ClassOf(g, t) : x \in g.successors[x])
           <=> t \in Ancestors(g, t)
<1>1. PICK c : c = ClassOf(g, t)
  OBVIOUS
<1>2. Ids(g) \subseteq Tasks /\ IsFiniteSet(c) /\ t \in c /\ c \subseteq Ids(g)
  BY <1>1, IdsFinite, FS_Subset DEF ClassOf, Leads
<1>3. ASSUME NEW u \in c, u # t PROVE t \in Ancestors(g, t)
  <2>1. t \in Ancestors(g, u) /\ u \in Ancestors(g, t)
    BY <1>1, <1>3 DEF ClassOf, Leads
  <2> QED
    BY <1>2, <2>1, AncestorsTransitive
<1>4. ASSUME Cardinality(c) > 1 PROVE \E u \in c : u # t
  <2> SUFFICES ASSUME c = {t} PROVE FALSE
    BY <1>2
  <2>1. Cardinality({t}) = 1
    BY FS_Singleton
  <2> QED
    BY <1>4, <2>1
<1>5. ASSUME NEW x \in c, x \in g.successors[x] PROVE t \in Ancestors(g, t)
  <2>1. x \in Ancestors(g, x)
    BY <1>2, <1>5, EdgesMirrored, PredecessorIsAncestor
  <2> QED
    BY <1>3, <2>1
<1>6. ASSUME t \in Ancestors(g, t)
      PROVE  Cardinality(c) > 1 \/ \E x \in c : x \in g.successors[x]
  <2>1. PICK p \in g.predecessors[t] : Leads(g, t, p)
    BY <1>2, <1>6, AncestorsUnfold
  <2>2. p \in Ids(g) /\ t \in g.successors[p]
    BY EdgesMirrored
  <2>3. Leads(g, p, t)
    BY <1>2, PredecessorIsAncestor DEF Leads
  <2>4. p \in c
    BY <1>1, <2>1, <2>2, <2>3 DEF ClassOf
  <2>5. CASE p # t
    <3>1. {t, p} \subseteq c
      BY <1>2, <2>4
    <3>2. Cardinality({t, p}) = 2
      <4>1. PICK one : one = {t} /\ {t, p} = one \union {p}
        OBVIOUS
      <4>2. IsFiniteSet(one) /\ Cardinality(one) = 1 /\ p \notin one
        BY <2>5, <4>1, FS_Singleton
      <4>3. Cardinality(one \union {p}) = Cardinality(one) + 1
        BY <4>2, FS_AddElement
      <4> QED
        BY <4>1, <4>2, <4>3
    <3>3. Cardinality({t, p}) <= Cardinality(c) /\ Cardinality(c) \in Nat
      BY <1>2, <3>1, FS_Subset, FS_CardinalityType
    <3> QED
      BY <3>2, <3>3
  <2> QED
    BY <2>2, <2>4, <2>5
<1> QED
  BY <1>1, <1>3, <1>4, <1>5, <1>6

(* The cycles of a consistent graph.                                       *)
LEMMA CyclesAreCycles ==
  ASSUME NEW g \in Graph, Consistent(g)
  PROVE  Cycles(g) =
           {{u \in Ids(g) : t \in Ancestors(g, u) /\ u \in Ancestors(g, t)} :
              t \in {t \in Ids(g) : t \in Ancestors(g, t)}}
<1> DEFINE Mutual(t) == {u \in Ids(g) : t \in Ancestors(g, u) /\ u \in Ancestors(g, t)}
           cyclic == {t \in Ids(g) : t \in Ancestors(g, t)}
<1>1. Components(g) = {ClassOf(g, t) : t \in Ids(g)}
  BY ComponentsAreClasses
<1>2. ASSUME NEW t \in cyclic PROVE Mutual(t) = ClassOf(g, t)
  BY DEF ClassOf, Leads
<1>3. ASSUME NEW c \in Cycles(g) PROVE \E t \in cyclic : c = Mutual(t)
  <2>1. PICK t \in Ids(g) : c = ClassOf(g, t)
    BY <1>1 DEF Cycles
  <2>2. t \in cyclic
    BY <2>1, CyclicClass DEF Cycles
  <2> QED
    BY <1>2, <2>1, <2>2
<1>4. ASSUME NEW t \in cyclic PROVE Mutual(t) \in Cycles(g)
  <2>1. ClassOf(g, t) \in Components(g)
    BY <1>1
  <2>2. ClassOf(g, t) \in Cycles(g)
    BY <2>1, CyclicClass DEF Cycles
  <2> QED
    BY <1>2, <2>2
<1>5. Cycles(g) = {Mutual(t) : t \in cyclic}
  <2> HIDE DEF Mutual, cyclic
  <2> QED
    BY <1>3, <1>4
<1> QED
  BY <1>5
-----------------------------------------------------------------------------
(* Kahn's algorithm. *)

(* The ordered and the queued tasks are those whose predecessors are all    *)
(* ordered, the predecessors of a task come before it, and indegree counts  *)
(* the predecessors that are not ordered yet.                              *)
SortKnown(g, w) ==
  /\ ToSet(w.order) \union ToSet(w.queue) \subseteq Ids(g)
  /\ ToSet(w.order) \intersect ToSet(w.queue) = {}
  /\ IsInjective(w.order) /\ IsInjective(w.queue)
SortCounts(g, w) ==
  \A u \in Ids(g) : w.indegree[u] = Cardinality(g.predecessors[u] \ ToSet(w.order))
SortQueues(g, w) ==
  \A u \in Ids(g) : g.predecessors[u] \subseteq ToSet(w.order) <=>
                      u \in ToSet(w.order) \union ToSet(w.queue)
SortOrders(g, w) ==
  \A j \in DOMAIN w.order : \A p \in g.predecessors[w.order[j]] :
    \E i \in DOMAIN w.order : i < j /\ w.order[i] = p
SortInv(g) ==
  {w \in Sorting(g) : /\ SortKnown(g, w) /\ SortCounts(g, w)
                      /\ SortQueues(g, w) /\ SortOrders(g, w)}

(* A sequence that starts with its head.                                   *)
LEMMA HeadAndTail ==
  ASSUME NEW X, NEW s \in Seq(X), s # << >>
  PROVE  /\ Head(s) \in X /\ Tail(s) \in Seq(X)
         /\ ToSet(s) = {Head(s)} \union ToSet(Tail(s))
         /\ IsInjective(s) => IsInjective(Tail(s)) /\ Head(s) \notin ToSet(Tail(s))
<1>1. PICK n, t : n = Len(s) /\ t = Tail(s)
  OBVIOUS
<1>2. n \in Nat \ {0} /\ DOMAIN s = 1..n /\ \A i \in 1..n : s[i] \in X
  BY <1>1
<1>3. /\ Head(s) = s[1] /\ t \in Seq(X) /\ Len(t) = n - 1
      /\ \A i \in 1..(n - 1) : t[i] = s[i + 1]
  BY <1>1, HeadTailProperties
<1>4. DOMAIN t = 1..(n - 1) /\ 1 \in 1..n
  BY <1>2, <1>3
<1>5. \A i \in 1..(n - 1) : i + 1 \in 1..n /\ i + 1 # 1
  BY <1>2
<1>6. ASSUME NEW i \in 1..n, i # 1 PROVE \E j \in 1..(n - 1) : t[j] = s[i]
  <2>1. i - 1 \in 1..(n - 1) /\ (i - 1) + 1 = i
    BY <1>2, <1>6
  <2>2. t[i - 1] = s[i]
    BY <1>3, <2>1
  <2> QED
    BY <2>1, <2>2
<1>7. ToSet(s) = {s[1]} \union ToSet(t)
  <2>1. ASSUME NEW x \in ToSet(s) PROVE x = s[1] \/ x \in ToSet(t)
    BY <1>2, <1>4, <1>6 DEF ToSet
  <2>2. ASSUME NEW x \in ToSet(t) PROVE x \in ToSet(s)
    BY <1>2, <1>3, <1>4, <1>5 DEF ToSet
  <2>3. s[1] \in ToSet(s)
    BY <1>2, <1>4 DEF ToSet
  <2> QED
    BY <2>1, <2>2, <2>3
<1>8. ASSUME IsInjective(s) PROVE IsInjective(t) /\ s[1] \notin ToSet(t)
  <2>1. \A i, j \in 1..n : s[i] = s[j] => i = j
    BY <1>2, <1>8 DEF IsInjective
  <2>2. ASSUME NEW i \in 1..(n - 1), NEW j \in 1..(n - 1), t[i] = t[j] PROVE i = j
    <3>1. s[i + 1] = s[j + 1]
      BY <1>3, <2>2
    <3>2. i + 1 = j + 1
      BY <1>5, <2>1, <3>1
    <3> QED
      BY <3>2
  <2>3. ASSUME NEW i \in 1..(n - 1), t[i] = s[1] PROVE FALSE
    BY <1>3, <1>4, <1>5, <2>1, <2>3
  <2> QED
    BY <1>4, <2>2, <2>3 DEF ToSet, IsInjective
<1> QED
  BY <1>1, <1>2, <1>3, <1>4, <1>7, <1>8

(* Two sequences after each other.                                         *)
LEMMA Joined ==
  ASSUME NEW X, NEW a \in Seq(X), NEW b \in Seq(X)
  PROVE  /\ a \o b \in Seq(X) /\ ToSet(a \o b) = ToSet(a) \union ToSet(b)
         /\ IsInjective(a) /\ IsInjective(b) /\ ToSet(a) \intersect ToSet(b) = {}
              => IsInjective(a \o b)
<1>1. PICK s, m, n : s = a \o b /\ m = Len(a) /\ n = Len(b)
  OBVIOUS
<1>2. m \in Nat /\ n \in Nat /\ DOMAIN a = 1..m /\ DOMAIN b = 1..n
  BY <1>1
<1>3. /\ s \in Seq(X) /\ Len(s) = m + n
      /\ \A i \in 1..(m + n) : s[i] = IF i <= m THEN a[i] ELSE b[i - m]
  BY <1>1, ConcatProperties
<1>4. DOMAIN s = 1..(m + n)
  BY <1>2, <1>3
<1>5. \A i \in 1..m : i \in 1..(m + n) /\ s[i] = a[i]
  BY <1>2, <1>3
<1>6. ASSUME NEW i \in 1..n PROVE m + i \in 1..(m + n) /\ s[m + i] = b[i]
  <2>1. m + i \in 1..(m + n) /\ ~(m + i <= m) /\ (m + i) - m = i
    BY <1>2
  <2> QED
    BY <1>3, <2>1
<1>7. ASSUME NEW i \in 1..(m + n)
      PROVE  \/ i \in 1..m /\ s[i] = a[i]
             \/ i - m \in 1..n /\ s[i] = b[i - m] /\ ~(i <= m)
  BY <1>2, <1>3
<1>8. ToSet(s) = ToSet(a) \union ToSet(b)
  <2>1. ASSUME NEW x \in ToSet(s) PROVE x \in ToSet(a) \union ToSet(b)
    <3>1. PICK i \in 1..(m + n) : x = s[i]
      BY <1>4 DEF ToSet
    <3> QED
      BY <1>2, <1>7, <3>1 DEF ToSet
  <2>2. ASSUME NEW x \in ToSet(a) PROVE x \in ToSet(s)
    BY <1>2, <1>4, <1>5 DEF ToSet
  <2>3. ASSUME NEW x \in ToSet(b) PROVE x \in ToSet(s)
    <3>1. PICK i \in 1..n : x = b[i]
      BY <1>2 DEF ToSet
    <3> QED
      BY <1>4, <1>6, <3>1 DEF ToSet
  <2> QED
    BY <2>1, <2>2, <2>3
<1>9. ASSUME IsInjective(a), IsInjective(b), ToSet(a) \intersect ToSet(b) = {}
      PROVE  IsInjective(s)
  <2>1. \A i \in 1..m : \A j \in 1..n : a[i] # b[j]
    BY <1>2, <1>9 DEF ToSet
  <2>2. ASSUME NEW i \in 1..(m + n), NEW j \in 1..(m + n), s[i] = s[j] PROVE i = j
    <3>1. CASE i \in 1..m /\ s[i] = a[i]
      <4>1. j \in 1..m /\ s[j] = a[j]
        BY <1>7, <2>1, <2>2, <3>1
      <4> QED
        BY <1>2, <1>9, <2>2, <3>1, <4>1 DEF IsInjective
    <3>2. CASE i - m \in 1..n /\ s[i] = b[i - m]
      <4>1. j - m \in 1..n /\ s[j] = b[j - m]
        BY <1>7, <2>1, <2>2, <3>2
      <4>2. i - m = j - m
        BY <1>2, <1>9, <2>2, <3>2, <4>1 DEF IsInjective
      <4> QED
        BY <1>2, <4>2
    <3> QED
      BY <1>7, <3>1, <3>2
  <2> QED
    BY <1>4, <2>2 DEF IsInjective
<1> QED
  BY <1>1, <1>3, <1>8, <1>9

(* A list without repetitions is as long as its set is large.              *)
LEMMA InjectiveLength ==
  ASSUME NEW X, NEW s \in Seq(X), IsInjective(s)
  PROVE  IsFiniteSet(ToSet(s)) /\ Cardinality(ToSet(s)) = Len(s)
<1>1. PICK n, r : n = Len(s) /\ r = ToSet(s)
  OBVIOUS
<1>2. n \in Nat /\ DOMAIN s = 1..n
  BY <1>1
<1>3. s \in [1..n -> r] /\ r = {s[i] : i \in 1..n}
  BY <1>1, <1>2 DEF ToSet
<1>4. s \in Surjection(1..n, r) /\ s \in Injection(1..n, r)
  BY <1>2, <1>3 DEF Surjection, Injection, IsInjective
<1>5. IsFiniteSet(1..n) /\ Cardinality(1..n) = n
  BY <1>2, FS_Interval
<1> QED
  BY <1>1, <1>4, <1>5, FS_Surjection

(* One round of the sorting loop stays among its states.                   *)
LEMMA PopStays ==
  ASSUME NEW g \in Graph, NEW w \in Sorting(g), w.queue # << >>
  PROVE  LET t    == Head(w.queue)
             left == [u \in Ids(g) |-> IF u \in g.successors[t]
                        THEN w.indegree[u] - 1 ELSE w.indegree[u]]
             more == InOrder(g, {u \in g.successors[t] : left[u] = 0})
             v    == Pop(g, w)
         IN /\ v \in Sorting(g) /\ v.indegree = left
            /\ v.queue = Tail(w.queue) \o more /\ v.order = Append(w.order, t)
<1> DEFINE t    == Head(w.queue)
           left == [u \in Ids(g) |-> IF u \in g.successors[t]
                      THEN w.indegree[u] - 1 ELSE w.indegree[u]]
           more == InOrder(g, {u \in g.successors[t] : left[u] = 0})
           v    == Pop(g, w)
<1>1. /\ w.indegree \in [Ids(g) -> Int] /\ w.queue \in Seq(Tasks) /\ w.order \in Seq(Tasks)
  BY DEF Sorting
<1>2. left \in [Ids(g) -> Int]
  BY <1>1
<1>3. t \in Tasks /\ Tail(w.queue) \in Seq(Tasks)
  BY <1>1, HeadAndTail
<1>4. more \in Seq(Tasks)
  BY InOrderLists
<1>5. v = [indegree |-> left, queue |-> Tail(w.queue) \o more, order |-> Append(w.order, t)]
  BY DEF Pop
<1> HIDE DEF t, left, more, v
<1>6. Tail(w.queue) \o more \in Seq(Tasks) /\ Append(w.order, t) \in Seq(Tasks)
  BY <1>1, <1>3, <1>4
<1>7. /\ v \in Sorting(g) /\ v.indegree = left
      /\ v.queue = Tail(w.queue) \o more /\ v.order = Append(w.order, t)
  BY <1>2, <1>5, <1>6 DEF Sorting
<1> QED
  BY <1>7 DEF t, left, more, v

(* One task out of the queue, in terms of the sets.                        *)
Popped(g, w, v, t, more) ==
  /\ w.queue \in Seq(Tasks) /\ w.order \in Seq(Tasks) /\ v \in Sorting(g)
  /\ w.indegree \in [Ids(g) -> Int] /\ more \in Seq(Tasks) /\ t \in Tasks
  /\ ToSet(w.queue) = {t} \union ToSet(Tail(w.queue))
  /\ IsInjective(w.queue) => IsInjective(Tail(w.queue)) /\ t \notin ToSet(Tail(w.queue))
  /\ \A u \in Ids(g) : v.indegree[u] =
       IF u \in g.successors[t] THEN w.indegree[u] - 1 ELSE w.indegree[u]
  /\ ToSet(more) = {u \in Ids(g) : u \in g.successors[t] /\ v.indegree[u] = 0}
  /\ ToSet(v.queue) = ToSet(Tail(w.queue)) \union ToSet(more)
  /\ IsInjective(Tail(w.queue)) /\ ToSet(Tail(w.queue)) \intersect ToSet(more) = {}
       => IsInjective(v.queue)
  /\ v.order = Append(w.order, t)

(* One round takes the head of the queue and appends what is now free.     *)
LEMMA PopsHead ==
  ASSUME NEW g \in Graph, Consistent(g), NEW w \in Sorting(g), w.queue # << >>
  PROVE  \E v, t, more : v = Pop(g, w) /\ Popped(g, w, v, t, more)
<1> DEFINE t    == Head(w.queue)
           left == [u \in Ids(g) |-> IF u \in g.successors[t]
                      THEN w.indegree[u] - 1 ELSE w.indegree[u]]
           some == {u \in g.successors[t] : left[u] = 0}
           more == InOrder(g, some)
           v    == Pop(g, w)
<1>1. /\ w.indegree \in [Ids(g) -> Int] /\ w.queue \in Seq(Tasks) /\ w.order \in Seq(Tasks)
  BY DEF Sorting
<1>2. /\ v \in Sorting(g) /\ v.indegree = left
      /\ v.queue = Tail(w.queue) \o more /\ v.order = Append(w.order, t)
  BY PopStays
<1>3. /\ t \in Tasks /\ Tail(w.queue) \in Seq(Tasks)
      /\ ToSet(w.queue) = {t} \union ToSet(Tail(w.queue))
      /\ IsInjective(w.queue) => IsInjective(Tail(w.queue)) /\ t \notin ToSet(Tail(w.queue))
  BY <1>1, HeadAndTail
<1>4. /\ more \in Seq(Tasks) /\ ToSet(more) = Ids(g) \intersect some /\ IsInjective(more)
  BY InOrderLists DEF Consistent
<1>5. \A u \in Ids(g) : left[u] =
        IF u \in g.successors[t] THEN w.indegree[u] - 1 ELSE w.indegree[u]
  OBVIOUS
<1>6. Ids(g) \intersect some = {u \in Ids(g) : u \in g.successors[t] /\ left[u] = 0}
  OBVIOUS
<1>7. v = Pop(g, w)
  OBVIOUS
<1> HIDE DEF t, left, some, more, v
<1>8. /\ ToSet(v.queue) = ToSet(Tail(w.queue)) \union ToSet(more)
      /\ IsInjective(Tail(w.queue)) /\ ToSet(Tail(w.queue)) \intersect ToSet(more) = {}
           => IsInjective(v.queue)
  <2>1. PICK rest : rest = Tail(w.queue)
    OBVIOUS
  <2>2. rest \in Seq(Tasks) /\ v.queue = rest \o more
    BY <1>2, <1>3, <2>1
  <2>3. /\ ToSet(rest \o more) = ToSet(rest) \union ToSet(more)
        /\ IsInjective(rest) /\ IsInjective(more) /\ ToSet(rest) \intersect ToSet(more) = {}
             => IsInjective(rest \o more)
    <3>1. rest \in Seq(Tasks) /\ more \in Seq(Tasks)
      BY <1>4, <2>2
    <3> QED
      BY <3>1, Joined
  <2> QED
    BY <1>4, <2>1, <2>2, <2>3
<1>9. Popped(g, w, v, t, more)
  BY <1>1, <1>2, <1>3, <1>4, <1>5, <1>6, <1>8 DEF Popped
<1> QED
  BY <1>7, <1>9

(* A round keeps the invariant and moves one task into the order.          *)
LEMMA PopKeeps ==
  ASSUME NEW g \in Graph, Consistent(g), NEW w \in SortInv(g), NEW v, NEW t, NEW more,
         Popped(g, w, v, t, more)
  PROVE  /\ v \in SortInv(g) /\ t \in Ids(g) /\ t \notin ToSet(w.order)
         /\ ToSet(v.order) = ToSet(w.order) \union {t}
<1> DEFINE O == ToSet(w.order)
           Q == ToSet(w.queue)
           R == ToSet(Tail(w.queue))
           M == ToSet(more)
           N == ToSet(v.order)
<1>1. SortKnown(g, w) /\ SortCounts(g, w) /\ SortQueues(g, w) /\ SortOrders(g, w)
  BY DEF SortInv
<1>2. /\ w.order \in Seq(Tasks) /\ v \in Sorting(g) /\ t \in Tasks
      /\ w.indegree \in [Ids(g) -> Int]
      /\ Q = {t} \union R
      /\ IsInjective(w.queue) => IsInjective(Tail(w.queue)) /\ t \notin R
      /\ \A u \in Ids(g) : v.indegree[u] =
           IF u \in g.successors[t] THEN w.indegree[u] - 1 ELSE w.indegree[u]
      /\ M = {u \in Ids(g) : u \in g.successors[t] /\ v.indegree[u] = 0}
      /\ ToSet(v.queue) = R \union M
      /\ IsInjective(Tail(w.queue)) /\ R \intersect M = {} => IsInjective(v.queue)
      /\ v.order = Append(w.order, t)
  BY DEF Popped
<1>3. PICK l : l = Len(w.order)
  OBVIOUS
<1>4. /\ l \in Nat /\ DOMAIN w.order = 1..l /\ DOMAIN v.order = 1..(l + 1)
      /\ \A i \in 1..l : v.order[i] = w.order[i]
      /\ v.order[l + 1] = t /\ N = O \union {t}
  BY <1>2, <1>3, AppendKeeps
<1> HIDE DEF O, Q, R, M, N
<1>5. /\ O \union Q \subseteq Ids(g) /\ O \intersect Q = {}
      /\ IsInjective(w.order) /\ IsInjective(w.queue)
  BY <1>1 DEF SortKnown, O, Q
<1>6. t \in Ids(g) /\ t \notin O /\ t \in Q /\ R \subseteq Q /\ t \notin R
  BY <1>2, <1>5
<1>7. \A u \in Ids(g) : g.predecessors[u] \subseteq O <=> u \in O \union Q
  BY <1>1 DEF SortQueues, O, Q
<1>8. \A u \in Ids(g) :
        /\ w.indegree[u] = Cardinality(g.predecessors[u] \ O)
        /\ IsFiniteSet(g.predecessors[u])
        /\ u \in g.successors[t] <=> t \in g.predecessors[u]
  <2> SUFFICES ASSUME NEW u \in Ids(g)
               PROVE  /\ w.indegree[u] = Cardinality(g.predecessors[u] \ O)
                      /\ IsFiniteSet(g.predecessors[u])
                      /\ u \in g.successors[t] <=> t \in g.predecessors[u]
    OBVIOUS
  <2>1. IsFiniteSet(g.predecessors[u])
    BY EdgesMirrored, IdsFinite, FS_Subset
  <2>2. u \in g.successors[t] <=> t \in g.predecessors[u]
    BY <1>6, EdgesMirrored
  <2>3. w.indegree[u] = Cardinality(g.predecessors[u] \ O)
    BY <1>1 DEF SortCounts, O
  <2> QED
    BY <2>1, <2>2, <2>3
<1>9. ASSUME NEW u \in Ids(g)
      PROVE  /\ v.indegree[u] = Cardinality(g.predecessors[u] \ N)
             /\ v.indegree[u] = 0 <=> g.predecessors[u] \subseteq N
  <2>1. PICK a, b : a = g.predecessors[u] \ O /\ b = g.predecessors[u] \ N
    OBVIOUS
  <2>2. IsFiniteSet(a) /\ b = a \ {t} /\ (t \in a <=> u \in g.successors[t])
    BY <1>4, <1>6, <1>8, <2>1, FS_Difference
  <2>3. /\ Cardinality(b) = IF t \in a THEN Cardinality(a) - 1 ELSE Cardinality(a)
        /\ IsFiniteSet(b)
    BY <2>2, FS_RemoveElement
  <2>4. v.indegree[u] = Cardinality(b)
    BY <1>2, <1>8, <2>1, <2>2, <2>3
  <2>5. Cardinality(b) = 0 <=> b = {}
    BY <2>3, FS_EmptySet
  <2> QED
    BY <2>1, <2>4, <2>5
<1>10. M \subseteq Ids(g) /\ M \intersect O = {} /\ M \intersect Q = {} /\ t \notin M
  <2> SUFFICES ASSUME NEW u \in M PROVE u \in Ids(g) /\ u \notin O /\ u \notin Q
    BY <1>6
  <2>1. u \in Ids(g) /\ t \in g.predecessors[u]
    BY <1>2, <1>8
  <2> QED
    BY <1>6, <1>7, <2>1
<1>11. SortKnown(g, v)
  <2>1. IsInjective(v.order)
    <3>1. \A i \in 1..l : w.order[i] # t
      BY <1>4, <1>6 DEF O, ToSet
    <3>2. \A i \in 1..(l + 1) : i \in 1..l \/ i = l + 1
      BY <1>4
    <3>3. \A i, j \in 1..l : w.order[i] = w.order[j] => i = j
      BY <1>4, <1>5 DEF IsInjective
    <3> QED
      BY <1>4, <3>1, <3>2, <3>3 DEF IsInjective
  <2>2. IsInjective(v.queue)
    BY <1>2, <1>5, <1>6, <1>10
  <2>3. /\ N \union (R \union M) \subseteq Ids(g)
        /\ N \intersect (R \union M) = {}
    BY <1>4, <1>5, <1>6, <1>10
  <2> QED
    BY <1>2, <2>1, <2>2, <2>3 DEF SortKnown, N
<1>12. SortCounts(g, v)
  BY <1>9 DEF SortCounts, N
<1>13. SortQueues(g, v)
  <2> SUFFICES ASSUME NEW u \in Ids(g)
               PROVE  g.predecessors[u] \subseteq N <=> u \in N \union (R \union M)
    BY <1>2 DEF SortQueues, N
  <2>1. ASSUME u \in O \union Q PROVE g.predecessors[u] \subseteq N
    BY <1>4, <1>7, <2>1
  <2>2. ASSUME u \in M PROVE g.predecessors[u] \subseteq N
    BY <1>2, <1>9, <2>2
  <2>3. ASSUME g.predecessors[u] \subseteq N PROVE u \in O \union Q \union M
    <3>1. CASE t \in g.predecessors[u]
      BY <1>2, <1>8, <1>9, <2>3, <3>1
    <3>2. CASE t \notin g.predecessors[u]
      BY <1>4, <1>7, <2>3, <3>2
    <3> QED
      BY <3>1, <3>2
  <2>4. N \union (R \union M) = O \union Q \union M
    BY <1>2, <1>4
  <2> QED
    BY <2>1, <2>2, <2>3, <2>4
<1>14. SortOrders(g, v)
  <2> SUFFICES ASSUME NEW j \in 1..(l + 1), NEW p \in g.predecessors[v.order[j]]
               PROVE  \E i \in 1..(l + 1) : i < j /\ v.order[i] = p
    BY <1>4 DEF SortOrders
  <2>1. \A i \in 1..l : i \in 1..(l + 1) /\ i < l + 1
    BY <1>4
  <2>2. CASE j \in 1..l
    <3>1. v.order[j] = w.order[j]
      BY <1>4, <2>2
    <3>2. PICK i \in 1..l : i < j /\ w.order[i] = p
      BY <1>1, <1>4, <2>2, <3>1 DEF SortOrders
    <3> QED
      BY <1>4, <2>1, <3>2
  <2>3. CASE j = l + 1
    <3>1. p \in O
      BY <1>4, <1>6, <1>7, <2>3
    <3>2. PICK i \in 1..l : w.order[i] = p
      BY <1>4, <3>1 DEF O, ToSet
    <3> QED
      BY <1>4, <2>1, <2>3, <3>2
  <2> QED
    BY <1>4, <2>2, <2>3
<1> QED
  BY <1>2, <1>4, <1>6, <1>11, <1>12, <1>13, <1>14 DEF SortInv, O, N

(* Without a task above itself, nothing is left when the queue is empty: of  *)
(* the tasks left one with the fewest ancestors has another one above it.  *)
LEMMA NothingLeft ==
  ASSUME NEW g \in Graph, Consistent(g), \A t \in Ids(g) : t \notin Ancestors(g, t),
         NEW w \in SortInv(g), w.queue = << >>
  PROVE  ToSet(w.order) = Ids(g)
<1> DEFINE O == ToSet(w.order)
           left == Ids(g) \ O
           sizes == {Cardinality(Ancestors(g, u)) : u \in left}
<1>1. O \subseteq Ids(g)
  BY DEF SortInv, SortKnown
<1>2. \A u \in Ids(g) : g.predecessors[u] \subseteq O <=> u \in O
  <2>1. ToSet(w.queue) = {}
    BY DEF ToSet
  <2> QED
    BY <2>1 DEF SortInv, SortQueues
<1> HIDE DEF O
<1>3. \A u \in Ids(g) : /\ IsFiniteSet(Ancestors(g, u)) /\ u \in Tasks
                        /\ Cardinality(Ancestors(g, u)) \in Nat
  BY AncestorsDeclared, IdsFinite, FS_Subset, FS_CardinalityType
<1> SUFFICES ASSUME left # {} PROVE FALSE
  BY <1>1 DEF O
<1>4. sizes \in SUBSET Nat /\ sizes # {}
  BY <1>3
<1>5. PICK n \in sizes : \A m \in sizes : ~(m < n)
  <2> HIDE DEF sizes
  <2> QED
    BY <1>4, LeastMember
<1>6. PICK u \in left : n = Cardinality(Ancestors(g, u))
  BY <1>5
<1>7. PICK p \in g.predecessors[u] : p \notin O
  BY <1>2, <1>6
<1>8. p \in left
  BY <1>6, <1>7, EdgesMirrored
<1>9. p \in Ancestors(g, u) /\ Ancestors(g, p) \subseteq Ancestors(g, u)
  BY <1>3, <1>6, <1>7, PredecessorIsAncestor, AncestorsTransitive
<1>10. PICK a, b : a = Ancestors(g, p) /\ b = Ancestors(g, u)
  OBVIOUS
<1>11. /\ a \subseteq b /\ a # b /\ IsFiniteSet(b)
       /\ Cardinality(a) \in Nat /\ Cardinality(b) \in Nat
  BY <1>3, <1>6, <1>8, <1>9, <1>10
<1>12. Cardinality(a) <= Cardinality(b) /\ Cardinality(a) # Cardinality(b)
  BY <1>11, FS_Subset
<1>13. Cardinality(a) \in sizes /\ Cardinality(a) < n
  BY <1>6, <1>8, <1>10, <1>11, <1>12
<1> HIDE DEF sizes
<1> QED
  BY <1>5, <1>13

(* The loop starts with the tasks that depend on nothing in the queue.     *)
LEMMA SortStarts ==
  ASSUME NEW g \in Graph, Consistent(g), NEW w,
         w = [indegree |-> [u \in Ids(g) |-> Cardinality(g.predecessors[u])],
              queue |-> InOrder(g, {u \in Ids(g) : g.predecessors[u] = {}}),
              order |-> << >>]
  PROVE  w \in SortInv(g)
<1>1. \A u \in Ids(g) : Cardinality(g.predecessors[u]) \in Int
  <2> TAKE u \in Ids(g)
  <2>1. IsFiniteSet(g.predecessors[u])
    BY EdgesMirrored, IdsFinite, FS_Subset
  <2>2. Cardinality(g.predecessors[u]) \in Nat
    BY <2>1, FS_CardinalityType
  <2> QED
    BY <2>2
<1>2. PICK roots : roots = {u \in Ids(g) : g.predecessors[u] = {}}
  OBVIOUS
<1>3. PICK q : q = InOrder(g, roots)
  OBVIOUS
<1>4. q \in Seq(Tasks) /\ ToSet(q) = roots /\ IsInjective(q)
  BY <1>2, <1>3, InOrderLists DEF Consistent
<1>5. w.queue = q /\ w.order = << >>
  BY <1>2, <1>3
<1>6. \A u \in Ids(g) : w.indegree[u] = Cardinality(g.predecessors[u])
  OBVIOUS
<1>7. w \in Sorting(g)
  BY <1>1, <1>2, <1>3, <1>4 DEF Sorting
<1>8. ToSet(w.order) = {} /\ DOMAIN w.order = {}
  BY <1>5 DEF ToSet
<1>9. SortKnown(g, w)
  BY <1>2, <1>4, <1>5, <1>8 DEF SortKnown, IsInjective
<1>10. SortCounts(g, w)
  BY <1>6, <1>8 DEF SortCounts
<1>11. SortQueues(g, w)
  BY <1>2, <1>4, <1>5, <1>8 DEF SortQueues
<1>12. SortOrders(g, w)
  BY <1>8 DEF SortOrders
<1> QED
  BY <1>7, <1>9, <1>10, <1>11, <1>12 DEF SortInv

(* Kahn's algorithm ends with its invariant and an empty queue.            *)
LEMMA SortEnds ==
  ASSUME NEW g \in Graph, Consistent(g)
  PROVE  \E w \in SortInv(g) : w.queue = << >> /\ TopologicalOrder(g) = w.order
<1> DEFINE S == Sorting(g)
           stop == {w \in Sorting(g) : w.queue = << >>}
           step == [w \in Sorting(g) |-> Pop(g, w)]
           inv == SortInv(g)
           measure == [w \in inv |-> Cardinality(Ids(g) \ ToSet(w.order))]
           start == [indegree |-> [u \in Ids(g) |-> Cardinality(g.predecessors[u])],
                     queue |-> InOrder(g, {u \in Ids(g) : g.predecessors[u] = {}}),
                     order |-> << >>]
<1>1. \A w \in S \ stop : step[w] \in S
  BY PopStays
<1>2. inv \in SUBSET S
  BY DEF SortInv
<1>3. \A w \in inv : /\ IsFiniteSet(Ids(g) \ ToSet(w.order))
                     /\ Cardinality(Ids(g) \ ToSet(w.order)) \in Nat
  BY IdsFinite, FS_Difference, FS_CardinalityType
<1>4. measure \in [inv -> Nat]
  BY <1>3
<1>5. ASSUME NEW w \in inv, w \notin stop
      PROVE  step[w] \in inv /\ measure[step[w]] < measure[w]
  <2>1. w \in Sorting(g) /\ w.queue # << >> /\ step[w] = Pop(g, w)
    BY <1>2, <1>5
  <2>2. PICK v, t, more : v = Pop(g, w) /\ Popped(g, w, v, t, more)
    BY <2>1, PopsHead
  <2>3. /\ v \in SortInv(g) /\ t \in Ids(g) /\ t \notin ToSet(w.order)
        /\ ToSet(v.order) = ToSet(w.order) \union {t}
    BY <2>2, PopKeeps
  <2>4. PICK a, b : a = Ids(g) \ ToSet(w.order) /\ b = Ids(g) \ ToSet(v.order)
    OBVIOUS
  <2>5. IsFiniteSet(a) /\ Cardinality(a) \in Nat /\ t \in a /\ b = a \ {t}
    BY <1>3, <2>3, <2>4
  <2>6. Cardinality(b) = Cardinality(a) - 1
    BY <2>5, FS_RemoveElement
  <2>7. measure[w] = Cardinality(a) /\ measure[v] = Cardinality(b)
    BY <2>3, <2>4
  <2>8. Cardinality(b) < Cardinality(a)
    BY <2>5, <2>6
  <2> QED
    BY <2>1, <2>2, <2>3, <2>7, <2>8
<1>6. start \in inv
  BY SortStarts
<1> HIDE DEF S, stop, step, inv, measure, start
<1>7. PICK w \in inv \intersect stop : w = Loop(S, stop, step, start)
  <2>1. \A v \in inv \ stop : step[v] \in inv /\ measure[step[v]] < measure[v]
    BY <1>5
  <2> QED
    BY <1>1, <1>2, <1>4, <1>6, <2>1, LoopEnds
<1>8. TopologicalOrder(g) = w.order
  BY <1>7 DEF TopologicalOrder, S, stop, step, start
<1> QED
  BY <1>7, <1>8 DEF inv, stop

(* The order of an acyclic graph: every task once, after its ancestors.    *)
LEMMA OrderSorts ==
  ASSUME NEW g \in Graph, Consistent(g), \A t \in Ids(g) : t \notin Ancestors(g, t)
  PROVE  LET order == TopologicalOrder(g)
         IN /\ Len(order) = Len(g.ids) /\ ToSet(order) = Ids(g)
            /\ \A i, j \in DOMAIN order :
                 order[i] \in Ancestors(g, order[j]) => i < j
<1>1. PICK w \in SortInv(g) : w.queue = << >> /\ TopologicalOrder(g) = w.order
  BY SortEnds
<1>2. PICK order : order = TopologicalOrder(g)
  OBVIOUS
<1>3. /\ order \in Seq(Tasks) /\ IsInjective(order) /\ ToSet(order) = Ids(g)
      /\ \A j \in DOMAIN order : \A p \in g.predecessors[order[j]] :
           \E i \in DOMAIN order : i < j /\ order[i] = p
  BY <1>1, <1>2, NothingLeft DEF SortInv, Sorting, SortKnown, SortOrders
<1>4. Len(order) = Len(g.ids)
  <2>1. g.ids \in Seq(Tasks) /\ IsInjective(g.ids)
    BY DEF Graph, Consistent
  <2>2. Cardinality(ToSet(g.ids)) = Len(g.ids)
    BY <2>1, InjectiveLength
  <2>3. Cardinality(ToSet(order)) = Len(order)
    BY <1>3, InjectiveLength
  <2> QED
    BY <1>3, <2>2, <2>3 DEF Ids
<1>5. ASSUME NEW i \in DOMAIN order, NEW j \in DOMAIN order,
             order[i] \in Ancestors(g, order[j])
      PROVE  i < j
  <2> DEFINE before == {order[m] : m \in {m \in DOMAIN order : m < j}}
  <2>1. PICK l : l \in Nat /\ DOMAIN order = 1..l
    <3>1. Len(order) \in Nat /\ DOMAIN order = 1..Len(order)
      BY <1>3
    <3> QED
      BY <3>1
  <2>2. \A m \in DOMAIN order : order[m] \in Tasks /\ m \in Nat
    BY <1>3, <2>1
  <2>3. before \in SUBSET Tasks
    BY <2>2
  <2>4. ASSUME NEW m \in DOMAIN order, m = j \/ m < j
        PROVE  g.predecessors[order[m]] \subseteq before
    <3> SUFFICES ASSUME NEW p \in g.predecessors[order[m]] PROVE p \in before
      OBVIOUS
    <3>1. PICK k \in DOMAIN order : k < m /\ order[k] = p
      BY <1>3
    <3>2. k < j
      BY <2>2, <2>4, <3>1
    <3> QED
      BY <3>1, <3>2
  <2>5. Closed(g, before)
    BY <2>4 DEF Closed
  <2>6. g.predecessors[order[j]] \subseteq before
    BY <2>4
  <2>7. order[i] \in before
    <3> HIDE DEF before
    <3> QED
      BY <1>5, <2>2, <2>3, <2>5, <2>6, AncestorsLeast
  <2>8. PICK m \in DOMAIN order : m < j /\ order[m] = order[i]
    BY <2>7
  <2> QED
    BY <1>3, <2>8 DEF IsInjective
<1> QED
  BY <1>2, <1>3, <1>4, <1>5

(* What analyze reports of the cycles and the order of a plan.             *)
LEMMA AnalysisTrue ==
  ASSUME NEW g \in Graph, NEW done \in SUBSET Tasks
  PROVE  LET a == Analyze(g, done)
         IN /\ a.accepted =>
                 a.cycles =
                   {{u \in Ids(g) : t \in Ancestors(g, u) /\ u \in Ancestors(g, t)} :
                      t \in {t \in Ids(g) : t \in Ancestors(g, t)}}
            /\ a.accepted /\ a.cycles = {} =>
                 /\ Len(a.order) = Len(g.ids) /\ ToSet(a.order) = Ids(g)
                 /\ \A i, j \in DOMAIN a.order :
                      a.order[i] \in Ancestors(g, a.order[j]) => i < j
<1> DEFINE mutual == {{u \in Ids(g) : t \in Ancestors(g, u) /\ u \in Ancestors(g, t)} :
                        t \in {t \in Ids(g) : t \in Ancestors(g, t)}}
<1>1. PICK a : a = Analyze(g, done)
  OBVIOUS
<1>2. /\ a.accepted = Accepted(g, done)
      /\ a.cycles = IF Accepted(g, done) THEN Cycles(g) ELSE {}
      /\ a.order = IF Accepted(g, done) /\ Cycles(g) = {} THEN TopologicalOrder(g) ELSE << >>
  BY <1>1 DEF Analyze
<1>3. ASSUME Accepted(g, done) PROVE Consistent(g) /\ Cycles(g) = mutual
  <2>1. Consistent(g)
    BY <1>3 DEF Accepted
  <2> QED
    BY <2>1, CyclesAreCycles
<1>4. ASSUME Accepted(g, done), Cycles(g) = {}
      PROVE  \A t \in Ids(g) : t \notin Ancestors(g, t)
  BY <1>3, <1>4
<1>5. ASSUME Accepted(g, done), Cycles(g) = {}
      PROVE  /\ Len(a.order) = Len(g.ids) /\ ToSet(a.order) = Ids(g)
             /\ \A i, j \in DOMAIN a.order :
                  a.order[i] \in Ancestors(g, a.order[j]) => i < j
  <2>1. a.order = TopologicalOrder(g)
    BY <1>2, <1>5
  <2> QED
    BY <1>3, <1>4, <1>5, <2>1, OrderSorts
<1> HIDE DEF mutual
<1>6. a.accepted => a.cycles = mutual
  BY <1>2, <1>3
<1>7. a.accepted /\ a.cycles = {} =>
        /\ Len(a.order) = Len(g.ids) /\ ToSet(a.order) = Ids(g)
        /\ \A i, j \in DOMAIN a.order :
             a.order[i] \in Ancestors(g, a.order[j]) => i < j
  BY <1>2, <1>5
<1> QED
  BY <1>1, <1>6, <1>7 DEF mutual
-----------------------------------------------------------------------------
(* Between two analyses neither the graph nor the plan changes: the plan is *)
(* what analyze said of this graph, for some completed set.                *)
PlanAnalyzed ==
  plan # None => \E done \in SUBSET Tasks : plan = Analyze(graph, done)

(* The plan is always one that analyze reported.                           *)
LEMMA ScheduleAnalyzed == Spec => [](graph \in Graph /\ PlanAnalyzed)
<1>1. Init => graph \in Graph /\ PlanAnalyzed
  BY ScheduleInputs DEF Init, PlanAnalyzed
<1>2. graph \in Graph /\ PlanAnalyzed /\ [Next]_vars => (graph \in Graph /\ PlanAnalyzed)'
  <2> SUFFICES ASSUME graph \in Graph, PlanAnalyzed, [Next]_vars
               PROVE  graph' \in Graph /\ PlanAnalyzed'
    OBVIOUS
  <2>1. CASE AnalyzeGraph
    <3>1. Completed \in SUBSET Tasks
      BY DEF Completed
    <3>2. UNCHANGED graph /\ plan' = Analyze(graph, Completed)
      BY <2>1 DEF AnalyzeGraph
    <3> QED
      BY <3>1, <3>2 DEF PlanAnalyzed
  <2>2. ASSUME UNCHANGED <<graph, plan>> PROVE graph' \in Graph /\ PlanAnalyzed'
    BY <2>2 DEF PlanAnalyzed
  <2>3. CASE UNCHANGED vars
    BY <2>2, <2>3 DEF vars
  <2>4. ASSUME NEW t \in Tasks, \/ Dispatch(t) \/ SpawnFails(t) \/ CoderEnds(t)
                                \/ Verified(t) \/ FixNeeded(t) \/ Reviewed(t)
        PROVE  UNCHANGED <<graph, plan>>
    BY <2>4 DEF Dispatch, SpawnFails, CoderEnds, Verified, FixNeeded, Reviewed
  <2> QED
    BY <2>1, <2>2, <2>3, <2>4 DEF Next
<1> QED
  BY <1>1, <1>2, PTL DEF Spec

(* The two passes of Kosaraju over the mirrored edge lists find exactly the *)
(* sets of tasks that are ancestors of each other, on every graph.         *)
THEOREM ScheduleCyclesFound == Spec => []CyclesFound
<1>1. graph \in Graph /\ PlanAnalyzed => CyclesFound
  BY AnalysisTrue DEF PlanAnalyzed, CyclesFound
<1> QED
  BY <1>1, ScheduleAnalyzed, PTL

(* Kahn's queue lists every task of an acyclic plan once, and no task ahead *)
(* of one it depends on, on every graph.                                   *)
THEOREM ScheduleOrderIsTopological == Spec => []OrderIsTopological
<1>1. graph \in Graph /\ PlanAnalyzed => OrderIsTopological
  BY AnalysisTrue DEF PlanAnalyzed, OrderIsTopological
<1> QED
  BY <1>1, ScheduleAnalyzed, PTL
=============================================================================
