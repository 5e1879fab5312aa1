----------------------------- MODULE TaskGraph ------------------------------
(***************************************************************************)
(* analyze of task_graph.py: from the declared tasks of a plan and the set *)
(* of completed ones to cycles, an order, the ready tasks and the pairs    *)
(* that may run in parallel.                                               *)
(*                                                                         *)
(* A graph is a record of the fields analyze reads.  Paths are normalized  *)
(* keys; the lists PREDECESSORS and SUCCESSORS are sets, iterated in the   *)
(* input order of the tasks.  A loop of the code is a Loop over the states *)
(* of its variables.                                                       *)
(***************************************************************************)
EXTENDS Integers, SequencesExt

CONSTANTS
  Tasks,   \* task ids
  Paths    \* normalized repository paths

Graph ==
  [ids : Seq(Tasks),   \* in input order
   predecessors : [Tasks -> SUBSET Tasks], successors : [Tasks -> SUBSET Tasks],
   write_set : [Tasks -> SUBSET Paths], read_only : [Tasks -> SUBSET Paths]]

Ids(g) == ToSet(g.ids)

\* _validate_tasks: unique and known ids, mirrored edges, no path owned twice.
Consistent(g) ==
  /\ g.ids # << >> /\ IsInjective(g.ids)
  /\ \A t \in Ids(g) :
       /\ g.predecessors[t] \union g.successors[t] \subseteq Ids(g)
       /\ \A u \in Ids(g) : t \in g.successors[u] <=> u \in g.predecessors[t]
       /\ g.write_set[t] \intersect g.read_only[t] = {}

\* The worklist over predecessors computes the least set closed under them.
Closed(g, s) == \A v \in s : g.predecessors[v] \subseteq s
Ancestors(g, t) ==
  LET above == {s \in SUBSET Tasks : g.predecessors[t] \subseteq s /\ Closed(g, s)}
  IN {u \in Tasks : \A s \in above : u \in s}

\* Mutant: the successors of what is completed must be completed.
AcceptedBackwards(g, done) ==
  /\ Consistent(g) /\ done \subseteq Ids(g)
  /\ \A t \in done : g.successors[t] \subseteq done

\* What analyze does not reject as invalid_input.
Accepted(g, done) ==
  /\ Consistent(g) /\ done \subseteq Ids(g)
  /\ \A t \in done : Ancestors(g, t) \subseteq done
-----------------------------------------------------------------------------
\* A loop of the code: from the state start of its variables, step by step,
\* to the first state at which it stops.
Loop(states, stop, step, start) ==
  LET run[w \in states] == IF w \in stop THEN w ELSE run[step[w]]
  IN run[start]

\* [t for t in ids if t in tasks], without the RECURSIVE of SelectSeq.
Nth(places, k) == CHOOSE i \in places : Cardinality({j \in places : j <= i}) = k
InOrder(g, tasks) ==
  LET places == {i \in DOMAIN g.ids : g.ids[i] \in tasks}
  IN [k \in 1..Cardinality(places) |-> g.ids[Nth(places, k)]]

\* First pass of Kosaraju: a stack of nodes to enter, and to leave.
Entry == Tasks \X BOOLEAN
Walk == [stack : Seq(Entry), visited : SUBSET Tasks, finish : Seq(Tasks)]
Entries(tasks) == [i \in DOMAIN tasks |-> <<tasks[i], FALSE>>]
Visit(g, w) ==
  LET node  == Last(w.stack)[1]
      rest  == Front(w.stack)
      fresh == g.successors[node] \ (w.visited \union {node})
  IN IF Last(w.stack)[2]
       THEN [w EXCEPT !.stack = rest, !.finish = Append(@, node)]
     ELSE IF node \in w.visited
       THEN [w EXCEPT !.stack = rest]
     ELSE [w EXCEPT !.stack = rest \o << <<node, TRUE>> >> \o Entries(InOrder(g, fresh)),
                    !.visited = @ \union {node}]
FinishOrder(g) ==
  Loop(Walk, {w \in Walk : w.stack = << >>}, [w \in Walk |-> Visit(g, w)],
       [stack |-> Entries(Reverse(g.ids)), visited |-> {}, finish |-> << >>]).finish

\* Mutant: the second pass follows the edges forward as well.
ParentsForward(g, s, assigned) ==
  {u \in Ids(g) : \E v \in s : u \in g.successors[v]} \ assigned

\* Second pass: everything unassigned that reaches start.
Parents(g, s, assigned) ==
  {u \in Ids(g) : g.successors[u] \intersect s # {}} \ assigned
Component(g, start, assigned) ==
  Loop(SUBSET Tasks, {s \in SUBSET Tasks : Parents(g, s, assigned) \subseteq s},
       [s \in SUBSET Tasks |-> s \union Parents(g, s, assigned)], {start})

Split == [left : Seq(Tasks), found : SUBSET SUBSET Tasks]
Assign(g, w) ==
  LET start == Last(w.left)
  IN [left |-> Front(w.left),
      found |-> IF start \in UNION w.found THEN w.found
                ELSE w.found \union {Component(g, start, UNION w.found)}]
Components(g) ==
  Loop(Split, {w \in Split : w.left = << >>}, [w \in Split |-> Assign(g, w)],
       [left |-> FinishOrder(g), found |-> {}]).found

Cycles(g) ==
  {c \in Components(g) : Cardinality(c) > 1 \/ \E t \in c : t \in g.successors[t]}

\* Kahn's algorithm: one task out of the queue.
Sorting(g) == [indegree : [Ids(g) -> Int], queue : Seq(Tasks), order : Seq(Tasks)]

\* Mutant: a successor is queued as soon as one predecessor is out.
PopEager(g, w) ==
  LET t == Head(w.queue)
  IN [indegree |-> w.indegree,
      queue |-> Tail(w.queue) \o
        InOrder(g, g.successors[t] \ ToSet(w.order \o w.queue)),
      order |-> Append(w.order, t)]
Pop(g, w) ==
  LET t    == Head(w.queue)
      left == [u \in Ids(g) |-> IF u \in g.successors[t]
                 THEN w.indegree[u] - 1 ELSE w.indegree[u]]
  IN [indegree |-> left,
      queue |-> Tail(w.queue) \o
        InOrder(g, {u \in g.successors[t] : left[u] = 0}),
      order |-> Append(w.order, t)]
TopologicalOrder(g) ==
  Loop(Sorting(g), {w \in Sorting(g) : w.queue = << >>}, [w \in Sorting(g) |-> Pop(g, w)],
       [indegree |-> [u \in Ids(g) |-> Cardinality(g.predecessors[u])],
        queue |-> InOrder(g, {u \in Ids(g) : g.predecessors[u] = {}}),
        order |-> << >>]).order
-----------------------------------------------------------------------------
\* Mutants: one completed predecessor is enough; only tasks without any are
\* ready.
ReadyEarly(g, done) ==
  {t \in Ids(g) \ done :
     g.predecessors[t] = {} \/ g.predecessors[t] \intersect done # {}}
ReadyRoots(g, done) == {t \in Ids(g) \ done : g.predecessors[t] = {}}

Ready(g, done) == {t \in Ids(g) \ done : g.predecessors[t] \subseteq done}

\* Mutant: write sets are not compared.
ParallelSafeAny(g, done) ==
  {p \in Ready(g, done) \X Ready(g, done) : p[1] # p[2]}

ParallelSafe(g, done) ==
  {p \in Ready(g, done) \X Ready(g, done) :
     /\ p[1] # p[2]
     /\ p[1] \notin Ancestors(g, p[2]) /\ p[2] \notin Ancestors(g, p[1])
     /\ g.write_set[p[1]] \intersect g.write_set[p[2]] = {}}

\* What the dispatch loop reads of the result; pairs are in both orders.
Analysis ==
  [done : SUBSET Tasks, accepted : BOOLEAN, cycles : SUBSET SUBSET Tasks,
   order : Seq(Tasks), ready : SUBSET Tasks, parallel_safe : SUBSET (Tasks \X Tasks)]

\* A cycle clears the order, the ready tasks and the pairs.
Analyze(g, done) ==
  LET accepted == Accepted(g, done)
      acyclic  == accepted /\ Cycles(g) = {}
  IN [done |-> done, accepted |-> accepted,
      cycles |-> IF accepted THEN Cycles(g) ELSE {},
      order |-> IF acyclic THEN TopologicalOrder(g) ELSE << >>,
      ready |-> IF acyclic THEN Ready(g, done) ELSE {},
      parallel_safe |-> IF acyclic THEN ParallelSafe(g, done) ELSE {}]
=============================================================================
