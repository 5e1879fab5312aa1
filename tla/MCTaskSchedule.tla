--------------------------- MODULE MCTaskSchedule ---------------------------
(***************************************************************************)
(* Small task graphs for TLC: every graph of three tasks, self-loops       *)
(* included, the acyclic ones with every split of two paths; four tasks    *)
(* with a ring and up to three more edges; and declarations that do not    *)
(* mirror each other.                                                      *)
(***************************************************************************)
EXTENDS TaskSchedule

CONSTANTS p, q

MCTasks == 1..4

Pred(edges) == [t \in Tasks |-> {e[1] : e \in {e \in edges : e[2] = t}}]
Succ(edges) == [t \in Tasks |-> {e[2] : e \in {e \in edges : e[1] = t}}]
GraphOf(n, edges, mirrored, owns) ==
  [ids |-> [i \in 1..n |-> i],
   predecessors |-> Pred(mirrored), successors |-> Succ(edges),
   write_set |-> owns, read_only |-> [t \in Tasks |-> {}]]

OwnsP  == [t \in Tasks |-> {p}]
Owners == {o \in [Tasks -> {{p}, {q}}] : o[1] = {p} /\ o[4] = {p}}
HasCycle(edges) ==
  \E s \in (SUBSET Tasks) \ {{}} : \A t \in s : \E u \in s : <<u, t>> \in edges

Pairs(n) == {e \in (1..n) \X (1..n) : e[1] # e[2]}
Acyclic3 == {e \in SUBSET Pairs(3) : ~HasCycle(e)}
Cyclic3  == {e \in SUBSET ((1..3) \X (1..3)) : HasCycle(e)}
Ring     == {<<2, 3>>, <<3, 2>>}
Rings4   == {Ring \union e : e \in UNION {kSubset(k, Pairs(4) \ Ring) : k \in 0..3}}
Unmirrored == {GraphOf(3, {<<1, 2>>}, {}, OwnsP), GraphOf(3, {}, {<<1, 2>>}, OwnsP)}
MCGraphs ==
  Unmirrored
    \union {GraphOf(3, e, e, o) : e \in Acyclic3, o \in Owners}
    \union {GraphOf(3, e, e, OwnsP) : e \in Cyclic3}
    \union {GraphOf(4, e, e, OwnsP) : e \in Rings4}

\* The index arithmetic of InOrder lists what a filter of the ids lists.
ASSUME InOrderFilters ==
  \A ids \in UNION {[1..n -> Tasks] : n \in 0..4} : IsInjective(ids) =>
    \A tasks \in SUBSET Tasks :
      InOrder([ids |-> ids], tasks) = SelectSeq(ids, LAMBDA t : t \in tasks)
=============================================================================
