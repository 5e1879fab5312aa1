--------------------------- MODULE ContextRouting ---------------------------
(***************************************************************************)
(* route_context.py, with the two functions of other scripts that read or  *)
(* make the same facts: _compute_write_set_overlap of change_facts.py and  *)
(* verification_tier of run_ledger.py.                                     *)
(*                                                                         *)
(* Task ids are numbers, for their order matters; a path is a file and a   *)
(* spelling of its name.  The checks of plain JSON types are left out, and *)
(* so are the reference, skill and tool lists, which only print.           *)
(***************************************************************************)
EXTENDS Integers, Sequences, FiniteSets

CONSTANT None

RiskKeys == {"transaction", "public_api", "security", "concurrency",
             "side_effect"}
-----------------------------------------------------------------------------
(* change_facts.py: listing is what --write-sets names, in its order. *)

Shared(listing) ==
  {p \in (DOMAIN listing) \X (DOMAIN listing) :
     p[1] < p[2] /\ listing[p[1]].files \intersect listing[p[2]].files # {}}

\* Mutant: the pairs are counted instead of the tasks.
OverlapCountsPairs(listing) ==
  [state |-> IF listing = << >> THEN "unknown"
             ELSE IF Shared(listing) = {} THEN "not_detected" ELSE "confirmed",
   task_count |-> Cardinality(Shared(listing)),
   pairs |-> {[at |-> p, a |-> listing[p[1]].id, b |-> listing[p[2]].id] :
                p \in Shared(listing)}]

\* _compute_write_set_overlap.  The list of pairs is sorted, so it is given
\* by the set of its members; at keeps two pairs of the same tasks apart.
Overlap(listing) ==
  [state |-> IF listing = << >> THEN "unknown"
             ELSE IF Shared(listing) = {} THEN "not_detected" ELSE "confirmed",
   task_count |-> Len(listing),
   pairs |-> {[at |-> p, a |-> listing[p[1]].id, b |-> listing[p[2]].id] :
                p \in Shared(listing)}]
-----------------------------------------------------------------------------
(* route_context.py *)

\* _validate_overlap_semantics: a sorted list is canonical when no two tasks
\* come twice.
OverlapAccepted(o) ==
  /\ CASE o.state = "unknown"      -> o.task_count = 0 /\ o.pairs = {}
       [] o.state = "not_detected" -> o.task_count >= 1 /\ o.pairs = {}
       [] OTHER                    -> o.task_count >= 2 /\ o.pairs # {}
  /\ \A p \in o.pairs : p.a < p.b
  /\ \A p, q \in o.pairs : p.a = q.a /\ p.b = q.b => p = q
  /\ Cardinality({p.a : p \in o.pairs} \union {p.b : p \in o.pairs})
       <= o.task_count

\* Without --facts and without --task-facts nothing is checked.
Accepted(facts, task) ==
  /\ facts # None => OverlapAccepted(facts.overlap)
  /\ \A i \in DOMAIN task.write_sets : task.write_sets[i] # {}

HasCandidate(facts, keys, states) ==
  facts # None /\ \E k \in keys : facts.candidates[k] \in states

\* _g2_risk: what the main session has confirmed goes first.
Risk(facts, task) ==
  IF task.risk # None THEN task.risk
  ELSE IF \/ facts # None /\ facts.migration
          \/ HasCandidate(facts, RiskKeys, {"confirmed"}) THEN "HIGH"
  ELSE IF \/ HasCandidate(facts, RiskKeys, {"candidate"})
          \/ facts # None /\ (facts.dependency \/ facts.lockfile) THEN "ELEVATED"
  ELSE "NORMAL"

\* Mutant: only write sets that follow each other are compared.
ExecutionOfNeighbours(facts, task) ==
  LET sets == task.write_sets
  IN  IF facts # None /\ facts.overlap.state = "confirmed" THEN "serial"
      ELSE IF sets = << >> THEN "serial"
      ELSE IF Len(sets) = 1 THEN "single"
      ELSE IF \E i \in 1..(Len(sets) - 1) : sets[i] \intersect sets[i + 1] # {}
        THEN "serial"
      ELSE IF task.dependencies # {} THEN "serial"
      ELSE "parallel-safe"

\* _g4_execution: the spelled paths are compared.
Execution(facts, task) ==
  LET sets == task.write_sets
  IN  IF facts # None /\ facts.overlap.state = "confirmed" THEN "serial"
      ELSE IF sets = << >> THEN "serial"
      ELSE IF Len(sets) = 1 THEN "single"
      ELSE IF \E i, j \in DOMAIN sets : i < j /\ sets[i] \intersect sets[j] # {}
        THEN "serial"
      ELSE IF task.dependencies # {} THEN "serial"
      ELSE "parallel-safe"

-----------------------------------------------------------------------------
(* run_ledger.py *)

Raised == {"candidate", "confirmed"}

\* Mutant: the tier looks at the files before it looks at the candidates.
TierByModules(facts, task) ==
  IF task.risk = "HIGH" THEN "FULL"
  ELSE IF Cardinality(facts.modules) = 1 THEN "MODULE"
  ELSE IF HasCandidate(facts, RiskKeys \ {"public_api"}, Raised) THEN "FULL"
  ELSE IF facts.migration \/ facts.dependency \/ facts.lockfile \/ facts.contract
          \/ HasCandidate(facts, {"public_api"}, Raised)
          \/ Cardinality(facts.modules) > 1 THEN "INTEGRATION"
  ELSE IF facts.tests \/ Cardinality(facts.changed \union facts.untracked) = 1
    THEN "TARGETED"
  ELSE None

\* verification_tier.
Tier(facts, task) ==
  IF \/ task.risk = "HIGH"
     \/ HasCandidate(facts, RiskKeys \ {"public_api"}, Raised) THEN "FULL"
  ELSE IF facts.migration \/ facts.dependency \/ facts.lockfile \/ facts.contract
          \/ HasCandidate(facts, {"public_api"}, Raised) THEN "INTEGRATION"
  ELSE IF Cardinality(facts.modules) = 1 THEN "MODULE"
  ELSE IF Cardinality(facts.modules) > 1 THEN "INTEGRATION"
  ELSE IF facts.tests \/ Cardinality(facts.changed \union facts.untracked) = 1
    THEN "TARGETED"
  ELSE None
=============================================================================
