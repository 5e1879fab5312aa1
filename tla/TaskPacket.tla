----------------------------- MODULE TaskPacket -----------------------------
(***************************************************************************)
(* validate_task_packet.py: whether a task packet may be given to a coder. *)
(*                                                                         *)
(* A packet keeps what the checks across fields and files use; sound stands *)
(* for the checks of a field alone: presence, type, the RED evidence, the  *)
(* scenario checks and the shape of PLAN_CONSTRAINTS.  A constraint of a   *)
(* decision names a field of the facts and its allowed values.             *)
(***************************************************************************)
EXTENDS Integers, Sequences

CONSTANT NoFile  \* no such input was given to the script

Members(s) == {s[i] : i \in DOMAIN s}

\* normalize_repo_path: the key of a path is its file, however it is spelled.
Key(path) == path[1]
Keys(paths) == {Key(paths[i]) : i \in DOMAIN paths}

AllDifferent(s) == \A i, j \in DOMAIN s : s[i] = s[j] => i = j

\* _validate_path_fields.
PathsOk(packet) ==
  /\ packet.write # << >>
  /\ \A paths \in {packet.write, packet.read} :
       \A i, j \in DOMAIN paths : Key(paths[i]) = Key(paths[j]) => i = j
  /\ Keys(packet.write) \intersect Keys(packet.read) = {}

DependenciesOk(packet, task_ids) ==
  /\ AllDifferent(packet.dependencies)
  /\ packet.task \notin Members(packet.dependencies)
  /\ task_ids # NoFile => Members(packet.dependencies) \subseteq task_ids

\* _dotted_get and the comparison with allowed_values.
ConstraintHolds(constraint, facts) ==
  /\ facts # NoFile
  /\ constraint.path \in DOMAIN facts
  /\ facts[constraint.path] \in constraint.allowed

\* The body of the loop over DECISION_REFS.
DecisionOk(ref, packet, decisions, facts) ==
  /\ decisions # NoFile /\ ref \in DOMAIN decisions
  /\ decisions[ref].status = "resolved"
  /\ packet.task \in decisions[ref].affects
  /\ \A c \in decisions[ref].constraints : ConstraintHolds(c, facts)

\* Only the decisions a packet refers to are looked at.
DecisionsOk(packet, decisions, facts) ==
  /\ AllDifferent(packet.refs)
  /\ \A ref \in Members(packet.refs) : DecisionOk(ref, packet, decisions, facts)

\* CONSTRAINT_MAPPINGS cover what --plan-constraints declares.
MappingsOk(packet, plan_constraints) ==
  plan_constraints # NoFile => plan_constraints \subseteq packet.mapped

\* validate_packet, VALID or BLOCKED.
Valid(packet, decisions, task_ids, facts, plan_constraints) ==
  /\ packet.sound
  /\ PathsOk(packet)
  /\ DependenciesOk(packet, task_ids)
  /\ DecisionsOk(packet, decisions, facts)
  /\ MappingsOk(packet, plan_constraints)
=============================================================================
