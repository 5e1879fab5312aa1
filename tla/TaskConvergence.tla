-------------------------- MODULE TaskConvergence ---------------------------
(***************************************************************************)
(* route_task of task_convergence.py: what a review verdict, or a finished *)
(* diagnosis, makes of a task.                                             *)
(*                                                                         *)
(* A call is a record of the arguments of route_task.  A contract stands   *)
(* for its material fingerprint, so equal contracts have equal             *)
(* fingerprints and a rename is no change.  Arguments the code checks for  *)
(* their JSON type only are well typed; True, False and null of an         *)
(* optional flag are "yes", "no" and "unknown".                            *)
(***************************************************************************)
EXTENDS Integers

CONSTANT None   \* null, for rev1_rounds and failure_context

Routes == {"CONTINUE_FIX", "ENTER_RETHINK", "RESUME_SAME", "SPAWN_SUCCESSOR",
           "SHIP", "STOP", "TASK_ESCALATION_REQUIRED"}
Verdicts == {"ship", "fix-first", "rethink"}
Continuities == {"preserve", "successor_recommended"}
Unavailability == {"unavailable", "runtime_gone", "unrecoverable"}
Flags == {"yes", "no", "unknown"}

MaxRounds == 3   \* fix rounds under one revision of the contract

CountersAgree(call) ==
  /\ call.contract_revision \in 1..2
  /\ call.fix_round \in 0..MaxRounds
  /\ call.total_fix_rounds \in 0..(2 * MaxRounds)
  /\ call.rev1_rounds \in (0..MaxRounds) \union {None}
  /\ IF call.contract_revision = 1
       THEN /\ call.total_fix_rounds = call.fix_round
            /\ call.rev1_rounds = IF call.diagnosis_complete
                                    THEN call.fix_round ELSE None
       ELSE /\ call.rev1_rounds # None
            /\ call.total_fix_rounds = call.rev1_rounds + call.fix_round

DiagnosisAgrees(call) ==
  IF call.diagnosis_complete
    THEN /\ call.review_verdict # "ship"
         /\ call.contract_revision = 1
         /\ call.prior_route = "ENTER_RETHINK"
         /\ call.coder_status = "PARKED_FOR_RETHINK"
         /\ call.review_verdict = "fix-first" => call.fix_round = MaxRounds
         /\ call.coder_unavailability \in Unavailability =>
              call.original_coder_available # "yes"
    ELSE /\ call.prior_route = "none" /\ call.coder_status = "none"
         /\ call.responsibility_boundary_changed = "unknown"
         /\ call.coder_unavailability = "none"

Escalates(call) ==
  /\ call.contract_revision = 2
  /\ \/ call.review_verdict = "rethink"
     \/ call.review_verdict = "fix-first" /\ call.fix_round = MaxRounds

\* Mutant: the reported rounds are only required to be rounds.
ContextTrusted(call) ==
  IF Escalates(call)
    THEN /\ call.failure_context # None
         /\ call.failure_context.freshness = "fresh"
         /\ call.failure_context.coder_status = "PARKED_FOR_RETHINK"
    ELSE call.failure_context = None

\* _validate_failure_context: a fresh verification, the rounds that were
\* made, and a coder that is parked; no context for another route.
ContextAgrees(call) ==
  IF Escalates(call)
    THEN /\ call.failure_context # None
         /\ call.failure_context.revision_rounds
              = <<call.rev1_rounds, call.fix_round>>
         /\ call.failure_context.freshness = "fresh"
         /\ call.failure_context.coder_status = "PARKED_FOR_RETHINK"
    ELSE call.failure_context = None

\* Otherwise route_task raises ValueError and the command exits with 2.
Accepted(call) ==
  CountersAgree(call) /\ DiagnosisAgrees(call) /\ ContextAgrees(call)

Material(call) == call.old_contract # call.new_contract

AfterDiagnosis(call) ==
  IF call.coder_unavailability # "none" /\ call.original_coder_available # "yes"
    THEN "SPAWN_SUCCESSOR"
  ELSE IF /\ call.original_coder_available = "yes"
          /\ call.implementer_continuity = "preserve"
    THEN "RESUME_SAME"
  ELSE IF /\ call.implementer_continuity = "successor_recommended"
          /\ call.responsibility_boundary_changed = "yes"
    THEN "SPAWN_SUCCESSOR"
  ELSE "STOP"

\* Mutant: ship whatever became of the contract.
RouteShip(call) ==
  IF call.review_verdict = "ship" THEN "SHIP"
  ELSE IF Escalates(call) THEN "TASK_ESCALATION_REQUIRED"
  ELSE IF call.diagnosis_complete
    THEN IF Material(call) THEN AfterDiagnosis(call) ELSE "STOP"
  ELSE IF call.review_verdict = "rethink" \/ call.fix_round = MaxRounds
    THEN "ENTER_RETHINK"
  ELSE "CONTINUE_FIX"

Route(call) ==
  IF call.review_verdict = "ship" THEN IF Material(call) THEN "STOP" ELSE "SHIP"
  ELSE IF Escalates(call) THEN "TASK_ESCALATION_REQUIRED"
  ELSE IF call.diagnosis_complete
    THEN IF Material(call) THEN AfterDiagnosis(call) ELSE "STOP"
  ELSE IF call.review_verdict = "rethink" \/ call.fix_round = MaxRounds
    THEN "ENTER_RETHINK"
  ELSE "CONTINUE_FIX"

\* Mutants: the round is kept; the revision is not counted.
CountersKept(call) ==
  [contract_revision |-> IF call.diagnosis_complete /\ Material(call) THEN 2
                           ELSE call.contract_revision,
   fix_round |-> call.fix_round,
   total_fix_rounds |-> call.total_fix_rounds,
   rev1_rounds |-> call.rev1_rounds]
CountersRestart(call) ==
  IF call.diagnosis_complete /\ Material(call)
    THEN [contract_revision |-> 1, fix_round |-> 0, total_fix_rounds |-> 0,
          rev1_rounds |-> None]
    ELSE [contract_revision |-> call.contract_revision,
          fix_round |-> call.fix_round,
          total_fix_rounds |-> call.total_fix_rounds,
          rev1_rounds |-> call.rev1_rounds]

\* The counters of the result: a re-contract starts revision 2 at round 0.
Counters(call) ==
  IF call.diagnosis_complete /\ Material(call)
    THEN [contract_revision |-> 2, fix_round |-> 0,
          total_fix_rounds |-> call.total_fix_rounds,
          rev1_rounds |-> call.rev1_rounds]
    ELSE [contract_revision |-> call.contract_revision,
          fix_round |-> call.fix_round,
          total_fix_rounds |-> call.total_fix_rounds,
          rev1_rounds |-> call.rev1_rounds]

\* _failure_capsule, reduced to the rounds it reports.
Capsule(call) == call.failure_context.revision_rounds
=============================================================================
