--------------------------- MODULE TaskLoopProofs ---------------------------
(***************************************************************************)
(* Proofs about TaskLoop, for any contracts, any breaker and any bounds on *)
(* coders and troubles.  One invariant carries all of it: the types, the counters     *)
(* that are the rounds made (RoundsKept), who may be doing what            *)
(* (EachInPlace), the contract of each revision, the escalation each       *)
(* contract cost (DispatchesPaid), and the claims that are inductive       *)
(* beside them.                                                            *)
(***************************************************************************)
EXTENDS TaskLoop, TLAPS

Claims ==
  /\ HonestCallsAccepted
  /\ ShipsAgreedContract
  /\ EscalationTellsHistory
  /\ VerdictsAreCurrent
  /\ PendingFixHasItsCoder

LoopInv == TaskTypeOK /\ RoundsKept /\ EachInPlace /\ ContractOfRevision /\ Claims
TaskInv == LoopInv /\ DispatchesPaid

(* The initial state has the invariant.                                    *)
LEMMA TaskInit == Init => TaskInv
<1> SUFFICES ASSUME Init PROVE TaskInv
  OBVIOUS
<1> USE TaskInputs DEF Init
<1>1. TaskTypeOK
  <2>1. reviewer \in [status : {"NONE", "RUNNING", "DONE"},
                      verdict : Verdicts \union {"none"}, stale : BOOLEAN]
    BY DEF NoReviewer
  <2>2. counters \in CounterSet /\ contract \in [old : Contracts, new : Contracts]
    BY DEF CounterSet
  <2>3. status \in [Coders -> CoderStatuses \union {"CLOSED"}] /\ owner \in Coders
    BY DEF Coders, CoderStatuses
  <2>4. /\ fixes \in [1..2 -> Nat] /\ dispatched \in Nat /\ trouble \in 0..MaxTrouble
        /\ agreed \in Contracts /\ escalations \in 0..Breaker
    OBVIOUS
  <2> QED
    BY <2>1, <2>2, <2>3, <2>4 DEF TaskTypeOK, RuntimeStates
<1>2. RoundsKept
  BY DEF RoundsKept, MaxRounds, Coders
<1>3. EachInPlace
  BY DEF EachInPlace, Coders, NoReviewer
<1>4. ContractOfRevision /\ Claims
  BY DEF ContractOfRevision, Claims, HonestCallsAccepted, ShipsAgreedContract,
     EscalationTellsHistory, VerdictsAreCurrent, PendingFixHasItsCoder
<1>5. DispatchesPaid
  BY DEF DispatchesPaid
<1> QED
  BY <1>1, <1>2, <1>3, <1>4, <1>5 DEF TaskInv, LoopInv

(* The one row of the table each event of a coder can take.                *)
LEMMA MoveSpawn ==
  ASSUME TaskTypeOK, Move(owner, "spawn")
  PROVE  status[owner] = "UNSPAWNED" /\ status' = [status EXCEPT ![owner] = "ACTIVE"]
  BY DEF Move, Transition, CoderTransitions
(* Work ends with a verification. *)
LEMMA MoveWorked ==
  ASSUME TaskTypeOK, Move(owner, "verification_started") \/ Move(owner, "fix_complete")
  PROVE  /\ status[owner] \in {"ACTIVE", "FIX_REQUIRED"}
         /\ status' = [status EXCEPT ![owner] = "WAITING_VERIFICATION"]
  BY DEF Move, Transition, CoderTransitions
(* An audit follows the verification. *)
LEMMA MoveAudit ==
  ASSUME TaskTypeOK, Move(owner, "audit_started")
  PROVE  /\ status[owner] = "WAITING_VERIFICATION"
         /\ status' = [status EXCEPT ![owner] = "WAITING_AUDIT"]
  BY DEF Move, Transition, CoderTransitions
(* A fix-first verdict asks the audited coder for a fix. *)
LEMMA MoveFixFirst ==
  ASSUME TaskTypeOK, Move(owner, "fix_first")
  PROVE  /\ status[owner] = "WAITING_AUDIT"
         /\ status' = [status EXCEPT ![owner] = "FIX_REQUIRED"]
  BY DEF Move, Transition, CoderTransitions
(* An audited coder that ships is parked. *)
LEMMA MoveShip ==
  ASSUME TaskTypeOK, Move(owner, "ship")
  PROVE  /\ status[owner] = "WAITING_AUDIT"
         /\ status' = [status EXCEPT ![owner] = "PARKED_REUSABLE"]
  BY DEF Move, Transition, CoderTransitions
(* A parked coder is asked for an integration fix. *)
LEMMA MoveIntegration ==
  ASSUME TaskTypeOK, Move(owner, "integration_fix_needed")
  PROVE  /\ status[owner] = "PARKED_REUSABLE"
         /\ status' = [status EXCEPT ![owner] = "FIX_REQUIRED"]
  BY DEF Move, Transition, CoderTransitions
(* A successor is the next coder, fresh. *)
LEMMA SuccessorSpawned ==
  ASSUME TaskTypeOK, Successor
  PROVE  /\ owner + 1 \in Coders /\ owner' = owner + 1
         /\ status[owner + 1] = "UNSPAWNED"
         /\ status' = [status EXCEPT ![owner + 1] = "ACTIVE"]
         /\ working' = working \union {owner + 1}
  BY TaskInputs DEF TaskTypeOK, Successor, Coders, Transition, CoderTransitions
-----------------------------------------------------------------------------
(* What the two scripts guarantee of one call.                             *)

(* A fresh agent is spawned, and one closed, only on a current verdict.    *)
LEMMA ClosedReviewerIsCurrent ==
  ASSUME TaskTypeOK, ReviewerAction = "CLOSE_ALLOWED"
  PROVE  ~reviewer.stale
  BY DEF ReviewerAction, Decide, DecideFailClosed, DecideReviewer

(* A fix is dispatched to a coder seen alive, or to the successor of one   *)
(* seen gone, and never to a coder parked for rethink.                     *)
LEMMA FixDispatch ==
  ASSUME NEW available \in Flags, NEW unavailability \in {"none", "runtime_gone"},
         Observed(owner, available, unavailability),
         NEW action,
         action = DecideCoder(runtime, status[owner], "fix_first",
                              DecideFixFirst(available, unavailability))
  PROVE  /\ status[owner] = "PARKED_FOR_RETHINK" =>
              action \notin {"RESUME_SAME", "SPAWN_SUCCESSOR"}
         /\ action = "RESUME_SAME" => owner \notin gone
         /\ action = "SPAWN_SUCCESSOR" => owner \in gone
  BY DEF DecideCoder, Decide, DecideFailClosed, DecideFixFirst, Observed, Flags, Evidence

(* The call after a review: its fields, and when it escalates.             *)
IsReviewCall(call, rounds) ==
  /\ call.contract_revision = counters.contract_revision
  /\ call.fix_round = counters.fix_round
  /\ call.total_fix_rounds = counters.total_fix_rounds
  /\ call.rev1_rounds = counters.rev1_rounds
  /\ call.review_verdict = reviewer.verdict
  /\ call.old_contract = contract.old /\ call.new_contract = contract.new
  /\ call.diagnosis_complete = FALSE
  /\ call.responsibility_boundary_changed = "unknown"
  /\ call.coder_unavailability = "none"
  /\ call.prior_route = "none" /\ call.coder_status = "none"
  /\ call.failure_context =
       IF Escalates(call)
         THEN [revision_rounds |-> rounds, freshness |-> "fresh",
               coder_status |-> "PARKED_FOR_RETHINK"]
         ELSE None

(* The call after a review is such a call.                                 *)
LEMMA ReviewCallFields ==
  ASSUME NEW rounds
  PROVE  IsReviewCall(ReviewCall(rounds), rounds)
  BY DEF ReviewCall, Escalates, IsReviewCall

(* route_task refuses the call after a review only for the rounds that an  *)
(* escalation reports.                                                     *)
LEMMA ReviewAccepted ==
  ASSUME TaskTypeOK, RoundsKept, phase = "coding", reviewer.verdict \in Verdicts,
         NEW rounds \in (0..MaxRounds) \X (0..MaxRounds),
         Escalates(ReviewCall(rounds)) =>
           rounds = <<ReviewCall(rounds).rev1_rounds, ReviewCall(rounds).fix_round>>
  PROVE  Accepted(ReviewCall(rounds))
<1> DEFINE call == ReviewCall(rounds)
<1>0. /\ IsReviewCall(call, rounds)
      /\ Escalates(call) => rounds = <<call.rev1_rounds, call.fix_round>>
  BY ReviewCallFields
<1> HIDE DEF call
<1>1. CountersAgree(call)
  BY <1>0, TaskInputs DEF IsReviewCall, TaskTypeOK, CounterSet, RoundsKept, CountersAgree,
     MaxRounds
<1>2. DiagnosisAgrees(call)
  BY <1>0 DEF IsReviewCall, DiagnosisAgrees
<1>3. ContextAgrees(call)
  <2>1. CASE Escalates(call)
    <3>1. /\ call.failure_context = [revision_rounds |-> rounds, freshness |-> "fresh",
                                     coder_status |-> "PARKED_FOR_RETHINK"]
          /\ rounds \in Nat \X Nat
      BY <1>0, <2>1 DEF IsReviewCall, MaxRounds
    <3>2. call.failure_context # None
      BY <3>1, TaskInputs
    <3> QED
      BY <1>0, <2>1, <3>1, <3>2 DEF ContextAgrees
  <2>2. CASE ~Escalates(call)
    BY <1>0, <2>2 DEF IsReviewCall, ContextAgrees
  <2> QED
    BY <2>1, <2>2
<1> QED
  BY <1>1, <1>2, <1>3 DEF Accepted, call

(* What each route of a review says of the task.                           *)
LEMMA ReviewRoutes ==
  ASSUME TaskTypeOK, RoundsKept, phase = "coding", reviewer.verdict \in Verdicts,
         NEW rounds, Accepted(ReviewCall(rounds))
  PROVE  /\ Counters(ReviewCall(rounds)) = counters
         /\ Route(ReviewCall(rounds)) = "SHIP" => contract.old = contract.new
         /\ Route(ReviewCall(rounds)) = "CONTINUE_FIX" => counters.fix_round < MaxRounds
         /\ Route(ReviewCall(rounds)) = "ENTER_RETHINK" =>
              /\ counters.contract_revision = 1
              /\ \/ reviewer.verdict = "rethink"
                 \/ reviewer.verdict = "fix-first" /\ counters.fix_round = MaxRounds
         /\ Route(ReviewCall(rounds)) = "TASK_ESCALATION_REQUIRED" =>
              /\ counters.contract_revision = 2
              /\ Capsule(ReviewCall(rounds)) = <<fixes[1], fixes[2]>>
<1> DEFINE call == ReviewCall(rounds)
<1>0. IsReviewCall(call, rounds) /\ Accepted(call)
  BY ReviewCallFields
<1> HIDE DEF call
<1>1. Counters(call) = counters
  BY <1>0 DEF IsReviewCall, Counters, TaskTypeOK, CounterSet
<1>2. Route(call) = "SHIP" => contract.old = contract.new
  BY <1>0 DEF IsReviewCall, Route, Material, AfterDiagnosis
<1>3. counters.fix_round \in 0..MaxRounds
  BY DEF TaskTypeOK, RoundsKept, CounterSet, MaxRounds
<1>4. Route(call) = "CONTINUE_FIX" => counters.fix_round < MaxRounds
  BY <1>0, <1>3 DEF IsReviewCall, Route, MaxRounds
<1>5. Route(call) = "TASK_ESCALATION_REQUIRED" => Escalates(call)
  BY <1>0 DEF IsReviewCall, Route
<1>6. Escalates(call) =>
        counters.contract_revision = 2 /\ Capsule(call) = <<fixes[1], fixes[2]>>
  <2> SUFFICES ASSUME Escalates(call)
               PROVE  counters.contract_revision = 2 /\ Capsule(call) = <<fixes[1], fixes[2]>>
    OBVIOUS
  <2>1. counters.contract_revision = 2
    BY <1>0 DEF IsReviewCall, Escalates
  <2>2. Capsule(call) = <<counters.rev1_rounds, counters.fix_round>>
    BY <1>0 DEF IsReviewCall, Accepted, ContextAgrees, Capsule
  <2>3. counters.rev1_rounds = fixes[1] /\ counters.fix_round = fixes[2]
    BY <2>1 DEF RoundsKept
  <2> QED
    BY <2>1, <2>2, <2>3
<1>7. Route(call) = "ENTER_RETHINK" =>
        /\ counters.contract_revision = 1
        /\ \/ reviewer.verdict = "rethink"
           \/ reviewer.verdict = "fix-first" /\ counters.fix_round = MaxRounds
  BY <1>0 DEF IsReviewCall, Route, Escalates, Verdicts, TaskTypeOK, CounterSet
<1> QED
  BY <1>1, <1>2, <1>4, <1>5, <1>6, <1>7 DEF call

(* route_task accepts the call after a diagnosis, and either stops or      *)
(* starts revision 2 at round 0 under a contract that did change.          *)
LEMMA DiagnosisRoutes ==
  ASSUME TaskTypeOK, RoundsKept, EachInPlace, phase = "rethinking",
         NEW new \in Contracts, NEW available \in Flags,
         NEW unavailability \in {"none", "runtime_gone"},
         NEW continuity \in Continuities, NEW boundary \in Flags,
         Observed(owner, available, unavailability),
         NEW call,
         call = DiagnosisCall(new, available, unavailability, continuity, boundary)
  PROVE  /\ Accepted(call)
         /\ Route(call) \in {"RESUME_SAME", "SPAWN_SUCCESSOR", "STOP"}
         /\ Route(call) # "STOP" => contract.old # new
         /\ Route(call) = "RESUME_SAME" => owner \notin gone
         /\ IF contract.old # new
              THEN Counters(call) = [contract_revision |-> 2, fix_round |-> 0,
                                     total_fix_rounds |-> fixes[1],
                                     rev1_rounds |-> fixes[1]]
              ELSE Counters(call) = [contract_revision |-> 1, fix_round |-> fixes[1],
                                     total_fix_rounds |-> fixes[1],
                                     rev1_rounds |-> fixes[1]]
<1>1. /\ call.contract_revision = 1 /\ call.fix_round = fixes[1]
      /\ call.total_fix_rounds = fixes[1] /\ call.rev1_rounds = fixes[1]
      /\ call.review_verdict = rethink
      /\ call.original_coder_available = available
      /\ call.old_contract = contract.old /\ call.new_contract = new
      /\ call.diagnosis_complete = TRUE
      /\ call.coder_unavailability = unavailability
      /\ call.prior_route = "ENTER_RETHINK"
      /\ call.coder_status = "PARKED_FOR_RETHINK"
      /\ call.failure_context = None
  BY DEF DiagnosisCall, RoundsKept, EachInPlace
<1>2. fixes[1] \in 0..MaxRounds
  BY DEF TaskTypeOK, RoundsKept, MaxRounds
<1>3. rethink # "ship" /\ (rethink = "fix-first" => fixes[1] = MaxRounds)
  BY DEF EachInPlace, RoundsKept
<1>4. CountersAgree(call)
  BY <1>1, <1>2 DEF CountersAgree, MaxRounds
<1>5. DiagnosisAgrees(call)
  BY <1>1, <1>3 DEF DiagnosisAgrees, Observed, Unavailability
<1>6. ~Escalates(call) /\ ContextAgrees(call)
  BY <1>1 DEF Escalates, ContextAgrees
<1>7. Route(call) = IF contract.old # new THEN AfterDiagnosis(call) ELSE "STOP"
  BY <1>1, <1>3, <1>6 DEF Route, Material
<1>8. /\ AfterDiagnosis(call) \in {"RESUME_SAME", "SPAWN_SUCCESSOR", "STOP"}
      /\ AfterDiagnosis(call) = "RESUME_SAME" => available = "yes"
  BY <1>1 DEF AfterDiagnosis
<1>9. available = "yes" => owner \notin gone
  BY DEF Observed
<1>10. Counters(call) = IF contract.old # new
              THEN [contract_revision |-> 2, fix_round |-> 0,
                    total_fix_rounds |-> fixes[1], rev1_rounds |-> fixes[1]]
              ELSE [contract_revision |-> 1, fix_round |-> fixes[1],
                    total_fix_rounds |-> fixes[1], rev1_rounds |-> fixes[1]]
  BY <1>1 DEF Counters, Material
<1> QED
  BY <1>4, <1>5, <1>6, <1>7, <1>8, <1>9, <1>10 DEF Accepted
-----------------------------------------------------------------------------
(* Every step keeps the invariant: one step of the proof for each action.  *)
LEMMA LoopNext == TaskInv /\ [Next]_vars => LoopInv'
<1> SUFFICES ASSUME LoopInv, DispatchesPaid, [Next]_vars PROVE LoopInv'
  BY DEF TaskInv
<1> USE DEF LoopInv, coding, cycle, history, ContractOfRevision, Claims,
       HonestCallsAccepted, ShipsAgreedContract, EscalationTellsHistory,
       VerdictsAreCurrent, PendingFixHasItsCoder
<1>a. TaskTypeOK
  OBVIOUS
<1>1. ASSUME NEW t \in Terminals, AdvisorAnswers(t) PROVE LoopInv'
  BY <1>1 DEF AdvisorAnswers, TaskTypeOK, RoundsKept, EachInPlace
<1>2. ASSUME NEW event, ConsultAdvisor(event) PROVE LoopInv'
  BY <1>2 DEF ConsultAdvisor, TaskTypeOK, RoundsKept, EachInPlace, Ended
<1>3. CASE StartCoding
  BY <1>3, <1>a, MoveSpawn DEF StartCoding, TaskTypeOK, RoundsKept, EachInPlace,
     CoderStatuses
<1>4. CASE FinishWork
  <2>1. /\ status[owner] \in {"ACTIVE", "FIX_REQUIRED"}
        /\ status' = [status EXCEPT ![owner] = "WAITING_VERIFICATION"]
    BY <1>4, <1>a, MoveWorked DEF FinishWork
  <2>2. EachInPlace'
    BY <1>4, <2>1, <1>a DEF FinishWork, TaskTypeOK, EachInPlace
  <2>3. status' \in [Coders -> CoderStatuses \union {"CLOSED"}]
        /\ status'[owner] = "WAITING_VERIFICATION"
    BY <2>1, <1>a DEF TaskTypeOK, CoderStatuses
  <2>4. CASE fixing /\ phase = "coding"
    <3>1. /\ counters' = [counters EXCEPT !.fix_round = @ + 1,
                                          !.total_fix_rounds = @ + 1]
          /\ fixes' = [fixes EXCEPT ![counters.contract_revision] = @ + 1]
      BY <1>4, <2>4 DEF FinishWork, CountFix
    <3>2. counters.fix_round < MaxRounds
      BY <2>4 DEF RoundsKept
    <3>3. /\ counters' \in CounterSet /\ fixes' \in [1..2 -> Nat]
          /\ counters'.contract_revision = counters.contract_revision
      <4>1. counters \in CounterSet /\ fixes \in [1..2 -> Nat]
        BY <1>a DEF TaskTypeOK
      <4>2. counters.contract_revision \in 1..2
        BY <4>1 DEF CounterSet
      <4>3. fixes' \in [1..2 -> Nat]
        <5>1. \A n \in 1..2 : [fixes EXCEPT ![n] = @ + 1] \in [1..2 -> Nat]
          BY <4>1
        <5> QED
          BY <3>1, <4>2, <5>1
      <4>4. /\ counters' \in CounterSet
            /\ counters'.contract_revision = counters.contract_revision
        <5>1. counters' = [contract_revision |-> counters.contract_revision,
                           fix_round |-> counters.fix_round + 1,
                           total_fix_rounds |-> counters.total_fix_rounds + 1,
                           rev1_rounds |-> counters.rev1_rounds]
          BY <3>1, <4>1 DEF CounterSet
        <5> QED
          BY <4>1, <5>1 DEF CounterSet
      <4> QED
        BY <4>3, <4>4
    <3>4. RoundsKept'
      BY <1>4, <2>1, <3>1, <3>2, <1>a DEF FinishWork, TaskTypeOK, CounterSet,
         RoundsKept, MaxRounds
    <3>5. TaskTypeOK'
      BY <1>4, <2>3, <3>3 DEF FinishWork, TaskTypeOK
    <3> QED
      BY <1>4, <2>2, <2>3, <2>4, <3>3, <3>4, <3>5 DEF FinishWork
  <2>5. CASE ~(fixing /\ phase = "coding")
    <3>1. UNCHANGED <<counters, fixes>>
      BY <1>4, <2>5 DEF FinishWork, CountFix
    <3>2. RoundsKept'
      BY <1>4, <2>3, <3>1 DEF FinishWork, RoundsKept
    <3>3. TaskTypeOK'
      BY <1>4, <2>3, <3>1 DEF FinishWork, TaskTypeOK
    <3> QED
      BY <1>4, <2>2, <2>3, <3>1, <3>2, <3>3 DEF FinishWork
  <2> QED
    BY <2>4, <2>5
<1>5. CASE StartAudit
  BY <1>5, <1>a, MoveAudit DEF StartAudit, FreshReviewer, TaskTypeOK, RoundsKept,
     EachInPlace, CoderStatuses
<1>6. ASSUME NEW v \in Verdicts, ReviewerAnswers(v) PROVE LoopInv'
  <2>1. /\ reviewer' \in [status : {"NONE", "RUNNING", "DONE"},
                          verdict : Verdicts \union {"none"}, stale : BOOLEAN]
        /\ reviewer'.status = "DONE" /\ reviewer'.verdict = v
    BY <1>6, <1>a DEF ReviewerAnswers, TaskTypeOK
  <2> QED
    BY <1>6, <2>1 DEF ReviewerAnswers, TaskTypeOK, RoundsKept, EachInPlace
<1>7. CASE ReplaceReviewer
  BY <1>7 DEF ReplaceReviewer, FreshReviewer, TaskTypeOK, RoundsKept,
     EachInPlace
<1>8. ASSUME NEW rounds \in (0..MaxRounds) \X (0..MaxRounds), RouteReview(rounds)
      PROVE  LoopInv'
  <2> DEFINE call == ReviewCall(rounds)
  <2>1. /\ phase = "coding" /\ reviewer.status = "DONE" /\ reviewer' = NoReviewer
        /\ status[owner] = "WAITING_AUDIT" /\ reviewer.verdict \in Verdicts
        /\ ~fixing /\ working = {} /\ ~pending
    BY <1>8, <1>a DEF RouteReview, VerdictIn, EachInPlace, TaskTypeOK
  <2>2. acted' = "current"
    BY <1>8, <1>a, ClosedReviewerIsCurrent DEF RouteReview, VerdictIn
  <2>3. Accepted(call)
    BY <1>8, <1>a, <2>1, ReviewAccepted DEF RouteReview
  <2>4. /\ AfterReview(Route(call))
        /\ counters' = counters
        /\ rethink' = IF Route(call) = "ENTER_RETHINK" THEN reviewer.verdict ELSE rethink
        /\ capsule' = IF Route(call) = "TASK_ESCALATION_REQUIRED"
                        THEN Capsule(call) ELSE capsule
        /\ UNCHANGED <<contract, cycle, owner, working, fixing, gone, advisor, pending,
                       runtime, trouble, fixes, dispatched>>
    BY <1>8, <1>a, <2>1, <2>3, ReviewRoutes DEF RouteReview
  <2>5. /\ reviewer' \in [status : {"NONE", "RUNNING", "DONE"},
                          verdict : Verdicts \union {"none"}, stale : BOOLEAN]
        /\ reviewer'.status = "NONE"
    BY <2>1 DEF NoReviewer
  <2>6. CASE Route(call) = "CONTINUE_FIX"
    <3>1. status' = [status EXCEPT ![owner] = "FIX_REQUIRED"] /\ phase' = phase
      BY <1>a, <2>4, <2>6, MoveFixFirst DEF AfterReview
    <3>2. counters.fix_round < MaxRounds
      BY <1>a, <2>1, <2>3, <2>6, ReviewRoutes
    <3> QED
      BY <1>a, <2>1, <2>2, <2>4, <2>5, <2>6, <3>1, <3>2 DEF TaskTypeOK, CoderStatuses,
         RoundsKept, EachInPlace
  <2>7. CASE Route(call) = "SHIP"
    <3>1. status' = [status EXCEPT ![owner] = "PARKED_REUSABLE"] /\ phase' = "shipped"
      BY <1>a, <2>4, <2>7, MoveShip DEF AfterReview
    <3>2. contract.old = contract.new
      BY <1>a, <2>1, <2>3, <2>7, ReviewRoutes
    <3> QED
      BY <1>a, <2>1, <2>2, <2>4, <2>5, <2>7, <3>1, <3>2 DEF TaskTypeOK, CoderStatuses,
         RoundsKept, EachInPlace, Ended
  <2>8. CASE Route(call) = "ENTER_RETHINK"
    <3>1. status' = [status EXCEPT ![owner] = "PARKED_FOR_RETHINK"] /\ phase' = "rethinking"
      BY <2>4, <2>8 DEF AfterReview
    <3>2. /\ counters.contract_revision = 1
          /\ \/ reviewer.verdict = "rethink"
             \/ reviewer.verdict = "fix-first" /\ counters.fix_round = MaxRounds
      BY <1>a, <2>1, <2>3, <2>8, ReviewRoutes
    <3> QED
      BY <1>a, <2>1, <2>2, <2>4, <2>5, <2>8, <3>1, <3>2 DEF TaskTypeOK, CoderStatuses,
         RoundsKept, EachInPlace
  <2>9. CASE Route(call) = "TASK_ESCALATION_REQUIRED"
    <3>1. status' = [status EXCEPT ![owner] = "PARKED_FOR_RETHINK"] /\ phase' = "escalated"
      BY <2>4, <2>9 DEF AfterReview
    <3>2. counters.contract_revision = 2 /\ Capsule(call) = <<fixes[1], fixes[2]>>
      BY <1>a, <2>1, <2>3, <2>9, ReviewRoutes
    <3> QED
      BY <1>a, <2>1, <2>2, <2>4, <2>5, <2>9, <3>1, <3>2 DEF TaskTypeOK, CoderStatuses,
         RoundsKept, EachInPlace, Ended
  <2>10. CASE Route(call) = "STOP"
    <3>1. status' = status /\ phase' = "stopped"
      BY <2>4, <2>10 DEF AfterReview
    <3> QED
      BY <1>a, <2>1, <2>2, <2>4, <2>5, <2>10, <3>1 DEF TaskTypeOK, RoundsKept,
         EachInPlace, Ended
  <2> QED
    BY <2>4, <2>6, <2>7, <2>8, <2>9, <2>10 DEF AfterReview
<1>9. ASSUME NEW available \in Flags, NEW unavailability \in {"none", "runtime_gone"},
             DispatchFix(available, unavailability)
      PROVE  LoopInv'
  <2> DEFINE action == DecideCoder(runtime, status[owner], "fix_first",
                                   DecideFixFirst(available, unavailability))
  <2>1. /\ status[owner] = "PARKED_FOR_RETHINK" =>
             action \notin {"RESUME_SAME", "SPAWN_SUCCESSOR"}
        /\ action = "RESUME_SAME" => owner \notin gone
        /\ action = "SPAWN_SUCCESSOR" => owner \in gone
    BY <1>9, FixDispatch DEF DispatchFix
  <2>2. /\ status[owner] = "FIX_REQUIRED" /\ fixing' = TRUE
        /\ UNCHANGED <<phase, counters, contract, cycle, gone, reviewer, rethink, advisor,
                       pending, runtime, trouble, history>>
    BY <1>9, <2>1 DEF DispatchFix
  <2>3. CASE /\ action = "RESUME_SAME" /\ working' = working \union {owner}
             /\ UNCHANGED <<owner, status>>
    <3>1. TaskTypeOK'
      BY <1>a, <2>2, <2>3 DEF TaskTypeOK
    <3>2. RoundsKept'
      BY <1>a, <2>2, <2>3 DEF RoundsKept
    <3>3. EachInPlace'
      BY <1>a, <2>1, <2>2, <2>3 DEF EachInPlace
    <3> QED
      BY <2>2, <2>3, <3>1, <3>2, <3>3 DEF EachInPlace
  <2>4. CASE action = "SPAWN_SUCCESSOR" /\ Successor
    <3>1. /\ owner + 1 \in Coders /\ owner' = owner + 1
          /\ status[owner + 1] = "UNSPAWNED"
          /\ status' = [status EXCEPT ![owner + 1] = "ACTIVE"]
          /\ working' = working \union {owner + 1}
      BY <1>a, <2>4, SuccessorSpawned
    <3>2. working = {}
      BY <2>1, <2>4 DEF EachInPlace
    <3>3. TaskTypeOK'
      BY <1>a, <2>2, <3>1 DEF TaskTypeOK, CoderStatuses
    <3>4. RoundsKept'
      BY <1>a, <2>2, <3>1 DEF RoundsKept
    <3>5. EachInPlace' /\ status'[owner'] = "ACTIVE"
      BY <1>a, <2>2, <3>1, <3>2 DEF TaskTypeOK, EachInPlace
    <3> QED
      BY <2>2, <3>3, <3>4, <3>5
  <2> QED
    BY <1>9, <2>3, <2>4 DEF DispatchFix
<1>10. ASSUME NEW new \in Contracts, NEW available \in Flags,
              NEW unavailability \in {"none", "runtime_gone"},
              NEW continuity \in Continuities, NEW boundary \in Flags,
              Diagnose(new, available, unavailability, continuity, boundary)
       PROVE  LoopInv'
  <2> DEFINE call == DiagnosisCall(new, available, unavailability, continuity, boundary)
  <2>1. /\ phase = "rethinking" /\ Observed(owner, available, unavailability)
        /\ status[owner] = "PARKED_FOR_RETHINK" /\ working = {} /\ ~fixing /\ ~pending
        /\ counters.contract_revision = 1 /\ reviewer.status = "NONE"
        /\ contract.old = agreed /\ rethink' = "none"
    BY <1>10, <1>a DEF Diagnose, EachInPlace, TaskTypeOK
  <2>2. /\ Accepted(call)
        /\ Route(call) \in {"RESUME_SAME", "SPAWN_SUCCESSOR", "STOP"}
        /\ Route(call) # "STOP" => contract.old # new
        /\ Route(call) = "RESUME_SAME" => owner \notin gone
        /\ IF contract.old # new
             THEN Counters(call) = [contract_revision |-> 2, fix_round |-> 0,
                                    total_fix_rounds |-> fixes[1],
                                    rev1_rounds |-> fixes[1]]
             ELSE Counters(call) = [contract_revision |-> 1, fix_round |-> fixes[1],
                                    total_fix_rounds |-> fixes[1],
                                    rev1_rounds |-> fixes[1]]
    BY <1>a, <2>1, DiagnosisRoutes
  <2>3. /\ AfterRecontract(Route(call), new) /\ counters' = Counters(call)
        /\ UNCHANGED <<agreed, fixing, gone, reviewer, advisor, pending, runtime,
                       trouble, fixes, capsule, acted>>
    BY <1>10, <2>2 DEF Diagnose
  <2>4. fixes[2] = 0 /\ fixes[1] \in Nat
    BY <1>a, <2>1 DEF RoundsKept, TaskTypeOK
  <2>5. CASE Route(call) # "STOP"
    <3>1. /\ counters' \in CounterSet /\ counters'.contract_revision = 2
          /\ counters'.fix_round = 0 /\ counters'.total_fix_rounds = fixes[1]
          /\ counters'.rev1_rounds = fixes[1]
      BY <2>2, <2>3, <2>4, <2>5 DEF CounterSet
    <3>2. /\ phase' = "coding" /\ contract' = [old |-> new, new |-> new] /\ new # agreed
          /\ escalations' = escalations + 1 /\ dispatched' = dispatched + 1
      BY <2>1, <2>2, <2>3, <2>5 DEF AfterRecontract, Redispatched
    <3>6. escalations' \in 0..Breaker /\ dispatched' \in Nat
      BY <1>a, <2>1, <3>2, TaskInputs DEF TaskTypeOK, DispatchesPaid
    <3>3. RoundsKept'
      BY <2>3, <2>4, <3>1, <3>2 DEF RoundsKept, MaxRounds
    <3>4. CASE Route(call) = "RESUME_SAME"
      <4>1. /\ status' = [status EXCEPT ![owner] = "ACTIVE"] /\ owner' = owner
            /\ working' = working \union {owner}
        BY <2>3, <3>4 DEF AfterRecontract
      <4> QED
        BY <1>a, <2>1, <2>2, <2>3, <3>1, <3>2, <3>3, <3>4, <3>6, <4>1
        DEF TaskTypeOK, CoderStatuses, EachInPlace
    <3>5. CASE Route(call) = "SPAWN_SUCCESSOR"
      <4>1. Successor
        BY <2>3, <3>5 DEF AfterRecontract
      <4>2. /\ owner + 1 \in Coders /\ owner' = owner + 1
            /\ status[owner + 1] = "UNSPAWNED"
            /\ status' = [status EXCEPT ![owner + 1] = "ACTIVE"]
            /\ working' = working \union {owner + 1}
        BY <1>a, <4>1, SuccessorSpawned
      <4> QED
        BY <1>a, <2>1, <2>3, <3>1, <3>2, <3>3, <3>6, <4>2
        DEF TaskTypeOK, CoderStatuses, EachInPlace
    <3> QED
      BY <2>2, <2>5, <3>4, <3>5
  <2>6. CASE Route(call) = "STOP"
    <3>1. /\ phase' = "stopped"
          /\ UNCHANGED <<contract, escalations, dispatched, owner, status, working>>
      BY <2>3, <2>6 DEF AfterRecontract
    <3>2. counters' \in CounterSet
      BY <2>2, <2>3, <2>4 DEF CounterSet
    <3>3. RoundsKept'
      BY <1>a, <2>1, <2>2, <2>3, <2>4, <3>1 DEF RoundsKept, TaskTypeOK
    <3> QED
      BY <1>a, <2>1, <2>3, <3>1, <3>2, <3>3 DEF TaskTypeOK, Ended, EachInPlace
  <2> QED
    BY <2>5, <2>6
<1>11. CASE RuntimeFound
  BY <1>11 DEF RuntimeFound, RuntimeStates, TaskTypeOK, RoundsKept, EachInPlace
<1>12. CASE IntegrationNeedsFix
  BY <1>12 DEF IntegrationNeedsFix, TaskTypeOK, RoundsKept, EachInPlace
<1>13. CASE ResumeForIntegration
  BY <1>13, <1>a, MoveIntegration DEF ResumeForIntegration, TaskTypeOK, RoundsKept,
     EachInPlace, CoderStatuses
<1>14. CASE ReviewIntegrationFix
  <2>1. /\ phase = "shipped" /\ phase' = "shipped" /\ reviewer' = NoReviewer
        /\ status[owner] = "WAITING_AUDIT" /\ ~fixing /\ working = {}
        /\ UNCHANGED <<counters, contract, cycle, owner, working, fixing, gone,
                       rethink, advisor, runtime, trouble, fixes, dispatched, capsule>>
    BY <1>14, <1>a DEF ReviewIntegrationFix, VerdictIn, EachInPlace, TaskTypeOK
  <2>2. acted' = "current"
    BY <1>14, <1>a, ClosedReviewerIsCurrent DEF ReviewIntegrationFix, VerdictIn
  <2>3. /\ pending' \in BOOLEAN
        /\ \/ status' = [status EXCEPT ![owner] = "PARKED_REUSABLE"]
           \/ status' = [status EXCEPT ![owner] = "FIX_REQUIRED"]
    BY <1>14, <1>a, MoveShip, MoveFixFirst DEF ReviewIntegrationFix, TaskTypeOK
  <2>4. /\ reviewer' \in [status : {"NONE", "RUNNING", "DONE"},
                          verdict : Verdicts \union {"none"}, stale : BOOLEAN]
        /\ reviewer'.status = "NONE"
    BY <2>1 DEF NoReviewer
  <2> QED
    <3>1. TaskTypeOK'
      BY <1>a, <2>1, <2>2, <2>3, <2>4 DEF TaskTypeOK, CoderStatuses
    <3>2. RoundsKept' /\ EachInPlace'
      BY <1>a, <2>1, <2>3, <2>4 DEF TaskTypeOK, RoundsKept, EachInPlace
    <3>3. status'[owner] # "CLOSED" /\ phase' = phase
      BY <1>a, <2>1, <2>3 DEF TaskTypeOK
    <3> QED
      BY <2>1, <2>2, <3>1, <3>2, <3>3
<1>15. ASSUME NEW c \in Coders, NEW oldest \in Flags, SlotPressure(c, oldest)
       PROVE  LoopInv'
  <2>1. status[c] = "PARKED_REUSABLE" /\ phase = "shipped" /\ ~pending
    BY <1>15 DEF SlotPressure, DecideCoder, Decide, DecideFailClosed, DecideEviction
  <2> QED
    BY <1>15, <2>1 DEF SlotPressure, TaskTypeOK, RoundsKept, EachInPlace
<1>16. ASSUME NEW c \in Coders, CoderDies(c) PROVE LoopInv'
  BY <1>16, TaskInputs DEF CoderDies, Trouble, TaskTypeOK, RoundsKept, EachInPlace
<1>17. CASE DiffChanges
  <2>1. /\ reviewer' \in [status : {"NONE", "RUNNING", "DONE"},
                          verdict : Verdicts \union {"none"}, stale : BOOLEAN]
        /\ reviewer'.status = reviewer.status /\ reviewer'.verdict = reviewer.verdict
    BY <1>17, <1>a DEF DiffChanges, TaskTypeOK
  <2> QED
    BY <1>17, <2>1, TaskInputs DEF DiffChanges, Trouble, TaskTypeOK, RoundsKept,
       EachInPlace
<1>18. ASSUME NEW state \in {"unknown", "stale"}, RuntimeLost(state) PROVE LoopInv'
  BY <1>18, TaskInputs DEF RuntimeLost, Trouble, RuntimeStates, TaskTypeOK, RoundsKept,
     EachInPlace
<1>19. ASSUME NEW new \in Contracts, ContractDrifts(new) PROVE LoopInv'
  BY <1>19 DEF ContractDrifts, TaskTypeOK, RoundsKept, EachInPlace
<1>20. CASE UNCHANGED vars
  BY <1>20 DEF vars, TaskTypeOK, RoundsKept, EachInPlace
<1>21. ASSUME NEW new \in Contracts, UserSettles(new) PROVE LoopInv'
  <2>1. /\ phase = "escalated" /\ escalations < Breaker
        /\ status[owner] = "PARKED_FOR_RETHINK" /\ working = {} /\ ~fixing /\ ~pending
        /\ reviewer.status = "NONE" /\ counters.contract_revision = 2
        /\ contract.old # agreed
    BY <1>21, <1>a DEF UserSettles, EachInPlace, RoundsKept, TaskTypeOK
  <2>2. /\ owner + 1 \in Coders /\ owner' = owner + 1
        /\ status[owner + 1] = "UNSPAWNED"
        /\ status' = [status EXCEPT ![owner + 1] = "ACTIVE"]
        /\ working' = working \union {owner + 1}
    BY <1>21, <1>a, SuccessorSpawned DEF UserSettles
  <2>3. /\ phase' = "coding" /\ contract' = [old |-> new, new |-> new] /\ agreed' = new
        /\ counters' = [contract_revision |-> 1, fix_round |-> 0,
                        total_fix_rounds |-> 0, rev1_rounds |-> None]
        /\ dispatched' = dispatched + 1 /\ fixes' = [r \in 1..2 |-> 0] /\ capsule' = None
        /\ UNCHANGED <<escalations, fixing, gone, reviewer, rethink, advisor, pending,
                       runtime, trouble, acted>>
    BY <1>21 DEF UserSettles
  <2>4. RoundsKept'
    BY <2>1, <2>2, <2>3, <1>a DEF RoundsKept, MaxRounds, TaskTypeOK
  <2>5. ContractOfRevision' /\ dispatched' \in Nat
    BY <1>a, <2>1, <2>3 DEF TaskTypeOK
  <2>6. counters' \in CounterSet
    BY <2>3 DEF CounterSet
  <2>7. TaskTypeOK'
    BY <1>a, <2>2, <2>3, <2>5, <2>6 DEF TaskTypeOK, CoderStatuses
  <2>8. EachInPlace'
    BY <1>a, <2>1, <2>2, <2>3 DEF TaskTypeOK, EachInPlace
  <2> QED
    BY <2>1, <2>3, <2>4, <2>5, <2>7, <2>8
<1> QED
  BY <1>1, <1>2, <1>3, <1>4, <1>5, <1>6, <1>7, <1>8, <1>9, <1>10, <1>11, <1>12,
     <1>13, <1>14, <1>15, <1>16, <1>17, <1>18, <1>19, <1>20, <1>21
  DEF Next, Progress, Environment

(* The first contract of a cycle is free, the second one costs an          *)
(* escalation, and only Diagnose and UserSettles dispatch a contract.      *)
LEMMA DispatchesNext == TaskInv /\ [Next]_vars => DispatchesPaid'
<1> SUFFICES ASSUME LoopInv, DispatchesPaid, [Next]_vars PROVE DispatchesPaid'
  BY DEF TaskInv
<1>1. /\ dispatched \in Nat /\ escalations \in 0..Breaker /\ Breaker \in Nat
      /\ contract \in [old : Contracts, new : Contracts]
  BY TaskInputs DEF LoopInv, TaskTypeOK
<1>2. ASSUME UNCHANGED <<cycle, dispatched>>, contract'.old = contract.old
      PROVE  DispatchesPaid'
  BY <1>2 DEF DispatchesPaid, cycle
<1>3. ASSUME NEW new \in Contracts, UserSettles(new) PROVE DispatchesPaid'
  <2>1. contract.old # agreed
    BY <1>3 DEF UserSettles, LoopInv, Claims, ContractOfRevision, EachInPlace
  <2>2. /\ escalations < Breaker /\ contract'.old = agreed'
        /\ dispatched' = dispatched + 1 /\ escalations' = escalations
    BY <1>3 DEF UserSettles
  <2> QED
    BY <1>1, <2>1, <2>2 DEF DispatchesPaid
<1>4. ASSUME NEW new \in Contracts, NEW available \in Flags,
             NEW unavailability \in {"none", "runtime_gone"},
             NEW continuity \in Continuities, NEW boundary \in Flags,
             Diagnose(new, available, unavailability, continuity, boundary)
      PROVE  DispatchesPaid'
  <2> DEFINE call == DiagnosisCall(new, available, unavailability, continuity, boundary)
  <2>1. phase = "rethinking" /\ contract.old = agreed
    BY <1>4 DEF Diagnose, LoopInv, EachInPlace, ContractOfRevision
  <2>2. Accepted(call) /\ (Route(call) # "STOP" => contract.old # new)
    BY <1>4, <2>1, DiagnosisRoutes DEF Diagnose, LoopInv
  <2>3. AfterRecontract(Route(call), new) /\ agreed' = agreed
    BY <1>4, <2>2 DEF Diagnose
  <2>4. CASE Route(call) # "STOP"
    <3>1. /\ contract'.old = new /\ new # agreed
          /\ escalations' = escalations + 1 /\ dispatched' = dispatched + 1
      BY <2>1, <2>2, <2>3, <2>4 DEF AfterRecontract, Redispatched
    <3> QED
      BY <1>1, <2>1, <2>3, <3>1 DEF DispatchesPaid
  <2>5. CASE Route(call) = "STOP"
    BY <1>2, <2>3, <2>5 DEF AfterRecontract, cycle
  <2> QED
    BY <2>4, <2>5
<1>5. ASSUME NEW new \in Contracts, ContractDrifts(new) PROVE DispatchesPaid'
  BY <1>1, <1>2, <1>5 DEF ContractDrifts, history
<1> QED
  BY <1>2, <1>3, <1>4, <1>5
  DEF Next, Progress, Environment, vars, coding, history, AdvisorAnswers,
      ConsultAdvisor, StartCoding, FinishWork, StartAudit, ReviewerAnswers,
      ReplaceReviewer, RouteReview, DispatchFix, RuntimeFound, IntegrationNeedsFix,
      ResumeForIntegration, ReviewIntegrationFix, SlotPressure, CoderDies,
      DiffChanges, RuntimeLost
-----------------------------------------------------------------------------
(* The invariant holds in every reachable state.                           *)
LEMMA TaskInvariant == Spec => []TaskInv
<1>1. TaskInv /\ [Next]_vars => TaskInv'
  BY LoopNext, DispatchesNext DEF TaskInv
<1> QED
  BY <1>1, TaskInit, PTL DEF Spec

(* TaskTypeOK holds in every reachable state; above all, there is never a  *)
(* revision 3 of a contract.                                               *)
THEOREM TaskTypeCorrect == Spec => []TaskTypeOK
<1>1. TaskInv => TaskTypeOK
  BY DEF TaskInv, LoopInv
<1> QED
  BY <1>1, TaskInvariant, PTL

(* route_task accepts every call of an honest main session.                *)
THEOREM HonestCallsAreAccepted == Spec => []HonestCallsAccepted
<1>1. TaskInv => HonestCallsAccepted
  BY DEF TaskInv, LoopInv, Claims
<1> QED
  BY <1>1, TaskInvariant, PTL

(* Two coders never write for one task, however many troubles there are.   *)
THEOREM OneCoderWrites == Spec => []OneWriter
<1>1. TaskInv => OneWriter
  BY DEF TaskInv, LoopInv, EachInPlace, OneWriter
<1> QED
  BY <1>1, TaskInvariant, PTL

(* A task ships only under a contract that was agreed on.                  *)
THEOREM ShippedAsAgreed == Spec => []ShipsAgreedContract
<1>1. TaskInv => ShipsAgreedContract
  BY DEF TaskInv, LoopInv, Claims
<1> QED
  BY <1>1, TaskInvariant, PTL

(* Three fix rounds under each contract, and two contracts for each        *)
(* escalation the breaker allows, whatever the user settles in between.    *)
THEOREM EffortIsBounded == Spec => []BoundedEffort
<1>1. TaskInv => BoundedEffort
  <2> SUFFICES ASSUME TaskInv PROVE BoundedEffort
    OBVIOUS
  <2>1. dispatched \in Nat /\ escalations \in 0..Breaker /\ Breaker \in Nat
    BY TaskInputs DEF TaskInv, LoopInv, TaskTypeOK
  <2>2. dispatched <= 2 * Breaker
    BY <2>1 DEF TaskInv, DispatchesPaid
  <2> QED
    BY <2>2 DEF TaskInv, LoopInv, RoundsKept, BoundedEffort
<1> QED
  BY <1>1, TaskInvariant, PTL

(* The capsule of an escalation reports the rounds really made, whatever   *)
(* the session reported.                                                   *)
THEOREM EscalationIsTrue == Spec => []EscalationTellsHistory
<1>1. TaskInv => EscalationTellsHistory
  BY DEF TaskInv, LoopInv, Claims
<1> QED
  BY <1>1, TaskInvariant, PTL

(* No verdict on an old diff is acted on.                                  *)
THEOREM VerdictsAreOfTheDiff == Spec => []VerdictsAreCurrent
<1>1. TaskInv => VerdictsAreCurrent
  BY DEF TaskInv, LoopInv, Claims
<1> QED
  BY <1>1, TaskInvariant, PTL

(* No coder is evicted while the integration reviewer waits for its fix.   *)
THEOREM NeededCoderStays == Spec => []PendingFixHasItsCoder
<1>1. TaskInv => PendingFixHasItsCoder
  BY DEF TaskInv, LoopInv, Claims
<1> QED
  BY <1>1, TaskInvariant, PTL

(* A parked coder is left alone until a diagnosis is done or the user has  *)
(* settled a new plan: its status                                          *)
(* disables every action that would resume, replace or close it.           *)
THEOREM ParkedIsLeftAlone == Spec => ParkedUntilDiagnosis
<1> DEFINE Alone == UNCHANGED <<owner, status>> /\ working' \subseteq working
<1>1. TaskInv /\ [Next]_vars =>
        (phase' = phase /\ phase \in {"rethinking", "escalated"} => Alone)
  <2> SUFFICES ASSUME TaskInv, [Next]_vars, phase' = phase,
                      phase \in {"rethinking", "escalated"}
               PROVE  Alone
    OBVIOUS
  <2>0. /\ TaskTypeOK /\ status[owner] = "PARKED_FOR_RETHINK" /\ ~pending
        /\ owner \notin working /\ reviewer.status = "NONE"
    BY DEF TaskInv, LoopInv, EachInPlace
  <2>1. /\ ~StartCoding /\ ~ReviewIntegrationFix /\ ~ResumeForIntegration
        /\ \A rounds : ~RouteReview(rounds)
        /\ \A new : ~UserSettles(new)
    BY <2>0 DEF StartCoding, RouteReview, ReviewIntegrationFix, ResumeForIntegration,
       UserSettles
  <2>2. ~FinishWork
    BY <2>0 DEF FinishWork
  <2>3. CASE StartAudit
    BY <2>0, <2>3, MoveAudit DEF StartAudit
  <2>4. ASSUME NEW available \in Flags, NEW unavailability \in {"none", "runtime_gone"},
               DispatchFix(available, unavailability)
        PROVE  Alone
    BY <2>0, <2>4, FixDispatch DEF DispatchFix
  <2>5. ASSUME NEW new \in Contracts, NEW available \in Flags,
               NEW unavailability \in {"none", "runtime_gone"},
               NEW continuity \in Continuities, NEW boundary \in Flags,
               Diagnose(new, available, unavailability, continuity, boundary)
        PROVE  Alone
    BY <2>5 DEF Diagnose, AfterRecontract, Redispatched
  <2>6. ASSUME NEW c \in Coders, NEW oldest \in Flags, SlotPressure(c, oldest)
        PROVE  Alone
    BY <2>6 DEF SlotPressure, DecideCoder, Decide, DecideFailClosed, DecideEviction
  <2>7. ASSUME NEW c \in Coders, CoderDies(c) PROVE Alone
    BY <2>7 DEF CoderDies
  <2>8. CASE UNCHANGED coding
    BY <2>8 DEF coding
  <2> QED
    BY <2>1, <2>2, <2>3, <2>4, <2>5, <2>6, <2>7, <2>8
    DEF Next, Progress, Environment, vars, AdvisorAnswers, ConsultAdvisor,
        ReviewerAnswers, ReplaceReviewer, RuntimeFound, IntegrationNeedsFix,
        DiffChanges, RuntimeLost, ContractDrifts
<1> QED
  BY <1>1, TaskInvariant, PTL DEF Spec, ParkedUntilDiagnosis
=============================================================================
