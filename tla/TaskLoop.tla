------------------------------ MODULE TaskLoop ------------------------------
(***************************************************************************)
(* One task under review: its advisor, its coders, its reviewers and the   *)
(* main session that calls agent_lifecycle.py and task_convergence.py and  *)
(* does what they answer.                                                  *)
(*                                                                         *)
(* The scripts keep no state: the main session holds the counters of the   *)
(* last result, the contract the task was dispatched under and the one it  *)
(* has now.  It is honest: it counts a fix round when the fix is complete, *)
(* reports an agent as available or gone only when that was observed, and  *)
(* parks the coder before it asks for an escalation.  The rounds it writes *)
(* into the report of an escalation may be wrong.                          *)
(*                                                                         *)
(* An escalation goes to the user.  Once a new plan is settled the task is *)
(* dispatched again, at revision 1 and round 0: another cycle of calls.    *)
(*                                                                         *)
(* fixes, dispatched, capsule and acted are history variables: the fix     *)
(* rounds made under each revision of this cycle, the contracts the task   *)
(* was dispatched under so far, the rounds an escalation reported, and     *)
(* whether the diff a verdict was acted on was the one reviewed.           *)
(***************************************************************************)
EXTENDS TaskConvergence, AgentLifecycle

CONSTANTS
  Contracts,   \* material contracts; 0 is the one first agreed on
  Breaker,     \* escalations after which nobody dispatches the task again
  MaxCoders,   \* bound: coders that can be spawned for the task
  MaxTrouble   \* bound: agents lost, diffs changed, runtimes out of reach

ASSUME TaskInputs ==
  /\ 0 \in Contracts /\ None \notin Int
  /\ None \notin [revision_rounds : Nat \X Nat, freshness : {"fresh"},
                  coder_status : {"PARKED_FOR_RETHINK"}]
  /\ Breaker \in Nat \ {0} /\ MaxCoders \in Nat \ {0} /\ MaxTrouble \in Nat

VARIABLES
  phase,      \* what the main session does with the task
  counters,   \* revision, rounds: the counters of the last result
  contract,   \* the contract dispatched and the one the task has now
  agreed,     \* the contract this cycle began with
  escalations, \* rethinks that dispatched the task again, as the ledger has it
  owner,      \* the coder of the task
  status,     \* the lifecycle status of each coder
  working,    \* the coders that are writing
  fixing,     \* the work under way is a fix round
  gone,       \* the coders whose runtime has ended
  reviewer,   \* the task reviewer: status, verdict, and if the diff changed
  rethink,    \* the verdict that made the task enter rethink
  advisor,    \* the terminal of the commitment-boundary advisor
  pending,    \* the integration reviewer wants a fix of the task
  runtime,    \* whether the states of the agents can be read
  trouble,    \* troubles so far
  fixes, dispatched, capsule, acted

coding  == <<owner, status, working, fixing, gone>>
cycle   == <<agreed, escalations>>
history == <<fixes, dispatched, capsule, acted>>
vars == <<phase, counters, contract, cycle, coding, reviewer, rethink, advisor,
          pending, runtime, trouble, history>>

Coders == 1..MaxCoders
Ended  == {"shipped", "stopped", "escalated"}
CounterSet ==
  [contract_revision : 1..2, fix_round : Nat,
   total_fix_rounds : Nat, rev1_rounds : Nat \union {None}]
NoReviewer == [status |-> "NONE", verdict |-> "none", stale |-> FALSE]
FreshReviewer == [status |-> "RUNNING", verdict |-> "none", stale |-> FALSE]

TaskTypeOK ==
  /\ phase \in {"advising", "coding", "rethinking", "rejected"} \union Ended
  /\ counters \in CounterSet
  /\ contract \in [old : Contracts, new : Contracts]
  /\ agreed \in Contracts /\ escalations \in 0..Breaker
  /\ owner \in Coders
  /\ status \in [Coders -> CoderStatuses \union {"CLOSED"}]
  /\ working \subseteq Coders /\ gone \subseteq Coders
  /\ fixing \in BOOLEAN /\ pending \in BOOLEAN
  /\ reviewer \in [status : {"NONE", "RUNNING", "DONE"},
                   verdict : Verdicts \union {"none"}, stale : BOOLEAN]
  /\ rethink \in Verdicts \union {"none"}
  /\ advisor \in Terminals \union {"none"}
  /\ runtime \in RuntimeStates
  /\ trouble \in 0..MaxTrouble
  /\ fixes \in [1..2 -> Nat] /\ dispatched \in Nat
  /\ capsule \in {None} \union (Nat \X Nat)
  /\ acted \in {"nothing", "current", "old"}

Init ==
  /\ phase = "advising"
  /\ counters = [contract_revision |-> 1, fix_round |-> 0,
                 total_fix_rounds |-> 0, rev1_rounds |-> None]
  /\ contract = [old |-> 0, new |-> 0]
  /\ agreed = 0 /\ escalations = 0
  /\ owner = 1
  /\ status = [c \in Coders |-> "UNSPAWNED"]
  /\ working = {} /\ gone = {}
  /\ fixing = FALSE /\ pending = FALSE
  /\ reviewer = NoReviewer
  /\ rethink = "none"
  /\ advisor = "none"
  /\ runtime = "known"
  /\ trouble = 0
  /\ fixes = [r \in 1..2 |-> 0] /\ dispatched = 1
  /\ capsule = None
  /\ acted = "nothing"
-----------------------------------------------------------------------------
\* The status of a coder moves only along the table of agent_lifecycle.py.
Move(c, event) ==
  \E next \in CoderStatuses :
    Transition(status[c], event, next) /\ status' = [status EXCEPT ![c] = next]

AdvisorAnswers(t) ==
  /\ phase = "advising" /\ advisor = "none"
  /\ advisor' = t
  /\ UNCHANGED <<phase, counters, contract, cycle, coding, reviewer, rethink, pending,
                 runtime, trouble, history>>

\* A wait that timed out, or nothing observed: what to do with the advisor.
ConsultAdvisor(event) ==
  LET action == Decide(runtime, event, advisor, DecideAdvisor(event, advisor))
  IN /\ phase = "advising"
     /\ action \in {"CLOSE_ALLOWED", "STOP"}
     /\ phase' = IF action = "STOP" THEN "stopped" ELSE "coding"
     /\ advisor' = "none"
     /\ UNCHANGED <<counters, contract, cycle, coding, reviewer, rethink, pending,
                    runtime, trouble, history>>

StartCoding ==
  /\ phase = "coding"
  /\ Move(owner, "spawn")
  /\ working' = working \union {owner}
  /\ UNCHANGED <<phase, counters, contract, cycle, owner, fixing, gone, reviewer,
                 rethink, advisor, pending, runtime, trouble, history>>

\* The caller counts a fix round of the task; one for the integration
\* reviewer belongs to no revision.
CountFix ==
  IF fixing /\ phase = "coding"
    THEN /\ counters' = [counters EXCEPT !.fix_round = @ + 1,
                                         !.total_fix_rounds = @ + 1]
         /\ fixes' = [fixes EXCEPT ![counters.contract_revision] = @ + 1]
    ELSE UNCHANGED <<counters, fixes>>

FinishWork ==
  /\ owner \in working
  /\ Move(owner, "verification_started") \/ Move(owner, "fix_complete")
  /\ working' = working \ {owner}
  /\ fixing' = FALSE
  /\ CountFix
  /\ UNCHANGED <<phase, contract, cycle, owner, gone, reviewer, rethink, advisor,
                 pending, runtime, trouble, dispatched, capsule, acted>>

StartAudit ==
  /\ Move(owner, "audit_started")
  /\ reviewer' = FreshReviewer
  /\ UNCHANGED <<phase, counters, contract, cycle, owner, working, fixing, gone,
                 rethink, advisor, pending, runtime, trouble, history>>

ReviewerAnswers(v) ==
  /\ reviewer.status = "RUNNING"
  /\ reviewer' = [reviewer EXCEPT !.status = "DONE", !.verdict = v]
  /\ UNCHANGED <<phase, counters, contract, cycle, coding, rethink, advisor, pending,
                 runtime, trouble, history>>

ReviewerAction ==
  Decide(runtime, IF reviewer.stale THEN "diff_changed" ELSE "", "none",
         DecideReviewer(reviewer.status, IF reviewer.stale THEN "diff_changed" ELSE ""))

ReplaceReviewer ==
  /\ reviewer.status # "NONE"
  /\ ReviewerAction = "SPAWN_FRESH_REVIEWER"
  /\ reviewer' = FreshReviewer
  /\ UNCHANGED <<phase, counters, contract, cycle, coding, rethink, advisor, pending,
                 runtime, trouble, history>>

\* The call after a review.  For an escalation the coder is parked first and
\* the session reports the rounds of each revision, as it remembers them.
ReviewCall(rounds) ==
  LET plain == [contract_revision |-> counters.contract_revision,
                fix_round |-> counters.fix_round,
                total_fix_rounds |-> counters.total_fix_rounds,
                rev1_rounds |-> counters.rev1_rounds,
                review_verdict |-> reviewer.verdict,
                original_coder_available |-> "unknown",
                implementer_continuity |-> "preserve",
                old_contract |-> contract.old, new_contract |-> contract.new,
                diagnosis_complete |-> FALSE,
                responsibility_boundary_changed |-> "unknown",
                coder_unavailability |-> "none",
                prior_route |-> "none", coder_status |-> "none",
                failure_context |-> None]
      context == [revision_rounds |-> rounds,
                  freshness |-> "fresh", coder_status |-> "PARKED_FOR_RETHINK"]
  IN IF Escalates(plain) THEN [plain EXCEPT !.failure_context = context] ELSE plain

\* What the main session does with the coder after a review.
AfterReview(route) ==
  \/ /\ route = "CONTINUE_FIX"
     /\ Move(owner, "fix_first") /\ phase' = phase
  \/ /\ route = "SHIP"
     /\ DecideCoder(runtime, status[owner], "ship", DecideShip(status[owner])) = "PARK"
     /\ Move(owner, "ship") /\ phase' = "shipped"
  \/ /\ route = "ENTER_RETHINK"
     /\ status' = [status EXCEPT ![owner] = "PARKED_FOR_RETHINK"]
     /\ phase' = "rethinking"
  \/ /\ route = "TASK_ESCALATION_REQUIRED"
     /\ status' = [status EXCEPT ![owner] = "PARKED_FOR_RETHINK"]
     /\ phase' = "escalated"
  \/ /\ route = "STOP"
     /\ phase' = "stopped" /\ UNCHANGED status

\* The reviewer may be closed, so its verdict is acted on.
VerdictIn ==
  /\ reviewer.status = "DONE"
  /\ ReviewerAction = "CLOSE_ALLOWED"
  /\ reviewer' = NoReviewer
  /\ acted' = IF reviewer.stale THEN "old" ELSE "current"

\* A refused report of other rounds than the counters' changes nothing, and
\* the session reports again; any other refusal leaves it without a route.
RouteReview(rounds) ==
  /\ phase = "coding" /\ VerdictIn
  /\ LET call == ReviewCall(rounds)
     IN \/ /\ Accepted(call)
           /\ AfterReview(Route(call))
           /\ counters' = Counters(call)
           /\ rethink' = IF Route(call) = "ENTER_RETHINK"
                           THEN reviewer.verdict ELSE rethink
           /\ capsule' = IF Route(call) = "TASK_ESCALATION_REQUIRED"
                           THEN Capsule(call) ELSE capsule
        \/ /\ ~Accepted(call)
           /\ Escalates(call) => rounds = <<call.rev1_rounds, call.fix_round>>
           /\ phase' = "rejected"
           /\ UNCHANGED <<status, counters, rethink, capsule>>
  /\ UNCHANGED <<contract, cycle, owner, working, fixing, gone, advisor, pending,
                 runtime, trouble, fixes, dispatched>>

\* What an honest caller may say of a coder.
Observed(c, available, unavailability) ==
  \/ available = "unknown" /\ unavailability = "none"
  \/ /\ runtime = "known" /\ c \notin gone
     /\ available = "yes" /\ unavailability = "none"
  \/ /\ runtime = "known" /\ c \in gone
     /\ available \in {"no", "unknown"} /\ unavailability = "runtime_gone"

Successor ==
  /\ owner < MaxCoders
  /\ owner' = owner + 1
  /\ \E next \in CoderStatuses :
       /\ Transition(status[owner + 1], "spawn", next)
       /\ status' = [status EXCEPT ![owner + 1] = next]
  /\ working' = working \union {owner + 1}

\* After a fix-first verdict, and again while the fix is under way.
DispatchFix(available, unavailability) ==
  LET action == DecideCoder(runtime, status[owner], "fix_first",
                            DecideFixFirst(available, unavailability))
  IN /\ status[owner] \in {"FIX_REQUIRED", "PARKED_FOR_RETHINK"}
     /\ Observed(owner, available, unavailability)
     /\ \/ /\ action = "RESUME_SAME"
           /\ working' = working \union {owner}
           /\ UNCHANGED <<owner, status>>
        \/ action = "SPAWN_SUCCESSOR" /\ Successor
     /\ fixing' = TRUE
     /\ UNCHANGED <<phase, counters, contract, cycle, gone, reviewer, rethink, advisor,
                    pending, runtime, trouble, history>>

DiagnosisCall(new, available, unavailability, continuity, boundary) ==
  [contract_revision |-> counters.contract_revision,
   fix_round |-> counters.fix_round,
   total_fix_rounds |-> counters.total_fix_rounds,
   rev1_rounds |-> counters.fix_round,
   review_verdict |-> rethink,
   original_coder_available |-> available,
   implementer_continuity |-> continuity,
   old_contract |-> contract.old, new_contract |-> new,
   diagnosis_complete |-> TRUE,
   responsibility_boundary_changed |-> boundary,
   coder_unavailability |-> unavailability,
   prior_route |-> "ENTER_RETHINK", coder_status |-> status[owner],
   failure_context |-> None]

\* A rethink that dispatches the task again counts as an escalation.
Redispatched(new) ==
  /\ phase' = "coding"
  /\ contract' = [old |-> new, new |-> new]
  /\ escalations' = escalations + 1
  /\ dispatched' = dispatched + 1

AfterRecontract(route, new) ==
  \/ /\ route = "RESUME_SAME"
     /\ status' = [status EXCEPT ![owner] = "ACTIVE"]
     /\ working' = working \union {owner}
     /\ Redispatched(new)
     /\ UNCHANGED owner
  \/ /\ route = "SPAWN_SUCCESSOR"
     /\ Successor
     /\ Redispatched(new)
  \/ /\ route = "STOP"
     /\ phase' = "stopped"
     /\ UNCHANGED <<contract, escalations, dispatched, owner, status, working>>

Diagnose(new, available, unavailability, continuity, boundary) ==
  /\ phase = "rethinking"
  /\ Observed(owner, available, unavailability)
  /\ rethink' = "none"
  /\ LET call == DiagnosisCall(new, available, unavailability, continuity, boundary)
     IN IF Accepted(call)
          THEN AfterRecontract(Route(call), new) /\ counters' = Counters(call)
          ELSE /\ phase' = "rejected"
               /\ UNCHANGED <<counters, contract, escalations, dispatched, owner,
                              status, working>>
  /\ UNCHANGED <<agreed, fixing, gone, reviewer, advisor, pending, runtime, trouble,
                 fixes, capsule, acted>>

\* The user settles what the escalation left open and the task is dispatched
\* again, to a fresh coder and with fresh counters, until the breaker opens.
UserSettles(new) ==
  /\ phase = "escalated" /\ escalations < Breaker
  /\ Successor
  /\ phase' = "coding"
  /\ contract' = [old |-> new, new |-> new] /\ agreed' = new
  /\ counters' = [contract_revision |-> 1, fix_round |-> 0,
                  total_fix_rounds |-> 0, rev1_rounds |-> None]
  /\ dispatched' = dispatched + 1
  /\ fixes' = [r \in 1..2 |-> 0]
  /\ capsule' = None
  /\ UNCHANGED <<escalations, fixing, gone, reviewer, rethink, advisor, pending,
                 runtime, trouble, acted>>

\* After ship: the integration reviewer wants a fix of this task.
IntegrationNeedsFix ==
  /\ phase = "shipped" /\ status[owner] = "PARKED_REUSABLE" /\ ~pending
  /\ pending' = TRUE
  /\ UNCHANGED <<phase, counters, contract, cycle, coding, reviewer, rethink, advisor,
                 runtime, trouble, history>>

ResumeForIntegration ==
  /\ pending /\ owner \notin gone
  /\ DecideCoder(runtime, status[owner], "integration_fix_needed",
                 DecideIntegrationFix(status[owner])) = "RESUME_SAME"
  /\ Move(owner, "integration_fix_needed")
  /\ working' = working \union {owner}
  /\ fixing' = TRUE
  /\ UNCHANGED <<phase, counters, contract, cycle, owner, gone, reviewer, rethink,
                 advisor, pending, runtime, trouble, history>>

ReviewIntegrationFix ==
  /\ phase = "shipped" /\ VerdictIn
  /\ IF reviewer.verdict = "ship"
       THEN /\ DecideCoder(runtime, status[owner], "ship", DecideShip(status[owner]))
                 = "PARK"
            /\ Move(owner, "ship") /\ pending' = FALSE
       ELSE Move(owner, "fix_first") /\ UNCHANGED pending
  /\ UNCHANGED <<phase, counters, contract, cycle, owner, working, fixing, gone,
                 rethink, advisor, runtime, trouble, fixes, dispatched,
                 capsule>>

\* Slots are short: any coder may be asked for.
SlotPressure(c, oldest) ==
  /\ DecideCoder(runtime, status[c], "slot_pressure",
       DecideEviction(status[c], oldest,
                      IF phase = "shipped" THEN "yes" ELSE "no",
                      IF pending THEN "yes" ELSE "no")) = "CLOSE_ALLOWED"
  /\ status' = [status EXCEPT ![c] = "CLOSED"]
  /\ UNCHANGED <<phase, counters, contract, cycle, owner, working, fixing, gone,
                 reviewer, rethink, advisor, pending, runtime, trouble, history>>

Trouble == trouble < MaxTrouble /\ trouble' = trouble + 1

CoderDies(c) ==
  /\ Trouble
  /\ status[c] # "UNSPAWNED" /\ c \notin gone
  /\ gone' = gone \union {c}
  /\ working' = working \ {c}
  /\ UNCHANGED <<phase, counters, contract, cycle, owner, status, fixing, reviewer,
                 rethink, advisor, pending, runtime, history>>

\* Somebody else changes the diff under review.
DiffChanges ==
  /\ Trouble
  /\ reviewer.status # "NONE"
  /\ reviewer' = [reviewer EXCEPT !.stale = TRUE]
  /\ UNCHANGED <<phase, counters, contract, cycle, coding, rethink, advisor, pending,
                 runtime, history>>

RuntimeLost(state) ==
  /\ Trouble
  /\ runtime = "known"
  /\ runtime' = state
  /\ UNCHANGED <<phase, counters, contract, cycle, coding, reviewer, rethink, advisor,
                 pending, history>>

RuntimeFound ==
  /\ runtime # "known"
  /\ runtime' = "known"
  /\ UNCHANGED <<phase, counters, contract, cycle, coding, reviewer, rethink, advisor,
                 pending, trouble, history>>

\* The contract of a task is rewritten without a re-contract.
ContractDrifts(new) ==
  /\ phase = "coding"
  /\ contract' = [contract EXCEPT !.new = new]
  /\ UNCHANGED <<phase, counters, cycle, coding, reviewer, rethink, advisor, pending,
                 runtime, trouble, history>>

\* What the main session and the agents do to get the task done.
Progress ==
  \/ \E t \in Terminals : AdvisorAnswers(t)
  \/ \E event \in {"", "wait_observation_timeout"} : ConsultAdvisor(event)
  \/ StartCoding
  \/ FinishWork
  \/ StartAudit
  \/ \E v \in Verdicts : ReviewerAnswers(v)
  \/ ReplaceReviewer
  \/ \E rounds \in (0..MaxRounds) \X (0..MaxRounds) : RouteReview(rounds)
  \/ \E available \in Flags, unavailability \in {"none", "runtime_gone"} :
       DispatchFix(available, unavailability)
  \/ \E new \in Contracts, available \in Flags,
        unavailability \in {"none", "runtime_gone"},
        continuity \in Continuities, boundary \in Flags :
       Diagnose(new, available, unavailability, continuity, boundary)
  \/ RuntimeFound

\* What may happen meanwhile, or after the task has shipped or escalated.
Environment ==
  \/ \E new \in Contracts : UserSettles(new)
  \/ IntegrationNeedsFix
  \/ ResumeForIntegration
  \/ ReviewIntegrationFix
  \/ \E c \in Coders, oldest \in Flags : SlotPressure(c, oldest)
  \/ \E c \in Coders : CoderDies(c)
  \/ DiffChanges
  \/ \E state \in {"unknown", "stale"} : RuntimeLost(state)
  \/ \E new \in Contracts : ContractDrifts(new)

Next == Progress \/ Environment

Spec == Init /\ [][Next]_vars

\* The main session goes on, its agents answer, and the runtime comes back.
FairSpec == Spec /\ WF_vars(Progress)
-----------------------------------------------------------------------------
(* An honest main session is never refused: the counters route_task gives  *)
(* back, with the rounds counted in between, are accepted by its next      *)
(* call, whatever the verdicts, in both revisions.                         *)
HonestCallsAccepted == phase # "rejected"

(* At most one coder writes for the task, although two scripts decide      *)
(* about successors and agents can be lost at any time.                    *)
OneWriter == \A c, d \in working : c = d

(* A task ships under the contract it was dispatched with: the one agreed  *)
(* on at first or with the user after an escalation, or one that a         *)
(* diagnosis changed after a rethink, and no other.                        *)
ShipsAgreedContract ==
  phase = "shipped" =>
    /\ contract.new = contract.old
    /\ (contract.old = agreed) <=> (counters.contract_revision = 1)

(* Nobody makes more than three fix rounds under one contract, and the     *)
(* task is dispatched under at most two contracts for each escalation the  *)
(* breaker allows, although the user sets the counters of route_task back  *)
(* to zero after an escalation and the script remembers no call.           *)
BoundedEffort ==
  /\ \A r \in 1..2 : fixes[r] <= MaxRounds
  /\ dispatched <= 2 * Breaker

(* The capsule of an escalation reports the rounds really made under each  *)
(* of its contracts, whatever rounds the session wrote into its report and *)
(* whatever was lost, replaced or fixed since the first dispatch.          *)
EscalationTellsHistory == phase = "escalated" => capsule = <<fixes[1], fixes[2]>>

(* A verdict on a diff that has changed since is never acted on, whenever  *)
(* the change comes and whatever the runtime shows.                        *)
VerdictsAreCurrent == acted # "old"

(* A coder the integration reviewer still needs has not been evicted.      *)
PendingFixHasItsCoder == pending => status[owner] # "CLOSED"

(* A coder parked for rethink, or by an escalation, is left alone until a  *)
(* diagnosis is done or the user has settled a new plan, although its      *)
(* verdict may have been fix-first.                                        *)
ParkedUntilDiagnosis ==
  [][phase' = phase /\ phase \in {"rethinking", "escalated"} =>
       UNCHANGED <<owner, status>> /\ working' \subseteq working]_vars

(* The task ends: it ships, stops or goes to the user, and does so again   *)
(* after every plan the user settles, unless its coder was lost while it   *)
(* was active, for which agent_lifecycle.py has no event.                  *)
LostWhileActive == owner \in gone /\ status[owner] = "ACTIVE"
TaskEnds == []<>(phase \in Ended \/ LostWhileActive)

(* Between the calls: the counters are the rounds made, and a fix round is *)
(* under way only when one more is allowed.                                *)
RoundsKept ==
  /\ counters.contract_revision = 1 =>
       /\ counters.fix_round = fixes[1] /\ counters.total_fix_rounds = fixes[1]
       /\ phase # "stopped" => counters.rev1_rounds = None
       /\ fixes[2] = 0
  /\ counters.contract_revision = 2 =>
       /\ counters.rev1_rounds = fixes[1] /\ counters.fix_round = fixes[2]
       /\ counters.total_fix_rounds = fixes[1] + fixes[2]
  /\ fixes[1] <= MaxRounds /\ fixes[2] <= MaxRounds
  /\ phase = "coding" /\ (fixing \/ status[owner] = "FIX_REQUIRED") =>
       counters.fix_round < MaxRounds

(* Who is doing what: only the owner writes, and not while it waits.       *)
EachInPlace ==
  /\ working \subseteq {owner} \ gone
  /\ owner \in working \/ fixing => status[owner] \in {"ACTIVE", "FIX_REQUIRED"}
  /\ \A c \in gone : status[c] # "UNSPAWNED"
  /\ reviewer.status # "NONE" => status[owner] = "WAITING_AUDIT"
  /\ reviewer.status = "DONE" => reviewer.verdict \in Verdicts
  /\ phase = "advising" => status[owner] = "UNSPAWNED"
  /\ pending => phase = "shipped"
  /\ phase \in {"rethinking", "escalated"} => status[owner] = "PARKED_FOR_RETHINK"
  /\ phase = "escalated" => counters.contract_revision = 2
  /\ phase = "rethinking" =>
       /\ counters.contract_revision = 1
       /\ \/ rethink = "rethink"
          \/ rethink = "fix-first" /\ counters.fix_round = MaxRounds

(* The contract of revision 1 is the one agreed on, that of revision 2     *)
(* another.                                                                *)
ContractOfRevision ==
  phase # "stopped" => ((contract.old = agreed) <=> (counters.contract_revision = 1))

(* Every contract but the first of a cycle cost an escalation.             *)
DispatchesPaid ==
  IF contract.old = agreed
    THEN escalations < Breaker /\ dispatched <= 2 * escalations + 1
    ELSE dispatched <= 2 * escalations
=============================================================================
