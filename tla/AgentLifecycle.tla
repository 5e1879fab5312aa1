--------------------------- MODULE AgentLifecycle ---------------------------
(***************************************************************************)
(* agent_lifecycle.py: the action decided for a coder, a reviewer or an    *)
(* advisor, and the transitions of a coder.                                *)
(*                                                                         *)
(* Callers pass well-typed fields in their own role only, which _validate  *)
(* enforces; an optional flag is "yes", "no" or "unknown" (null).          *)
(***************************************************************************)

CoderStatuses ==
  {"UNSPAWNED", "ACTIVE", "WAITING_VERIFICATION", "WAITING_AUDIT",
   "FIX_REQUIRED", "PARKED_REUSABLE", "PARKED_FOR_RETHINK"}

Terminals ==
  {"proceed", "change", "stop", "blocked", "cancelled", "runtime_failure"}
RuntimeStates == {"known", "unknown", "stale"}
Evidence == {"unavailable", "runtime_gone", "unrecoverable"}

\* CODER_TRANSITIONS: <<status, event, next status>>.
CoderTransitions ==
  {<<"UNSPAWNED", "spawn", "ACTIVE">>,
   <<"ACTIVE", "verification_started", "WAITING_VERIFICATION">>,
   <<"WAITING_VERIFICATION", "audit_started", "WAITING_AUDIT">>,
   <<"WAITING_AUDIT", "fix_first", "FIX_REQUIRED">>,
   <<"WAITING_AUDIT", "ship", "PARKED_REUSABLE">>,
   <<"FIX_REQUIRED", "fix_complete", "WAITING_VERIFICATION">>,
   <<"PARKED_REUSABLE", "integration_fix_needed", "FIX_REQUIRED">>}

\* transition() raises when the table has no entry.
Transition(status, event, next) == <<status, event, next>> \in CoderTransitions

DecideFailClosed(event, terminal) ==
  IF terminal # "none" THEN "STOP"
  ELSE IF event = "wait_observation_timeout" THEN "WAIT"
  ELSE "KEEP"

\* Mutants: a successor without evidence; no successor in spite of it; an
\* eviction with a fix pending.
DecideFixFirstEasily(available, unavailability) ==
  IF available = "yes" THEN "RESUME_SAME" ELSE "SPAWN_SUCCESSOR"
DecideFixFirstNever(available, unavailability) ==
  IF available = "yes" THEN "RESUME_SAME" ELSE "KEEP"
DecideEvictionEasily(status, oldest, shipped, pending) ==
  IF status = "PARKED_REUSABLE" /\ oldest = "yes" /\ shipped = "yes"
    THEN "CLOSE_ALLOWED" ELSE "KEEP"

\* The events of a coder; a coder parked for rethink is kept whatever comes.
DecideFixFirst(available, unavailability) ==
  IF available = "yes" THEN "RESUME_SAME"
  ELSE IF unavailability \in Evidence THEN "SPAWN_SUCCESSOR"
  ELSE "KEEP"
DecideEviction(status, oldest, shipped, pending) ==
  IF /\ status = "PARKED_REUSABLE"
     /\ oldest = "yes" /\ shipped = "yes" /\ pending = "no"
    THEN "CLOSE_ALLOWED" ELSE "KEEP"
DecideShip(status) ==
  IF status \in {"ACTIVE", "WAITING_VERIFICATION", "WAITING_AUDIT"}
    THEN "PARK" ELSE "KEEP"
DecideIntegrationFix(status) ==
  IF status = "PARKED_REUSABLE" THEN "RESUME_SAME" ELSE "KEEP"

\* Mutant: a reviewer that is done is closed before its diff is looked at.
DecideReviewerDone(status, event) ==
  IF status = "DONE" THEN "CLOSE_ALLOWED"
  ELSE IF event = "diff_changed" \/ status = "STALE" THEN "SPAWN_FRESH_REVIEWER"
  ELSE "KEEP"

DecideReviewer(status, event) ==
  IF event = "diff_changed" \/ status = "STALE" THEN "SPAWN_FRESH_REVIEWER"
  ELSE IF status = "DONE" THEN "CLOSE_ALLOWED"
  ELSE "KEEP"

DecideAdvisor(event, terminal) ==
  IF terminal \in {"stop", "blocked", "cancelled", "runtime_failure"} THEN "STOP"
  ELSE IF terminal \in {"proceed", "change"} THEN "CLOSE_ALLOWED"
  ELSE IF event = "wait_observation_timeout" THEN "WAIT"
  ELSE "KEEP"

\* decide(): an unknown runtime is decided on before the role.
Decide(runtime, event, terminal, decision) ==
  IF runtime \in {"unknown", "stale"}
    THEN DecideFailClosed(event, terminal) ELSE decision
\* Mutant: a coder parked for rethink is resumed like any other.
DecideCoderParked(runtime, status, event, decision) ==
  Decide(runtime, event, "none", decision)
DecideCoder(runtime, status, event, decision) ==
  Decide(runtime, event, "none",
         IF status = "PARKED_FOR_RETHINK" THEN "KEEP" ELSE decision)
=============================================================================
