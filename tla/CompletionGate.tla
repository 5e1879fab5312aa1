-------------------------- MODULE CompletionGate ---------------------------
(***************************************************************************)
(* The two readers of a finished ledger: completion_gate.evaluate, which   *)
(* says why a run is not complete, and run_ledger.resume_state, which says *)
(* what a resumed session does with each task.  Both are pure functions of *)
(* the ledger document; the gate also takes the change facts.              *)
(*                                                                         *)
(* A record keeps the fields the two functions look at.  None stands for a *)
(* missing value and Wrong for one of the wrong JSON kind.                 *)
(***************************************************************************)
CONSTANTS
  Tasks,       \* task ids
  Agents,      \* agent ids
  Decisions,   \* decision ids
  Files,       \* paths
  Ranges,      \* the values diff_ranges can take
  PlanTexts,   \* the values of the fingerprinted plan fields but the tasks
  None,
  Wrong

ASSUME GateMarkers == None # Wrong /\ Wrong \notin {"CLOSED", "exited"}

-----------------------------------------------------------------------------
\* Change facts and their fingerprint: names and line ranges, no content.
FileSet == (SUBSET Files) \union {Wrong}
Facts   == [changed : FileSet, untracked : FileSet, ranges : Ranges]

ASSUME FactsAreNotMarkers == None \notin Facts

DiffFingerprint(facts) ==
  IF facts = None THEN None
                  ELSE <<facts.changed, facts.untracked, facts.ranges>>

Fingerprints == (FileSet \X FileSet \X Ranges) \union {None}

\* A verification record; a scenario check has the same three cases, with
\* all_pass in the place of a zero exit code.
CheckRecord == [exit : {"zero", "nonzero", "invalid"}, fp : Fingerprints]

Flags    == {"absent", "false", "true", "other"}
Verdicts == {"ship", "fix-first", "rethink", "none"}

TaskRecord ==
  [verdict : Verdicts, fp : Fingerprints,
   pending_fix : Flags, pending_audit : Flags,
   verification : SUBSET CheckRecord, scenario_checks : SUBSET CheckRecord,
   constraint_mappings : BOOLEAN, owner : BOOLEAN,
   write_set : FileSet, actual_changed_files : FileSet]

RunningStates == {"ACTIVE", "RUNNING", "WAITING_VERIFICATION",
                  "WAITING_AUDIT", "FIX_REQUIRED"}
RestingStates == {"PARKED_FOR_RETHINK", "CLOSED"}
RunningRuntime == {"running", "active"}

AgentRecord ==
  [state : RunningStates \union RestingStates \union {Wrong},
   runtime : RunningRuntime \union {"exited", Wrong},
   task : Tasks \union {None}]

ASSUME RecordsAreNotMarkers ==
  {None, Wrong} \intersect (TaskRecord \union AgentRecord) = {}

Plan == [ids : (SUBSET Tasks) \union {Wrong}, text : PlanTexts,
         has_scenario_conditions : BOOLEAN, has_must_constraints : BOOLEAN]

\* The fingerprint leaves has_scenario_conditions and has_must_constraints out.
PlanFingerprint(plan) == <<plan.ids, plan.text>>

Ledger ==
  [plan : Plan, plan_fingerprint : ((SUBSET Tasks) \union {Wrong}) \X PlanTexts,
   tasks : [Tasks -> TaskRecord \union {None, Wrong}],
   agents : [Agents -> AgentRecord \union {None, Wrong}],
   decisions : [Decisions -> {"resolved", "open", None, Wrong}],
   integration : [verdict : Verdicts, fp : Fingerprints]]
-----------------------------------------------------------------------------
Flag(reason, raised) == IF raised THEN {reason} ELSE {}

FingerprintCurrent(stored, current) == current # None /\ stored = current

\* The records that are objects, and the keys whose value is not.
TaskIds(ledger)   == {t \in Tasks : ledger.tasks[t] \notin {None, Wrong}}
BadTasks(ledger)  == {t \in Tasks : ledger.tasks[t] = Wrong}
AgentIds(ledger)  == {a \in Agents : ledger.agents[a] \notin {None, Wrong}}
BadAgents(ledger) == {a \in Agents : ledger.agents[a] = Wrong}

\* Mutant: the dispatch states are missing from the running ones.
AgentIsWaiting(agent) ==
  \/ agent.state = Wrong
  \/ agent.state \in RunningStates \ {"ACTIVE"}
  \/ agent.runtime = Wrong
  \/ agent.runtime = "active"

\* _agent_is_running of both modules: a malformed state counts as running.
AgentIsRunning(agent) ==
  \/ agent.state = Wrong
  \/ agent.state \in RunningStates
  \/ agent.runtime = Wrong
  \/ agent.runtime \in RunningRuntime

RunningAgents(ledger) ==
  BadAgents(ledger) \union
  {a \in AgentIds(ledger) : AgentIsRunning(ledger.agents[a])}

CheckPlan(ledger) ==
  Flag("invalid_plan", ledger.plan.ids \in {Wrong, {}})
  \union
  Flag("plan_stale", PlanFingerprint(ledger.plan) # ledger.plan_fingerprint)

\* Mutant: records are not compared with the current fingerprint.
CheckRecordsExist(records, current) ==
  Flag("machine_blocker", \E r \in records : r.exit = "nonzero")
  \union
  Flag("stale_verification",
       records = {} \/ \E r \in records : r.exit = "invalid")

CheckRecords(records, current) ==
  Flag("machine_blocker", \E r \in records : r.exit = "nonzero")
  \union
  Flag("stale_verification",
       \/ records = {}
       \/ \E r \in records :
            r.exit = "invalid" \/ ~FingerprintCurrent(r.fp, current))

\* Mutant: the verdict alone decides whether a task is pending.
CheckVerdictOnly(task, current) ==
  IF task.verdict # "ship"
    THEN {"pending_coder"}
    ELSE Flag("stale_review", ~FingerprintCurrent(task.fp, current))
         \union CheckRecords(task.verification, current)

\* pending_fix and pending_audit are safe only when absent or exactly false.
CheckTask(task, current) ==
  Flag("pending_coder",
       \/ {task.pending_fix, task.pending_audit} \intersect {"true", "other"} # {}
       \/ task.verdict # "ship")
  \union
  (IF task.verdict # "ship"
     THEN {}
     ELSE Flag("stale_review", ~FingerprintCurrent(task.fp, current))
          \union CheckRecords(task.verification, current))

CheckTasks(ledger, current) ==
  Flag("pending_coder",
       \/ BadTasks(ledger) # {}
       \/ /\ ledger.plan.ids \notin {Wrong, {}}
          /\ \E t \in ledger.plan.ids : ledger.tasks[t] = None)
  \union UNION {CheckTask(ledger.tasks[t], current) : t \in TaskIds(ledger)}

\* Mutant: scenario checks need only be there.
CheckScenariosPresent(ledger, current) ==
  Flag("stale_verification",
       /\ ledger.plan.has_scenario_conditions
       /\ \E t \in TaskIds(ledger) : ledger.tasks[t].scenario_checks = {})

CheckScenarios(ledger, current) ==
  IF ~ledger.plan.has_scenario_conditions
    THEN {}
    ELSE UNION {CheckRecords(ledger.tasks[t].scenario_checks, current) :
                  t \in TaskIds(ledger)}

CheckConstraintMappings(ledger) ==
  Flag("missing_constraint_mappings",
       /\ ledger.plan.has_must_constraints
       /\ \E t \in TaskIds(ledger) : ~ledger.tasks[t].constraint_mappings)

\* Mutant: only malformed agent records are looked for.
CheckAgentRecords(ledger) == Flag("pending_coder", BadAgents(ledger) # {})

CheckAgents(ledger) == Flag("pending_coder", RunningAgents(ledger) # {})

CheckIntegration(ledger, current) ==
  Flag("integration_missing",
       \/ ledger.integration.verdict # "ship"
       \/ ~FingerprintCurrent(ledger.integration.fp, current))

\* Mutant: untracked files are forgotten.
CheckUnknownTracked(ledger, facts) ==
  LET owned == {ledger.tasks[t].write_set : t \in TaskIds(ledger)} \union
               {ledger.tasks[t].actual_changed_files : t \in TaskIds(ledger)}
  IN  Flag("unknown_file",
           /\ facts # None
           /\ \/ Wrong \in {facts.changed, facts.untracked}
              \/ /\ facts.changed # {}
                 /\ Wrong \in owned \/ ~(facts.changed \subseteq UNION owned))

\* Ownership lists of the wrong kind make every changed file unknown.
CheckUnknownFiles(ledger, facts) ==
  LET owned == {ledger.tasks[t].write_set : t \in TaskIds(ledger)} \union
               {ledger.tasks[t].actual_changed_files : t \in TaskIds(ledger)}
  IN  Flag("unknown_file",
           /\ facts # None
           /\ \/ Wrong \in {facts.changed, facts.untracked}
              \/ LET changed == facts.changed \union facts.untracked
                 IN  /\ changed # {}
                     /\ Wrong \in owned \/ ~(changed \subseteq UNION owned))

CheckDecisions(ledger) ==
  Flag("unresolved_decision",
       \E d \in Decisions : ledger.decisions[d] \in {"open", Wrong})

\* evaluate: the run is complete when no check gives a reason.
Reasons(ledger, facts) ==
  LET current == DiffFingerprint(facts)
  IN  UNION {CheckPlan(ledger), CheckTasks(ledger, current),
             CheckScenarios(ledger, current), CheckConstraintMappings(ledger),
             CheckAgents(ledger), CheckIntegration(ledger, current),
             CheckUnknownFiles(ledger, facts), CheckDecisions(ledger)}

CompleteAllowed(ledger, facts) == Reasons(ledger, facts) = {}

-----------------------------------------------------------------------------
PlanReconfirmation(ledger, currentPlan) ==
  /\ currentPlan # None
  /\ ledger.plan_fingerprint # PlanFingerprint(currentPlan)

RunningOn(ledger, t) ==
  \E a \in AgentIds(ledger) :
    AgentIsRunning(ledger.agents[a]) /\ ledger.agents[a].task = t

\* resume_state: what to do with a task the ledger has a record of.
ResumeAction(ledger, t) ==
  LET task    == ledger.tasks[t]
      pending == task.pending_fix = "true"
  IN  IF task = Wrong \/ RunningOn(ledger, t)
        THEN "query_first"
        ELSE IF task.verdict = "ship" /\ ~pending
               THEN "no_redispatch"
               ELSE IF task.verdict = "fix-first" /\ pending
                      THEN IF task.owner THEN "resume_same"
                                         ELSE "blocked_no_owner"
                      ELSE "continue"
=============================================================================
