-------------------------- MODULE CompletionProofs -------------------------
(***************************************************************************)
(* Proofs about the completion gate: for every ledger and all facts, what  *)
(* a COMPLETE_ALLOWED implies, and for every run of the pipeline without   *)
(* the facts cache, that what completes is what was reviewed.              *)
(***************************************************************************)
EXTENDS CompletionPipeline, TLAPS

(* Every check of evaluate is silent when completion is allowed. *)
LEMMA EveryCheckSilent ==
  ASSUME NEW doc, NEW facts, CompleteAllowed(doc, facts)
  PROVE  /\ CheckPlan(doc) = {}
         /\ CheckTasks(doc, DiffFingerprint(facts)) = {}
         /\ CheckScenarios(doc, DiffFingerprint(facts)) = {}
         /\ CheckAgents(doc) = {}
         /\ CheckIntegration(doc, DiffFingerprint(facts)) = {}
         /\ CheckUnknownFiles(doc, facts) = {}
         /\ CheckDecisions(doc) = {}
BY DEF CompleteAllowed, Reasons

(* A flag raises no reason exactly when its condition is false. *)
LEMMA FlagSilent ==
  ASSUME NEW reason, NEW raised, Flag(reason, raised) = {}
  PROVE  ~raised
BY DEF Flag

(* Records that raise no reason exist, and all are under the current       *)
(* fingerprint.                                                            *)
LEMMA RecordsSilent ==
  ASSUME NEW records, NEW current, CheckRecords(records, current) = {}
  PROVE  records # {} /\ \A r \in records : FingerprintCurrent(r.fp, current)
<1>1. Flag("stale_verification",
           \/ records = {}
           \/ \E r \in records :
                r.exit = "invalid" \/ ~FingerprintCurrent(r.fp, current)) = {}
  BY DEF CheckRecords
<1> QED
  BY <1>1, FlagSilent

(* A task that raises no reason was shipped, has no fix pending, and its   *)
(* verdict and every verification are under the current fingerprint.       *)
LEMMA TaskSilent ==
  ASSUME NEW task, NEW current, CheckTask(task, current) = {}
  PROVE  /\ task.verdict = "ship" /\ task.pending_fix # "true"
         /\ FingerprintCurrent(task.fp, current)
         /\ task.verification # {}
         /\ \A r \in task.verification : FingerprintCurrent(r.fp, current)
<1>1. task.verdict = "ship" /\ task.pending_fix # "true"
  BY DEF CheckTask, Flag
<1>2. FingerprintCurrent(task.fp, current)
  BY <1>1, FlagSilent DEF CheckTask
<1>3. CheckRecords(task.verification, current) = {}
  BY <1>1 DEF CheckTask
<1> QED
  BY <1>1, <1>2, <1>3, RecordsSilent

(* Completion: every planned task has a record, and every record is one of *)
(* a task that raises no reason; no record is malformed.                   *)
LEMMA TasksSilent ==
  ASSUME NEW doc, NEW facts, CompleteAllowed(doc, facts)
  PROVE  /\ doc.plan.ids \notin {Wrong, {}}
         /\ \A t \in doc.plan.ids : doc.tasks[t] # None
         /\ \A t \in Tasks : doc.tasks[t] # Wrong
         /\ \A t \in TaskIds(doc) :
              CheckTask(doc.tasks[t], DiffFingerprint(facts)) = {}
<1>1. CheckPlan(doc) = {} /\ CheckTasks(doc, DiffFingerprint(facts)) = {}
  BY EveryCheckSilent
<1>2. doc.plan.ids \notin {Wrong, {}}
  BY <1>1, FlagSilent DEF CheckPlan
<1>3. Flag("pending_coder",
           \/ BadTasks(doc) # {}
           \/ /\ doc.plan.ids \notin {Wrong, {}}
              /\ \E t \in doc.plan.ids : doc.tasks[t] = None) = {}
  BY <1>1 DEF CheckTasks
<1>4. ~(\/ BadTasks(doc) # {}
        \/ /\ doc.plan.ids \notin {Wrong, {}}
           /\ \E t \in doc.plan.ids : doc.tasks[t] = None)
  BY <1>3, FlagSilent
<1>5. UNION {CheckTask(doc.tasks[t], DiffFingerprint(facts)) : t \in TaskIds(doc)} = {}
  BY <1>1 DEF CheckTasks
<1> QED
  BY <1>2, <1>4, <1>5 DEF BadTasks

(* A run that may complete leaves nothing to do to a session that resumes  *)
(* it: no agent counts as running, no planned task lacks a record, and     *)
(* resume_state answers no_redispatch for every task.                      *)
THEOREM CompletionLeavesNothingToResume ==
  ASSUME NEW doc, NEW facts, CompleteAllowed(doc, facts),
         doc.plan.ids \subseteq Tasks
  PROVE  /\ ~PlanReconfirmation(doc, doc.plan)
         /\ RunningAgents(doc) = {}
         /\ \A t \in doc.plan.ids \union TaskIds(doc) :
              doc.tasks[t] # None /\ ResumeAction(doc, t) = "no_redispatch"
<1>1. RunningAgents(doc) = {}
  BY EveryCheckSilent, FlagSilent DEF CheckAgents
<1>5. PlanFingerprint(doc.plan) = doc.plan_fingerprint
  <2>1. CheckPlan(doc) = {}
    BY EveryCheckSilent
  <2> QED
    BY <2>1, FlagSilent DEF CheckPlan
<1> SUFFICES ASSUME NEW t \in doc.plan.ids \union TaskIds(doc)
             PROVE  doc.tasks[t] # None /\ ResumeAction(doc, t) = "no_redispatch"
  BY <1>1, <1>5 DEF PlanReconfirmation
<1>2. t \in Tasks /\ doc.tasks[t] \notin {None, Wrong}
  BY TasksSilent DEF TaskIds
<1>3. doc.tasks[t].verdict = "ship" /\ doc.tasks[t].pending_fix # "true"
  BY <1>2, TasksSilent, TaskSilent DEF TaskIds
<1>4. ~RunningOn(doc, t)
  BY <1>1 DEF RunningAgents, RunningOn
<1> QED
  BY <1>2, <1>3, <1>4 DEF ResumeAction

(* Without change facts there is no current fingerprint, and the gate      *)
(* fails closed whatever the ledger says.                                  *)
THEOREM NoFactsNoCompletion ==
  ASSUME NEW doc
  PROVE  ~CompleteAllowed(doc, None)
<1> SUFFICES ASSUME CompleteAllowed(doc, None) PROVE FALSE
  OBVIOUS
<1>1. CheckIntegration(doc, DiffFingerprint(None)) = {}
  BY EveryCheckSilent
<1>2. FingerprintCurrent(doc.integration.fp, DiffFingerprint(None))
  BY <1>1, FlagSilent DEF CheckIntegration
<1> QED
  BY <1>2 DEF FingerprintCurrent, DiffFingerprint
-----------------------------------------------------------------------------
(* Collected facts are facts, and their fingerprint is one, for a worktree *)
(* as well as for a cache entry.                                           *)
LEMMA CollectedFactsType ==
  ASSUME PipelineTypeOK
  PROVE  /\ FactsOf(tree) \in Facts
         /\ CollectedFacts \in Facts
         /\ DiffFingerprint(CollectedFacts) \in Fingerprints
<1>1. FactsOf(tree) \in Facts
  BY PipelineInputs DEF PipelineTypeOK, FactsOf, Facts, FileSet, Tree
<1>2. CollectedFacts \in Facts
  BY <1>1 DEF PipelineTypeOK, CollectedFacts, CacheHit
<1>3. DiffFingerprint(CollectedFacts) \in Fingerprints
  BY <1>2 DEF DiffFingerprint, Fingerprints, Facts
<1> QED
  BY <1>1, <1>2, <1>3

(* CollectFacts keeps the cache well typed. *)
LEMMA CollectFactsType ==
  ASSUME PipelineTypeOK, CollectFacts
  PROVE  cache' = None \/ (cache'.facts \in Facts /\ cache'.age \in 0..(CacheTTL + 1))
BY CollectedFactsType, PipelineInputs DEF PipelineTypeOK, CollectFacts

(* The initial ledger is well typed. *)
LEMMA PipelineTypeInit == Init => PipelineTypeOK
<1> SUFFICES ASSUME Init PROVE PipelineTypeOK
  OBVIOUS
<1>1. ledger \in Ledger
  BY PipelineInputs DEF Init, Ledger, Plan, Fingerprints, Verdicts, PlanFingerprint
<1>2. tree \in Tree
  BY PipelineInputs DEF Init, Tree, Contents
<1> QED
  BY <1>1, <1>2 DEF Init, PipelineTypeOK

(* A new task record and a coder record are records. *)
LEMMA RecordTypes ==
  ASSUME NEW t \in Tasks
  PROVE  /\ NewTask(t) \in TaskRecord
         /\ Coder(t, "ACTIVE", "running") \in AgentRecord
         /\ Coder(t, "CLOSED", "exited") \in AgentRecord
<1>1. NewTask(t) \in TaskRecord
  BY PipelineInputs DEF NewTask, TaskRecord, Verdicts, Fingerprints, Flags, FileSet
<1>2. Coder(t, "ACTIVE", "running") \in AgentRecord /\ Coder(t, "CLOSED", "exited") \in AgentRecord
  BY DEF Coder, AgentRecord, RunningStates, RestingStates, RunningRuntime
<1> QED
  BY <1>1, <1>2

(* What the updates of an existing task record make of it. *)
StoppedTask(task, files) ==
  [task EXCEPT !.pending_fix = "false", !.actual_changed_files = files]
VerifiedTask(task, exit, fp) ==
  [task EXCEPT !.verification = {[exit |-> exit, fp |-> fp]}]
ExercisedTask(task, exit, fp) ==
  [task EXCEPT !.scenario_checks = {[exit |-> exit, fp |-> fp]}]
MappedTask(task) == [task EXCEPT !.constraint_mappings = TRUE]
ReviewedTask(task, verdict, fp) ==
  [task EXCEPT !.verdict = verdict, !.fp = fp,
               !.pending_fix = IF verdict = "fix-first" THEN "true" ELSE @]

(* An updated task record is a task record. *)
LEMMA TaskUpdateTypes ==
  ASSUME NEW task \in TaskRecord, NEW files \in SUBSET Files,
         NEW fp \in Fingerprints, NEW exit \in VerifyExits,
         NEW verdict \in ReviewVerdicts
  PROVE  /\ StoppedTask(task, files) \in TaskRecord
         /\ VerifiedTask(task, exit, fp) \in TaskRecord
         /\ ExercisedTask(task, exit, fp) \in TaskRecord
         /\ MappedTask(task) \in TaskRecord
         /\ ReviewedTask(task, verdict, fp) \in TaskRecord
<1>1. StoppedTask(task, files) \in TaskRecord
  BY DEF StoppedTask, TaskRecord, Flags, FileSet
<1>2. [exit |-> exit, fp |-> fp] \in CheckRecord
  BY PipelineInputs DEF CheckRecord
<1>3. VerifiedTask(task, exit, fp) \in TaskRecord
  BY <1>2 DEF VerifiedTask, TaskRecord
<1>4. ReviewedTask(task, verdict, fp) \in TaskRecord
  BY PipelineInputs DEF ReviewedTask, TaskRecord, Flags, Verdicts
<1>5. ExercisedTask(task, exit, fp) \in TaskRecord /\ MappedTask(task) \in TaskRecord
  BY <1>2 DEF ExercisedTask, MappedTask, TaskRecord
<1> QED
  BY <1>1, <1>3, <1>4, <1>5

(* A ledger whose record of a known task is replaced by another record,    *)
(* and whose agents are replaced by well-typed ones.                       *)
LEMMA TaskReplaced ==
  ASSUME ledger \in Ledger, NEW t \in TaskIds(ledger), NEW task \in TaskRecord,
         NEW agents \in [Agents -> AgentRecord \union {None, Wrong}],
         ledger' = [ledger EXCEPT !.agents = agents,
                                  !.tasks = [ledger.tasks EXCEPT ![t] = task]]
  PROVE  /\ ledger' \in Ledger
         /\ ledger'.plan = ledger.plan
         /\ ledger'.integration = ledger.integration
         /\ ledger'.agents = agents
         /\ ledger'.tasks = [ledger.tasks EXCEPT ![t] = task]
         /\ TaskIds(ledger') = TaskIds(ledger)
<1>1. /\ ledger'.plan = ledger.plan /\ ledger'.integration = ledger.integration
      /\ ledger'.agents = agents
      /\ ledger'.tasks = [ledger.tasks EXCEPT ![t] = task]
  BY DEF Ledger
<1>2. ledger'.tasks \in [Tasks -> TaskRecord \union {None, Wrong}]
  BY <1>1 DEF Ledger
<1>3. ledger' \in Ledger
  BY <1>1, <1>2 DEF Ledger
<1>4. \A x \in Tasks : ledger'.tasks[x] = IF x = t THEN task ELSE ledger.tasks[x]
  BY <1>1 DEF Ledger
<1>5. TaskIds(ledger') = TaskIds(ledger)
  BY <1>4, RecordsAreNotMarkers DEF TaskIds
<1> QED
  BY <1>1, <1>3, <1>5

(* What recording a verification does to the ledger. *)
LEMMA VerificationUpdates ==
  ASSUME PipelineTypeOK, NEW t \in Tasks, NEW exit \in VerifyExits,
         RecordVerification(t, exit)
  PROVE  LET task == VerifiedTask(ledger.tasks[t], exit, DiffFingerprint(CollectedFacts))
         IN  /\ t \in TaskIds(ledger) /\ task \in TaskRecord
             /\ ledger' \in Ledger
             /\ ledger'.plan = ledger.plan
             /\ ledger'.integration = ledger.integration
             /\ ledger'.agents = ledger.agents
             /\ ledger'.tasks = [ledger.tasks EXCEPT ![t] = task]
             /\ TaskIds(ledger') = TaskIds(ledger)
<1> DEFINE fp == DiffFingerprint(CollectedFacts)
           task == VerifiedTask(ledger.tasks[t], exit, fp)
<1>0. ledger \in Ledger
  BY DEF PipelineTypeOK
<1>1. t \in TaskIds(ledger) /\ ledger.tasks[t] \in TaskRecord
  BY <1>0 DEF RecordVerification, TaskIds, Ledger
<1>2. task \in TaskRecord
  BY <1>1, TaskUpdateTypes, CollectedFactsType, PipelineInputs
  DEF VerifiedTask, TaskRecord, CheckRecord
<1>3. ledger' = [ledger EXCEPT !.agents = ledger.agents,
                   !.tasks = [ledger.tasks EXCEPT ![t] = task]]
  BY <1>0, <1>1 DEF RecordVerification, VerifiedTask, TaskRecord, Ledger
<1> HIDE DEF task
<1>4. ledger.agents \in [Agents -> AgentRecord \union {None, Wrong}]
  BY <1>0 DEF Ledger
<1>5. /\ ledger' \in Ledger
      /\ ledger'.plan = ledger.plan
      /\ ledger'.integration = ledger.integration
      /\ ledger'.agents = ledger.agents
      /\ ledger'.tasks = [ledger.tasks EXCEPT ![t] = task]
      /\ TaskIds(ledger') = TaskIds(ledger)
  BY <1>0, <1>1, <1>2, <1>3, <1>4, TaskReplaced
<1> QED
  BY <1>1, <1>2, <1>5 DEF task

(* What recording scenario checks does to the ledger. *)
LEMMA ScenarioUpdates ==
  ASSUME PipelineTypeOK, NEW t \in Tasks, NEW exit \in VerifyExits,
         RecordScenario(t, exit)
  PROVE  LET task == ExercisedTask(ledger.tasks[t], exit, DiffFingerprint(CollectedFacts))
         IN  /\ t \in TaskIds(ledger) /\ task \in TaskRecord
             /\ ledger' \in Ledger
             /\ ledger'.plan = ledger.plan
             /\ ledger'.integration = ledger.integration
             /\ ledger'.agents = ledger.agents
             /\ ledger'.tasks = [ledger.tasks EXCEPT ![t] = task]
             /\ TaskIds(ledger') = TaskIds(ledger)
<1> DEFINE fp == DiffFingerprint(CollectedFacts)
           task == ExercisedTask(ledger.tasks[t], exit, fp)
<1>0. ledger \in Ledger
  BY DEF PipelineTypeOK
<1>1. t \in TaskIds(ledger) /\ ledger.tasks[t] \in TaskRecord
  BY <1>0 DEF RecordScenario, TaskIds, Ledger
<1>2. task \in TaskRecord
  BY <1>1, TaskUpdateTypes, CollectedFactsType, PipelineInputs
  DEF ExercisedTask, TaskRecord, CheckRecord
<1>3. ledger' = [ledger EXCEPT !.agents = ledger.agents,
                   !.tasks = [ledger.tasks EXCEPT ![t] = task]]
  BY <1>0, <1>1 DEF RecordScenario, ExercisedTask, TaskRecord, Ledger
<1> HIDE DEF task
<1>4. ledger.agents \in [Agents -> AgentRecord \union {None, Wrong}]
  BY <1>0 DEF Ledger
<1>5. /\ ledger' \in Ledger
      /\ ledger'.plan = ledger.plan
      /\ ledger'.integration = ledger.integration
      /\ ledger'.agents = ledger.agents
      /\ ledger'.tasks = [ledger.tasks EXCEPT ![t] = task]
      /\ TaskIds(ledger') = TaskIds(ledger)
  BY <1>0, <1>1, <1>2, <1>3, <1>4, TaskReplaced
<1> QED
  BY <1>1, <1>2, <1>5 DEF task

(* What recording constraint mappings does to the ledger. *)
LEMMA MappingUpdates ==
  ASSUME PipelineTypeOK, NEW t \in Tasks, RecordMappings(t)
  PROVE  LET task == MappedTask(ledger.tasks[t])
         IN  /\ t \in TaskIds(ledger) /\ task \in TaskRecord
             /\ ledger' \in Ledger
             /\ ledger'.plan = ledger.plan
             /\ ledger'.integration = ledger.integration
             /\ ledger'.agents = ledger.agents
             /\ ledger'.tasks = [ledger.tasks EXCEPT ![t] = task]
             /\ TaskIds(ledger') = TaskIds(ledger)
<1> DEFINE task == MappedTask(ledger.tasks[t])
<1>0. ledger \in Ledger
  BY DEF PipelineTypeOK
<1>1. t \in TaskIds(ledger) /\ ledger.tasks[t] \in TaskRecord
  BY <1>0 DEF RecordMappings, TaskIds, Ledger
<1>2. task \in TaskRecord
  BY <1>1 DEF MappedTask, TaskRecord
<1>3. ledger' = [ledger EXCEPT !.agents = ledger.agents,
                   !.tasks = [ledger.tasks EXCEPT ![t] = task]]
  BY <1>0, <1>1 DEF RecordMappings, MappedTask, TaskRecord, Ledger
<1> HIDE DEF task
<1>4. ledger.agents \in [Agents -> AgentRecord \union {None, Wrong}]
  BY <1>0 DEF Ledger
<1>5. /\ ledger' \in Ledger
      /\ ledger'.plan = ledger.plan
      /\ ledger'.integration = ledger.integration
      /\ ledger'.agents = ledger.agents
      /\ ledger'.tasks = [ledger.tasks EXCEPT ![t] = task]
      /\ TaskIds(ledger') = TaskIds(ledger)
  BY <1>0, <1>1, <1>2, <1>3, <1>4, TaskReplaced
<1> QED
  BY <1>1, <1>2, <1>5 DEF task

(* What recording a review verdict does to the ledger. *)
LEMMA ReviewUpdates ==
  ASSUME PipelineTypeOK, NEW t \in Tasks, NEW verdict \in ReviewVerdicts,
         RecordReview(t, verdict)
  PROVE  LET task == ReviewedTask(ledger.tasks[t], verdict, DiffFingerprint(CollectedFacts))
         IN  /\ t \in TaskIds(ledger) /\ task \in TaskRecord
             /\ ledger' \in Ledger
             /\ ledger'.plan = ledger.plan
             /\ ledger'.integration = ledger.integration
             /\ ledger'.agents = ledger.agents
             /\ ledger'.tasks = [ledger.tasks EXCEPT ![t] = task]
             /\ TaskIds(ledger') = TaskIds(ledger)
<1> DEFINE fp == DiffFingerprint(CollectedFacts)
           task == ReviewedTask(ledger.tasks[t], verdict, fp)
<1>0. ledger \in Ledger
  BY DEF PipelineTypeOK
<1>1. t \in TaskIds(ledger) /\ ledger.tasks[t] \in TaskRecord
  BY <1>0 DEF RecordReview, TaskIds, Ledger
<1>2. task \in TaskRecord
  BY <1>1, CollectedFactsType, PipelineInputs
  DEF ReviewedTask, TaskRecord, Flags, Verdicts
<1>3. ledger' = [ledger EXCEPT !.agents = ledger.agents,
                   !.tasks = [ledger.tasks EXCEPT ![t] = task]]
  BY <1>0, <1>1 DEF RecordReview, ReviewedTask, TaskRecord, Ledger
<1> HIDE DEF task
<1>4. ledger.agents \in [Agents -> AgentRecord \union {None, Wrong}]
  BY <1>0 DEF Ledger
<1>5. /\ ledger' \in Ledger
      /\ ledger'.plan = ledger.plan
      /\ ledger'.integration = ledger.integration
      /\ ledger'.agents = ledger.agents
      /\ ledger'.tasks = [ledger.tasks EXCEPT ![t] = task]
      /\ TaskIds(ledger') = TaskIds(ledger)
  BY <1>0, <1>1, <1>2, <1>3, <1>4, TaskReplaced
<1> QED
  BY <1>1, <1>2, <1>5 DEF task

(* What recording the stop of a coder does to the ledger. *)
LEMMA StopUpdates ==
  ASSUME PipelineTypeOK, Bookkeeping, NEW a \in Agents, RecordStop(a)
  PROVE  LET t    == ledger.agents[a].task
             task == StoppedTask(ledger.tasks[t], {f \in WriteSet[t] : tree[f] # 0})
         IN  /\ t \in TaskIds(ledger) /\ task \in TaskRecord
             /\ ledger' \in Ledger
             /\ ledger'.plan = ledger.plan
             /\ ledger'.integration = ledger.integration
             /\ ledger'.agents = [ledger.agents EXCEPT ![a] = Coder(t, "CLOSED", "exited")]
             /\ ledger'.tasks = [ledger.tasks EXCEPT ![t] = task]
             /\ TaskIds(ledger') = TaskIds(ledger)
<1> DEFINE t     == ledger.agents[a].task
           files == {f \in WriteSet[t] : tree[f] # 0}
           task  == StoppedTask(ledger.tasks[t], files)
           agents == [ledger.agents EXCEPT ![a] = Coder(t, "CLOSED", "exited")]
<1>0. ledger \in Ledger
  BY DEF PipelineTypeOK
<1>1. t \in TaskIds(ledger) /\ ledger.tasks[t] \in TaskRecord
  BY <1>0 DEF RecordStop, AgentIds, Bookkeeping, TaskIds, Ledger
<1>2. files \in SUBSET Files
  BY <1>1, PipelineInputs DEF TaskIds
<1>3. task \in TaskRecord
  BY <1>1, <1>2 DEF StoppedTask, TaskRecord, Flags, FileSet
<1>4. ledger' = [ledger EXCEPT !.agents[a] = Coder(t, "CLOSED", "exited"),
                               !.tasks[t].pending_fix = "false",
                               !.tasks[t].actual_changed_files = files]
  BY DEF RecordStop
<1>5. DOMAIN ledger' = DOMAIN ledger
  BY <1>0, <1>4 DEF Ledger
<1> HIDE DEF files
<1>6. [[ledger.tasks EXCEPT ![t].pending_fix = "false"]
         EXCEPT ![t].actual_changed_files = files] = [ledger.tasks EXCEPT ![t] = task]
  BY <1>0, <1>1 DEF StoppedTask, TaskRecord, TaskIds, Ledger
<1>7. ledger' = [ledger EXCEPT !.agents = agents,
                   !.tasks = [[ledger.tasks EXCEPT ![t].pending_fix = "false"]
                                EXCEPT ![t].actual_changed_files = files]]
  BY <1>0, <1>1, <1>4 DEF TaskRecord, TaskIds, Ledger
<1>8. agents \in [Agents -> AgentRecord \union {None, Wrong}]
  BY <1>0, <1>1, RecordTypes DEF Ledger, TaskIds
<1> HIDE DEF task, agents
<1>9. /\ ledger' \in Ledger
      /\ ledger'.plan = ledger.plan
      /\ ledger'.integration = ledger.integration
      /\ ledger'.agents = agents
      /\ ledger'.tasks = [ledger.tasks EXCEPT ![t] = task]
      /\ TaskIds(ledger') = TaskIds(ledger)
  BY <1>0, <1>1, <1>3, <1>6, <1>7, <1>8, TaskReplaced
<1> QED
  BY <1>1, <1>3, <1>9 DEF files, task, agents

(* Every step of the pipeline keeps the types. *)
LEMMA PipelineTypeNext ==
  PipelineTypeOK /\ Bookkeeping /\ [Next]_vars => PipelineTypeOK'
<1> SUFFICES ASSUME PipelineTypeOK, Bookkeeping, [Next]_vars PROVE PipelineTypeOK'
  OBVIOUS
<1> USE DEF PipelineTypeOK, history
<1>1. ASSUME NEW t \in Tasks, NEW a \in Agents, Dispatch(t, a)
      PROVE  PipelineTypeOK'
  BY <1>1, RecordTypes DEF Dispatch, Ledger
<1>2. ASSUME NEW t \in Tasks, NEW a \in Agents, Redispatch(t, a)
      PROVE  PipelineTypeOK'
  BY <1>2, RecordTypes DEF Redispatch, Ledger
<1>3. ASSUME NEW a \in Agents, NEW f \in Files, NEW c \in Contents, CoderEdits(a, f, c)
      PROVE  PipelineTypeOK'
  BY <1>3 DEF CoderEdits, Tree
<1>13. ASSUME NEW f \in Files, NEW c \in Contents, OutsideEdit(f, c)
      PROVE  PipelineTypeOK'
  BY <1>13 DEF OutsideEdit, Tree
<1>4. ASSUME NEW a \in Agents, CoderStops(a)
      PROVE  PipelineTypeOK'
  BY <1>4 DEF CoderStops
<1>5. ASSUME NEW a \in Agents, RecordStop(a)
      PROVE  PipelineTypeOK'
  <2>1. ledger' \in Ledger
    BY <1>5, StopUpdates
  <2> QED
    BY <1>5, <2>1 DEF RecordStop
<1>6. ASSUME NEW t \in Tasks, NEW exit \in VerifyExits, RecordVerification(t, exit)
      PROVE  PipelineTypeOK'
  <2>1. ledger' \in Ledger
    BY <1>6, VerificationUpdates
  <2> QED
    BY <1>6, <2>1, CollectFactsType DEF RecordVerification
<1>7. ASSUME NEW t \in Tasks, NEW verdict \in ReviewVerdicts, RecordReview(t, verdict)
      PROVE  PipelineTypeOK'
  <2>1. ledger' \in Ledger
    BY <1>7, ReviewUpdates
  <2> QED
    BY <1>7, <2>1, CollectFactsType DEF RecordReview
<1>14. ASSUME NEW t \in Tasks, NEW exit \in VerifyExits, RecordScenario(t, exit)
       PROVE  PipelineTypeOK'
  <2>1. ledger' \in Ledger
    BY <1>14, ScenarioUpdates
  <2> QED
    BY <1>14, <2>1, CollectFactsType DEF RecordScenario
<1>15. ASSUME NEW t \in Tasks, RecordMappings(t)
       PROVE  PipelineTypeOK'
  <2>1. ledger' \in Ledger
    BY <1>15, MappingUpdates
  <2> QED
    BY <1>15, <2>1 DEF RecordMappings
<1>16. ASSUME NEW text \in PlanTexts, Replan(text)
       PROVE  PipelineTypeOK'
  BY <1>16 DEF Replan, Ledger, Plan
<1>17. CASE ConfirmPlan
  BY <1>17 DEF ConfirmPlan, PlanFingerprint, Ledger, Plan
<1>8. ASSUME NEW verdict \in ReviewVerdicts, RecordIntegration(verdict)
      PROVE  PipelineTypeOK'
  <2>1. ledger' \in Ledger
    BY <1>8, CollectedFactsType, PipelineInputs DEF RecordIntegration, Ledger, Verdicts
  <2> QED
    BY <1>8, <2>1, CollectFactsType DEF RecordIntegration
<1>9. ASSUME NEW d \in Decisions, NEW status \in {"open", "resolved"},
             RecordDecision(d, status)
      PROVE  PipelineTypeOK'
  BY <1>9 DEF RecordDecision, Ledger
<1>10. CASE RunGate
  BY <1>10, CollectFactsType DEF RunGate
<1>11. CASE Tick
  <2>1. cache'.facts \in Facts /\ cache'.age \in 0..(CacheTTL + 1)
    BY <1>11, PipelineInputs DEF Tick
  <2> QED
    BY <1>11, <2>1 DEF Tick
<1>12. CASE UNCHANGED vars
  BY <1>12 DEF vars
<1> QED
  <2> HIDE DEF PipelineTypeOK
  <2> QED
    BY <1>1, <1>2, <1>3, <1>4, <1>5, <1>6, <1>7, <1>8, <1>9, <1>10, <1>11, <1>12, <1>13,
       <1>14, <1>15, <1>16, <1>17
    DEF Next, vars

(* The first ledger has no agent, and all the tasks in its plan. *)
LEMMA BookkeepingInit == Init => Bookkeeping
BY DEF Init, Bookkeeping, AgentIds

(* An agent that is dispatched counts as running until its stop is         *)
(* recorded, and nothing is dispatched on a task with a running agent.     *)
LEMMA BookkeepingNext ==
  PipelineTypeOK /\ Bookkeeping /\ [Next]_vars => Bookkeeping'
<1> SUFFICES ASSUME PipelineTypeOK, Bookkeeping, [Next]_vars PROVE Bookkeeping'
  OBVIOUS
<1>0. /\ ledger \in Ledger
      /\ ledger.tasks \in [Tasks -> TaskRecord \union {None, Wrong}]
      /\ ledger.agents \in [Agents -> AgentRecord \union {None, Wrong}]
  BY DEF PipelineTypeOK, Ledger
<1>1. ASSUME NEW t \in Tasks, NEW a \in Agents, Dispatch(t, a)
      PROVE  Bookkeeping'
  <2>1. /\ ledger'.plan = ledger.plan
        /\ \A x \in Tasks : ledger'.tasks[x] = IF x = t THEN NewTask(t) ELSE ledger.tasks[x]
        /\ \A x \in Agents : ledger'.agents[x] = IF x = a THEN Coder(t, "ACTIVE", "running")
                                                        ELSE ledger.agents[x]
    BY <1>0, <1>1 DEF Dispatch, Ledger
  <2>2. TaskIds(ledger') = TaskIds(ledger) \union {t} /\ t \notin TaskIds(ledger)
    BY <1>1, <2>1, RecordTypes, RecordsAreNotMarkers DEF Dispatch, TaskIds
  <2>3. AgentIds(ledger') = AgentIds(ledger) \union {a}
    BY <2>1, RecordTypes, RecordsAreNotMarkers DEF AgentIds
  <2> QED
    BY <1>1, <2>1, <2>2, <2>3 DEF Dispatch, Bookkeeping, AgentIds, Coder,
                                  AgentIsRunning, RunningStates
<1>2. ASSUME NEW t \in Tasks, NEW a \in Agents, Redispatch(t, a)
      PROVE  Bookkeeping'
  <2>1. /\ ledger'.plan = ledger.plan /\ ledger'.tasks = ledger.tasks
        /\ \A x \in Agents : ledger'.agents[x] = IF x = a THEN Coder(t, "ACTIVE", "running")
                                                        ELSE ledger.agents[x]
    BY <1>0, <1>2 DEF Redispatch, Ledger
  <2>2. TaskIds(ledger') = TaskIds(ledger) /\ t \in TaskIds(ledger)
    BY <1>2, <2>1 DEF Redispatch, TaskIds
  <2>3. AgentIds(ledger') = AgentIds(ledger) \union {a}
    BY <2>1, RecordTypes, RecordsAreNotMarkers DEF AgentIds
  <2>4. ~RunningOn(ledger, t)
    BY <1>2 DEF Redispatch, ResumeAction
  <2> QED
    BY <1>2, <2>1, <2>2, <2>3, <2>4 DEF Redispatch, Bookkeeping, AgentIds, Coder,
                                  AgentIsRunning, RunningStates, RunningOn
<1>3. ASSUME NEW a \in Agents, NEW f \in Files, NEW c \in Contents, CoderEdits(a, f, c)
      PROVE  Bookkeeping'
  BY <1>3 DEF CoderEdits, Bookkeeping
<1>13. ASSUME NEW f \in Files, NEW c \in Contents, OutsideEdit(f, c)
      PROVE  Bookkeeping'
  BY <1>13 DEF OutsideEdit, Bookkeeping
<1>4. ASSUME NEW a \in Agents, CoderStops(a)
      PROVE  Bookkeeping'
  BY <1>4 DEF CoderStops, Bookkeeping
<1>5. ASSUME NEW a \in Agents, RecordStop(a)
      PROVE  Bookkeeping'
  <2> DEFINE t == ledger.agents[a].task
             agents == [ledger.agents EXCEPT ![a] = Coder(t, "CLOSED", "exited")]
  <2>1. t \in Tasks /\ agents \in [Agents -> AgentRecord \union {None, Wrong}]
    BY <1>0, <1>5, StopUpdates, RecordTypes DEF TaskIds
  <2>2. /\ ledger'.plan = ledger.plan /\ ledger'.agents = agents
        /\ TaskIds(ledger') = TaskIds(ledger)
    BY <1>5, StopUpdates
  <2>3. \A x \in Agents : ledger'.agents[x] = IF x = a THEN Coder(t, "CLOSED", "exited")
                                                     ELSE ledger.agents[x]
    BY <1>0, <2>2
  <2>4. AgentIds(ledger') = AgentIds(ledger) /\ a \in AgentIds(ledger)
    BY <1>5, <2>1, <2>3, RecordTypes, RecordsAreNotMarkers DEF AgentIds, RecordStop
  <2>5. ~AgentIsRunning(Coder(t, "CLOSED", "exited"))
    BY GateMarkers DEF Coder, AgentIsRunning, RunningStates, RunningRuntime
  <2>6. working' = working /\ a \notin working
    BY <1>5 DEF RecordStop
  <2>7. \A b \in AgentIds(ledger') :
          /\ ledger'.agents[b].task = ledger.agents[b].task
          /\ AgentIsRunning(ledger'.agents[b]) => b # a /\ ledger'.agents[b] = ledger.agents[b]
    BY <2>3, <2>4, <2>5 DEF AgentIds, Coder
  <2> QED
    BY <2>2, <2>3, <2>4, <2>6, <2>7 DEF Bookkeeping, AgentIds
<1>6. ASSUME NEW t \in Tasks, NEW exit \in VerifyExits, RecordVerification(t, exit)
      PROVE  Bookkeeping'
  <2>1. /\ ledger'.plan = ledger.plan /\ ledger'.agents = ledger.agents
        /\ TaskIds(ledger') = TaskIds(ledger)
    BY <1>6, VerificationUpdates
  <2> QED
    BY <1>6, <2>1 DEF RecordVerification, Bookkeeping, AgentIds
<1>7. ASSUME NEW t \in Tasks, NEW verdict \in ReviewVerdicts, RecordReview(t, verdict)
      PROVE  Bookkeeping'
  <2>1. /\ ledger'.plan = ledger.plan /\ ledger'.agents = ledger.agents
        /\ TaskIds(ledger') = TaskIds(ledger)
    BY <1>7, ReviewUpdates
  <2> QED
    BY <1>7, <2>1 DEF RecordReview, Bookkeeping, AgentIds
<1>14. ASSUME NEW t \in Tasks, NEW exit \in VerifyExits, RecordScenario(t, exit)
       PROVE  Bookkeeping'
  <2>1. /\ ledger'.plan = ledger.plan /\ ledger'.agents = ledger.agents
        /\ TaskIds(ledger') = TaskIds(ledger)
    BY <1>14, ScenarioUpdates
  <2> QED
    BY <1>14, <2>1 DEF RecordScenario, Bookkeeping, AgentIds
<1>15. ASSUME NEW t \in Tasks, RecordMappings(t)
       PROVE  Bookkeeping'
  <2>1. /\ ledger'.plan = ledger.plan /\ ledger'.agents = ledger.agents
        /\ TaskIds(ledger') = TaskIds(ledger)
    BY <1>15, MappingUpdates
  <2> QED
    BY <1>15, <2>1 DEF RecordMappings, Bookkeeping, AgentIds
<1>16. ASSUME NEW text \in PlanTexts, Replan(text)
       PROVE  Bookkeeping'
  BY <1>0, <1>16 DEF Replan, Bookkeeping, AgentIds, TaskIds, Ledger, Plan
<1>17. CASE ConfirmPlan
  BY <1>0, <1>17 DEF ConfirmPlan, Bookkeeping, AgentIds, TaskIds, Ledger
<1>8. ASSUME NEW verdict \in ReviewVerdicts, RecordIntegration(verdict)
      PROVE  Bookkeeping'
  BY <1>0, <1>8 DEF RecordIntegration, Bookkeeping, AgentIds, TaskIds, Ledger
<1>9. ASSUME NEW d \in Decisions, NEW status \in {"open", "resolved"},
             RecordDecision(d, status)
      PROVE  Bookkeeping'
  BY <1>0, <1>9 DEF RecordDecision, Bookkeeping, AgentIds, TaskIds, Ledger
<1>10. CASE RunGate
  BY <1>10 DEF RunGate, Bookkeeping
<1>11. CASE Tick
  BY <1>11 DEF Tick, Bookkeeping
<1>12. CASE UNCHANGED vars
  BY <1>12 DEF vars, Bookkeeping
<1> QED
  BY <1>1, <1>2, <1>3, <1>4, <1>5, <1>6, <1>7, <1>8, <1>9, <1>10, <1>11, <1>12, <1>13,
     <1>14, <1>15, <1>16, <1>17
  DEF Next, vars

(* Every reachable state of the pipeline is well typed, and its records    *)
(* keep up with the agents.                                                *)
THEOREM PipelineTypeCorrect == Spec => [](PipelineTypeOK /\ Bookkeeping)
BY PipelineTypeInit, PipelineTypeNext, BookkeepingInit, BookkeepingNext, PTL
DEF Spec

(* No task ever has two coders running. *)
THEOREM TasksHaveOneCoder == Spec => []OneCoderPerTask
<1>1. Bookkeeping => OneCoderPerTask
  BY DEF Bookkeeping, OneCoderPerTask
<1> QED
  BY <1>1, PipelineTypeCorrect, PTL

(* In every reachable state: when the run may complete, a session resumed  *)
(* on the same ledger finds no task to dispatch.                           *)
THEOREM GateAndResumeAgree == Spec => []GateAgreesWithResume
<1>1. ASSUME PipelineTypeOK PROVE GateAgreesWithResume
  <2> SUFFICES ASSUME CompleteAllowed(ledger, CollectedFacts)
               PROVE  /\ ~PlanReconfirmation(ledger, ledger.plan)
                      /\ RunningAgents(ledger) = {}
                      /\ \A t \in ledger.plan.ids \union TaskIds(ledger) :
                           /\ ledger.tasks[t] # None
                           /\ ResumeAction(ledger, t) = "no_redispatch"
    BY DEF GateAgreesWithResume
  <2>1. ledger.plan.ids \subseteq Tasks
    BY <1>1, TasksSilent DEF PipelineTypeOK, Ledger, Plan, GateAgreesWithResume
  <2> QED
    BY <2>1, CompletionLeavesNothingToResume
<1> QED
  BY <1>1, PipelineTypeCorrect, PTL
-----------------------------------------------------------------------------
(* COMPLETE_ALLOWED is only ever concluded from the current ledger. *)
LEMMA CompletesIsAllowed ==
  ASSUME Completes
  PROVE  CompleteAllowed(ledger, CollectedFacts)
BY DEF Completes, RunGate

(* No coder runs when the gate allows completion, with or without the      *)
(* cache: the gate never looks at the agents, only at their records.       *)
THEOREM NobodyWrites == Spec => NobodyWritesAtCompletion
<1>1. Bookkeeping /\ [Next]_vars => [Completes => working = {}]_vars
  <2> SUFFICES ASSUME Bookkeeping, Completes PROVE working = {}
    OBVIOUS
  <2>1. RunningAgents(ledger) = {}
    BY CompletesIsAllowed, EveryCheckSilent, FlagSilent DEF CheckAgents
  <2> QED
    BY <2>1 DEF Bookkeeping, RunningAgents
<1> QED
  BY <1>1, PipelineTypeCorrect, PTL DEF Spec, NobodyWritesAtCompletion

(* Without the cache every fingerprint that is recorded is the one of the  *)
(* worktree at that moment.                                                *)
LEMMA FingerprintsNext ==
  ASSUME UseCache = FALSE
  PROVE  PipelineTypeOK /\ Bookkeeping /\ FingerprintsAreAbout /\ [Next]_vars
           => FingerprintsAreAbout'
<1> SUFFICES ASSUME PipelineTypeOK, Bookkeeping, FingerprintsAreAbout, [Next]_vars
             PROVE  FingerprintsAreAbout'
  OBVIOUS
<1>0. /\ ledger \in Ledger /\ tree \in Tree
      /\ ledger.tasks \in [Tasks -> TaskRecord \union {None, Wrong}]
      /\ reviewed \in [Tasks -> Tree \union {None}]
      /\ verified \in [Tasks -> Tree \union {None}]
      /\ exercised \in [Tasks -> Tree \union {None}]
      /\ CollectedFacts = FactsOf(tree)
  BY DEF PipelineTypeOK, Ledger, CollectedFacts, CacheHit
<1>a. About(DiffFingerprint(CollectedFacts), tree)
  BY <1>0 DEF About
<1>1. ASSUME NEW t \in Tasks, NEW a \in Agents, Dispatch(t, a)
      PROVE  FingerprintsAreAbout'
  <2>1. /\ ledger'.integration = ledger.integration
        /\ \A x \in Tasks : ledger'.tasks[x] = IF x = t THEN NewTask(t) ELSE ledger.tasks[x]
    BY <1>0, <1>1 DEF Dispatch, Ledger
  <2>2. /\ NewTask(t).fp = None
        /\ NewTask(t).verification = {} /\ NewTask(t).scenario_checks = {}
        /\ TaskIds(ledger') \subseteq TaskIds(ledger) \union {t}
    BY <2>1 DEF NewTask, TaskIds
  <2> QED
    BY <1>1, <2>1, <2>2 DEF Dispatch, history, FingerprintsAreAbout, About, TaskIds
<1>2. ASSUME NEW t \in Tasks, NEW a \in Agents, Redispatch(t, a)
      PROVE  FingerprintsAreAbout'
  BY <1>0, <1>2 DEF Redispatch, Ledger, TaskIds, history, FingerprintsAreAbout
<1>3. ASSUME NEW a \in Agents, NEW f \in Files, NEW c \in Contents, CoderEdits(a, f, c)
      PROVE  FingerprintsAreAbout'
  BY <1>3 DEF CoderEdits, history, FingerprintsAreAbout
<1>4. ASSUME NEW f \in Files, NEW c \in Contents, OutsideEdit(f, c)
      PROVE  FingerprintsAreAbout'
  BY <1>4 DEF OutsideEdit, history, FingerprintsAreAbout
<1>5. ASSUME NEW a \in Agents, CoderStops(a)
      PROVE  FingerprintsAreAbout'
  BY <1>5 DEF CoderStops, history, FingerprintsAreAbout
<1>6. ASSUME NEW a \in Agents, RecordStop(a)
      PROVE  FingerprintsAreAbout'
  <2> DEFINE t == ledger.agents[a].task
             task == StoppedTask(ledger.tasks[t], {f \in WriteSet[t] : tree[f] # 0})
  <2>1. /\ t \in TaskIds(ledger) /\ TaskIds(ledger') = TaskIds(ledger)
        /\ ledger'.integration = ledger.integration
        /\ ledger'.tasks = [ledger.tasks EXCEPT ![t] = task]
    BY <1>6, StopUpdates
  <2>2. /\ task.fp = ledger.tasks[t].fp
        /\ task.verification = ledger.tasks[t].verification
        /\ task.scenario_checks = ledger.tasks[t].scenario_checks
    <3>1. \A old \in TaskRecord, files \in SUBSET Files :
            /\ StoppedTask(old, files).fp = old.fp
            /\ StoppedTask(old, files).verification = old.verification
            /\ StoppedTask(old, files).scenario_checks = old.scenario_checks
      BY DEF StoppedTask, TaskRecord
    <3>2. ledger.tasks[t] \in TaskRecord
      BY <1>0, <2>1 DEF TaskIds
    <3>3. {f \in WriteSet[t] : tree[f] # 0} \in SUBSET Files
      BY <2>1, PipelineInputs DEF TaskIds
    <3> QED
      BY <3>1, <3>2, <3>3
  <2> HIDE DEF task, t
  <2>3. \A x \in TaskIds(ledger) :
          /\ ledger'.tasks[x].fp = ledger.tasks[x].fp
          /\ ledger'.tasks[x].verification = ledger.tasks[x].verification
          /\ ledger'.tasks[x].scenario_checks = ledger.tasks[x].scenario_checks
    BY <1>0, <2>1, <2>2 DEF TaskIds
  <2> QED
    BY <1>6, <2>1, <2>3 DEF RecordStop, history, FingerprintsAreAbout
<1>7. ASSUME NEW t \in Tasks, NEW exit \in VerifyExits, RecordVerification(t, exit)
      PROVE  FingerprintsAreAbout'
  <2> DEFINE fp == DiffFingerprint(CollectedFacts)
             task == VerifiedTask(ledger.tasks[t], exit, fp)
  <2>1. /\ t \in TaskIds(ledger) /\ TaskIds(ledger') = TaskIds(ledger)
        /\ ledger'.integration = ledger.integration
        /\ ledger'.tasks = [ledger.tasks EXCEPT ![t] = task]
    BY <1>7, VerificationUpdates
  <2>2. /\ task.fp = ledger.tasks[t].fp
        /\ \A r \in task.verification : r.fp = fp
        /\ task.scenario_checks = ledger.tasks[t].scenario_checks
    BY <1>0, <2>1 DEF VerifiedTask, TaskRecord, TaskIds
  <2>3. \A x \in TaskIds(ledger) :
          ledger'.tasks[x] = IF x = t THEN task ELSE ledger.tasks[x]
    BY <1>0, <2>1 DEF TaskIds
  <2> HIDE DEF task, fp
  <2>4. verified' = [verified EXCEPT ![t] = tree]
        /\ UNCHANGED <<reviewed, exercised, integrated>>
    BY <1>7 DEF RecordVerification
  <2>5. About(fp, tree)
    BY <1>a DEF fp
  <2>6. \A x \in TaskIds(ledger) : verified'[x] = IF x = t THEN tree ELSE verified[x]
    BY <1>0, <2>4 DEF TaskIds
  <2> QED
    BY <2>1, <2>2, <2>3, <2>4, <2>5, <2>6 DEF FingerprintsAreAbout
<1>14. ASSUME NEW t \in Tasks, NEW exit \in VerifyExits, RecordScenario(t, exit)
      PROVE  FingerprintsAreAbout'
  <2> DEFINE fp == DiffFingerprint(CollectedFacts)
             task == ExercisedTask(ledger.tasks[t], exit, fp)
  <2>1. /\ t \in TaskIds(ledger) /\ TaskIds(ledger') = TaskIds(ledger)
        /\ ledger'.integration = ledger.integration
        /\ ledger'.tasks = [ledger.tasks EXCEPT ![t] = task]
    BY <1>14, ScenarioUpdates
  <2>2. /\ task.fp = ledger.tasks[t].fp
        /\ \A r \in task.scenario_checks : r.fp = fp
        /\ task.verification = ledger.tasks[t].verification
    BY <1>0, <2>1 DEF ExercisedTask, TaskRecord, TaskIds
  <2>3. \A x \in TaskIds(ledger) :
          ledger'.tasks[x] = IF x = t THEN task ELSE ledger.tasks[x]
    BY <1>0, <2>1 DEF TaskIds
  <2> HIDE DEF task, fp
  <2>4. exercised' = [exercised EXCEPT ![t] = tree]
        /\ UNCHANGED <<reviewed, verified, integrated>>
    BY <1>14 DEF RecordScenario
  <2>5. About(fp, tree)
    BY <1>a DEF fp
  <2>6. \A x \in TaskIds(ledger) : exercised'[x] = IF x = t THEN tree ELSE exercised[x]
    BY <1>0, <2>4 DEF TaskIds
  <2> QED
    BY <2>1, <2>2, <2>3, <2>4, <2>5, <2>6 DEF FingerprintsAreAbout
<1>15. ASSUME NEW t \in Tasks, RecordMappings(t)
       PROVE  FingerprintsAreAbout'
  <2> DEFINE task == MappedTask(ledger.tasks[t])
  <2>1. /\ t \in TaskIds(ledger) /\ TaskIds(ledger') = TaskIds(ledger)
        /\ ledger'.integration = ledger.integration
        /\ ledger'.tasks = [ledger.tasks EXCEPT ![t] = task]
    BY <1>15, MappingUpdates
  <2>2. /\ task.fp = ledger.tasks[t].fp
        /\ task.verification = ledger.tasks[t].verification
        /\ task.scenario_checks = ledger.tasks[t].scenario_checks
    BY <1>0, <2>1 DEF MappedTask, TaskRecord, TaskIds
  <2> HIDE DEF task
  <2>3. \A x \in TaskIds(ledger) :
          /\ ledger'.tasks[x].fp = ledger.tasks[x].fp
          /\ ledger'.tasks[x].verification = ledger.tasks[x].verification
          /\ ledger'.tasks[x].scenario_checks = ledger.tasks[x].scenario_checks
    BY <1>0, <2>1, <2>2 DEF TaskIds
  <2> QED
    BY <1>15, <2>1, <2>3 DEF RecordMappings, history, FingerprintsAreAbout
<1>16. ASSUME NEW text \in PlanTexts, Replan(text)
       PROVE  FingerprintsAreAbout'
  BY <1>0, <1>16 DEF Replan, Ledger, TaskIds, history, FingerprintsAreAbout
<1>17. CASE ConfirmPlan
  BY <1>0, <1>17 DEF ConfirmPlan, Ledger, TaskIds, history, FingerprintsAreAbout
<1>8. ASSUME NEW t \in Tasks, NEW verdict \in ReviewVerdicts, RecordReview(t, verdict)
      PROVE  FingerprintsAreAbout'
  <2> DEFINE fp == DiffFingerprint(CollectedFacts)
             task == ReviewedTask(ledger.tasks[t], verdict, fp)
  <2>1. /\ t \in TaskIds(ledger) /\ TaskIds(ledger') = TaskIds(ledger)
        /\ ledger'.integration = ledger.integration
        /\ ledger'.tasks = [ledger.tasks EXCEPT ![t] = task]
    BY <1>8, ReviewUpdates
  <2>2. /\ task.fp = fp
        /\ task.verification = ledger.tasks[t].verification
        /\ task.scenario_checks = ledger.tasks[t].scenario_checks
    BY <1>0, <2>1 DEF ReviewedTask, TaskRecord, TaskIds
  <2>3. \A x \in TaskIds(ledger) :
          ledger'.tasks[x] = IF x = t THEN task ELSE ledger.tasks[x]
    BY <1>0, <2>1 DEF TaskIds
  <2> HIDE DEF task, fp
  <2>4. reviewed' = [reviewed EXCEPT ![t] = tree]
        /\ UNCHANGED <<verified, exercised, integrated>>
    BY <1>8 DEF RecordReview
  <2>5. About(fp, tree)
    BY <1>a DEF fp
  <2>6. \A x \in TaskIds(ledger) : reviewed'[x] = IF x = t THEN tree ELSE reviewed[x]
    BY <1>0, <2>4 DEF TaskIds
  <2> QED
    BY <2>1, <2>2, <2>3, <2>4, <2>5, <2>6 DEF FingerprintsAreAbout
<1>9. ASSUME NEW verdict \in ReviewVerdicts, RecordIntegration(verdict)
      PROVE  FingerprintsAreAbout'
  <2>1. /\ ledger'.tasks = ledger.tasks
        /\ ledger'.integration.fp = DiffFingerprint(CollectedFacts)
        /\ integrated' = tree
        /\ UNCHANGED <<reviewed, verified, exercised>>
    BY <1>0, <1>9 DEF RecordIntegration, Ledger
  <2> QED
    BY <2>1, <1>a DEF FingerprintsAreAbout, TaskIds
<1>10. ASSUME NEW d \in Decisions, NEW status \in {"open", "resolved"},
              RecordDecision(d, status)
       PROVE  FingerprintsAreAbout'
  BY <1>0, <1>10 DEF RecordDecision, Ledger, TaskIds, history, FingerprintsAreAbout
<1>11. CASE RunGate
  BY <1>11 DEF RunGate, history, FingerprintsAreAbout
<1>12. CASE Tick
  BY <1>12 DEF Tick, history, FingerprintsAreAbout
<1>13. CASE UNCHANGED vars
  BY <1>13 DEF vars, FingerprintsAreAbout
<1> QED
  BY <1>1, <1>2, <1>3, <1>4, <1>5, <1>6, <1>7, <1>8, <1>9, <1>10, <1>11, <1>12, <1>13,
     <1>14, <1>15, <1>16, <1>17
  DEF Next, vars

(* When no two contents look alike, a fingerprint determines the worktree. *)
LEMMA FingerprintsAreInjective ==
  ASSUME EditsShow, tree \in Tree, NEW seen \in Tree,
         DiffFingerprint(FactsOf(tree)) = DiffFingerprint(FactsOf(seen))
  PROVE  seen = tree
<1>1. FactsOf(tree) \in Facts /\ FactsOf(seen) \in Facts
  BY PipelineInputs DEF FactsOf, Facts, FileSet, Tree
<1>2. FactsOf(tree) # None /\ FactsOf(seen) # None
  BY <1>1, FactsAreNotMarkers
<1>3. [f \in Files |-> SpanOf[tree[f]]] = [f \in Files |-> SpanOf[seen[f]]]
  BY <1>2 DEF DiffFingerprint, FactsOf
<1>4. \A f \in Files : SpanOf[tree[f]] = SpanOf[seen[f]]
  BY <1>3
<1>5. \A f \in Files : tree[f] = seen[f]
  BY <1>4 DEF EditsShow, Tree
<1> QED
  BY <1>5 DEF Tree

(* Without the cache, and when every edit shows in diff_ranges, what the   *)
(* gate lets complete is exactly what was reviewed, verified and           *)
(* integrated.  The two runs that violate CompletionIsFresh drop one of    *)
(* the two assumptions each.                                               *)
THEOREM FreshCompletion ==
  ASSUME UseCache = FALSE, EditsShow
  PROVE  Spec => CompletionIsFresh
<1>1. Init => FingerprintsAreAbout
  BY DEF Init, FingerprintsAreAbout, About, TaskIds
<1>2. Spec => []FingerprintsAreAbout
  BY <1>1, FingerprintsNext, PipelineTypeCorrect, PTL DEF Spec
<1>3. PipelineTypeOK /\ Bookkeeping /\ FingerprintsAreAbout /\ [Next]_vars
        => [Completes => (\A t \in Tasks : FreshFor(t)) /\ integrated = tree]_vars
  <2> SUFFICES ASSUME PipelineTypeOK, Bookkeeping, FingerprintsAreAbout, Completes
               PROVE  (\A t \in Tasks : FreshFor(t)) /\ integrated = tree
    OBVIOUS
  <2> DEFINE facts == FactsOf(tree)
             current == DiffFingerprint(facts)
  <2>1. CompleteAllowed(ledger, facts) /\ tree \in Tree
    BY CompletesIsAllowed DEF CollectedFacts, CacheHit, PipelineTypeOK
  <2>2. ASSUME NEW fp, NEW seen, FingerprintCurrent(fp, current), About(fp, seen)
        PROVE  seen = tree
    BY <2>1, <2>2, FingerprintsAreInjective DEF FingerprintCurrent, About, DiffFingerprint
  <2>3. FingerprintCurrent(ledger.integration.fp, current)
    <3>1. CheckIntegration(ledger, current) = {}
      BY <2>1, EveryCheckSilent
    <3> QED
      BY <3>1, FlagSilent DEF CheckIntegration
  <2>4. integrated = tree
    BY <2>2, <2>3 DEF FingerprintsAreAbout
  <2>5. ASSUME NEW t \in Tasks
        PROVE  FreshFor(t)
    <3>1. t \in TaskIds(ledger)
      BY <2>1, TasksSilent DEF Bookkeeping, TaskIds
    <3>2. CheckTask(ledger.tasks[t], current) = {}
      BY <2>1, <3>1, TasksSilent
    <3>3. /\ FingerprintCurrent(ledger.tasks[t].fp, current)
          /\ ledger.tasks[t].verification # {}
          /\ \A r \in ledger.tasks[t].verification : FingerprintCurrent(r.fp, current)
      BY <3>2, TaskSilent
    <3>4. reviewed[t] = tree
      BY <2>2, <3>1, <3>3 DEF FingerprintsAreAbout
    <3>5. PICK r \in ledger.tasks[t].verification : FingerprintCurrent(r.fp, current)
      BY <3>3
    <3>6. verified[t] = tree
      BY <2>2, <3>1, <3>5 DEF FingerprintsAreAbout
    <3>7. ASSUME ledger.plan.has_scenario_conditions PROVE exercised[t] = tree
      <4>1. CheckRecords(ledger.tasks[t].scenario_checks, current) = {}
        BY <2>1, <3>1, <3>7, EveryCheckSilent DEF CheckScenarios
      <4>2. PICK s \in ledger.tasks[t].scenario_checks : FingerprintCurrent(s.fp, current)
        BY <4>1, RecordsSilent
      <4> QED
        BY <2>2, <3>1, <4>2 DEF FingerprintsAreAbout
    <3> QED
      BY <3>4, <3>6, <3>7 DEF FreshFor
  <2> QED
    BY <2>4, <2>5
<1> QED
  BY <1>2, <1>3, PipelineTypeCorrect, PTL DEF Spec, CompletionIsFresh
-----------------------------------------------------------------------------
(* What a task is recorded to own is what the plan lets it write: the      *)
(* strengthening of CompletionCoversChanges.                               *)
OwnedFiles(task, files) ==
  task.write_set = files /\ task.actual_changed_files \subseteq files
RecordsOwnTheirFiles ==
  \A t \in TaskIds(ledger) : OwnedFiles(ledger.tasks[t], WriteSet[t])

(* No update of a record widens what its task owns. *)
LEMMA OwnedFilesKept ==
  ASSUME NEW task \in TaskRecord, NEW files, OwnedFiles(task, files)
  PROVE  /\ \A exit, fp : OwnedFiles(VerifiedTask(task, exit, fp), files)
         /\ \A exit, fp : OwnedFiles(ExercisedTask(task, exit, fp), files)
         /\ \A verdict, fp : OwnedFiles(ReviewedTask(task, verdict, fp), files)
         /\ OwnedFiles(MappedTask(task), files)
         /\ \A changed \in SUBSET files : OwnedFiles(StoppedTask(task, changed), files)
BY DEF OwnedFiles, TaskRecord, VerifiedTask, ExercisedTask, ReviewedTask, MappedTask,
   StoppedTask

(* Replacing one record by one that owns as much keeps the invariant. *)
LEMMA OwnedReplaced ==
  ASSUME PipelineTypeOK, RecordsOwnTheirFiles, NEW t \in TaskIds(ledger),
         OwnedFiles(ledger'.tasks[t], WriteSet[t]),
         \A x \in TaskIds(ledger) \ {t} : ledger'.tasks[x] = ledger.tasks[x],
         TaskIds(ledger') = TaskIds(ledger)
  PROVE  RecordsOwnTheirFiles'
BY DEF RecordsOwnTheirFiles

(* Every step keeps what the records own within the declared write sets. *)
LEMMA OwnershipNext ==
  PipelineTypeOK /\ Bookkeeping /\ RecordsOwnTheirFiles /\ [Next]_vars
    => RecordsOwnTheirFiles'
<1> SUFFICES ASSUME PipelineTypeOK, Bookkeeping, RecordsOwnTheirFiles, [Next]_vars
             PROVE  RecordsOwnTheirFiles'
  OBVIOUS
<1>0. /\ ledger \in Ledger
      /\ ledger.tasks \in [Tasks -> TaskRecord \union {None, Wrong}]
  BY DEF PipelineTypeOK, Ledger
<1>r. \A t \in TaskIds(ledger) : t \in Tasks /\ ledger.tasks[t] \in TaskRecord
  BY <1>0 DEF TaskIds
<1>1. CASE ledger'.tasks = ledger.tasks
  BY <1>1 DEF RecordsOwnTheirFiles, TaskIds
<1>2. ASSUME NEW t \in Tasks, NEW a \in Agents, Dispatch(t, a)
      PROVE  RecordsOwnTheirFiles'
  <2>1. \A x \in Tasks : ledger'.tasks[x] = IF x = t THEN NewTask(t) ELSE ledger.tasks[x]
    BY <1>0, <1>2 DEF Dispatch, Ledger
  <2>2. OwnedFiles(NewTask(t), WriteSet[t])
    BY DEF NewTask, OwnedFiles
  <2> QED
    BY <2>1, <2>2 DEF RecordsOwnTheirFiles, TaskIds
<1>3. ASSUME NEW t \in TaskIds(ledger), NEW task, OwnedFiles(task, WriteSet[t]),
             ledger'.tasks = [ledger.tasks EXCEPT ![t] = task],
             TaskIds(ledger') = TaskIds(ledger)
      PROVE  RecordsOwnTheirFiles'
  <2>1. ledger'.tasks[t] = task /\ \A x \in Tasks \ {t} : ledger'.tasks[x] = ledger.tasks[x]
    BY <1>0, <1>3 DEF TaskIds
  <2> QED
    BY <1>3, <2>1, <1>r, OwnedReplaced
<1>4. ASSUME NEW a \in Agents, RecordStop(a)
      PROVE  RecordsOwnTheirFiles'
  <2> DEFINE t == ledger.agents[a].task
             files == {f \in WriteSet[t] : tree[f] # 0}
  <2>1. /\ t \in TaskIds(ledger) /\ TaskIds(ledger') = TaskIds(ledger)
        /\ ledger'.tasks = [ledger.tasks EXCEPT ![t] = StoppedTask(ledger.tasks[t], files)]
    BY <1>4, StopUpdates
  <2>2. OwnedFiles(StoppedTask(ledger.tasks[t], files), WriteSet[t])
    BY <2>1, <1>r, OwnedFilesKept DEF RecordsOwnTheirFiles
  <2> QED
    BY <1>3, <2>1, <2>2
<1>5. ASSUME NEW t \in Tasks, NEW exit \in VerifyExits,
             RecordVerification(t, exit) \/ RecordScenario(t, exit)
      PROVE  RecordsOwnTheirFiles'
  <2> DEFINE fp == DiffFingerprint(CollectedFacts)
  <2>1. /\ t \in TaskIds(ledger) /\ TaskIds(ledger') = TaskIds(ledger)
        /\ \E task \in {VerifiedTask(ledger.tasks[t], exit, fp),
                        ExercisedTask(ledger.tasks[t], exit, fp)} :
             ledger'.tasks = [ledger.tasks EXCEPT ![t] = task]
    BY <1>5, VerificationUpdates, ScenarioUpdates
  <2>2. /\ OwnedFiles(VerifiedTask(ledger.tasks[t], exit, fp), WriteSet[t])
        /\ OwnedFiles(ExercisedTask(ledger.tasks[t], exit, fp), WriteSet[t])
    BY <2>1, <1>r, OwnedFilesKept DEF RecordsOwnTheirFiles
  <2> QED
    BY <1>3, <2>1, <2>2
<1>6. ASSUME NEW t \in Tasks, RecordMappings(t)
      PROVE  RecordsOwnTheirFiles'
  <2>1. /\ t \in TaskIds(ledger) /\ TaskIds(ledger') = TaskIds(ledger)
        /\ ledger'.tasks = [ledger.tasks EXCEPT ![t] = MappedTask(ledger.tasks[t])]
    BY <1>6, MappingUpdates
  <2>2. OwnedFiles(MappedTask(ledger.tasks[t]), WriteSet[t])
    BY <2>1, <1>r, OwnedFilesKept DEF RecordsOwnTheirFiles
  <2> QED
    BY <1>3, <2>1, <2>2
<1>7. ASSUME NEW t \in Tasks, NEW verdict \in ReviewVerdicts, RecordReview(t, verdict)
      PROVE  RecordsOwnTheirFiles'
  <2> DEFINE fp == DiffFingerprint(CollectedFacts)
  <2>1. /\ t \in TaskIds(ledger) /\ TaskIds(ledger') = TaskIds(ledger)
        /\ ledger'.tasks =
             [ledger.tasks EXCEPT ![t] = ReviewedTask(ledger.tasks[t], verdict, fp)]
    BY <1>7, ReviewUpdates
  <2>2. OwnedFiles(ReviewedTask(ledger.tasks[t], verdict, fp), WriteSet[t])
    BY <2>1, <1>r, OwnedFilesKept DEF RecordsOwnTheirFiles
  <2> QED
    BY <1>3, <2>1, <2>2
<1>8. ASSUME \/ \E t \in Tasks, a \in Agents : Redispatch(t, a)
             \/ \E text \in PlanTexts : Replan(text)
             \/ ConfirmPlan
             \/ \E verdict \in ReviewVerdicts : RecordIntegration(verdict)
             \/ \E d \in Decisions, status \in {"open", "resolved"} :
                  RecordDecision(d, status)
      PROVE  ledger'.tasks = ledger.tasks
  BY <1>0, <1>8 DEF Ledger, Redispatch, Replan, ConfirmPlan, RecordIntegration,
     RecordDecision
<1>9. ASSUME \/ \E a \in Agents, f \in Files, c \in Contents : CoderEdits(a, f, c)
             \/ \E f \in Files, c \in Contents : OutsideEdit(f, c)
             \/ \E a \in Agents : CoderStops(a)
             \/ RunGate \/ Tick \/ UNCHANGED vars
      PROVE  ledger'.tasks = ledger.tasks
  BY <1>9 DEF CoderEdits, OutsideEdit, CoderStops, RunGate, Tick, vars
<1> QED
  BY <1>1, <1>2, <1>4, <1>5, <1>6, <1>7, <1>8, <1>9 DEF Next

(* The gate owns up to no file outside the recorded ownership. *)
LEMMA UnknownFilesSilent ==
  ASSUME NEW doc, NEW facts \in Facts, CheckUnknownFiles(doc, facts) = {},
         NEW f \in facts.changed \union facts.untracked
  PROVE  \E u \in TaskIds(doc) :
           f \in doc.tasks[u].write_set \union doc.tasks[u].actual_changed_files
<1> DEFINE owned == {doc.tasks[u].write_set : u \in TaskIds(doc)} \union
                    {doc.tasks[u].actual_changed_files : u \in TaskIds(doc)}
           changed == facts.changed \union facts.untracked
<1>1. ~(/\ facts # None
        /\ \/ Wrong \in {facts.changed, facts.untracked}
           \/ /\ changed # {}
              /\ Wrong \in owned \/ ~(changed \subseteq UNION owned))
  BY FlagSilent DEF CheckUnknownFiles
<1>2. facts # None
  BY FactsAreNotMarkers
<1>3. f \in UNION owned
  BY <1>1, <1>2
<1> QED
  BY <1>3

(* Without the cache, every file that differs from the base when the gate  *)
(* allows completion belongs to the write set of a task.                   *)
THEOREM CompletionOwnsEveryChange ==
  ASSUME UseCache = FALSE
  PROVE  Spec => CompletionCoversChanges
<1>1. Init => RecordsOwnTheirFiles
  <2>1. Init => ledger.tasks = [t \in Tasks |-> None]
    BY DEF Init
  <2>2. ledger.tasks = [t \in Tasks |-> None] => TaskIds(ledger) = {}
    BY DEF TaskIds
  <2> QED
    BY <2>1, <2>2 DEF RecordsOwnTheirFiles
<1>2. PipelineTypeOK /\ RecordsOwnTheirFiles /\ [Next]_vars =>
        [Completes =>
           {f \in Files : tree[f] # 0} \subseteq UNION {WriteSet[t] : t \in Tasks}]_vars
  <2> SUFFICES ASSUME PipelineTypeOK, RecordsOwnTheirFiles, Completes,
                      NEW f \in Files, tree[f] # 0
               PROVE  \E t \in Tasks : f \in WriteSet[t]
    OBVIOUS
  <2>1. CompleteAllowed(ledger, FactsOf(tree))
    BY CompletesIsAllowed DEF CollectedFacts, CacheHit
  <2>2. CheckUnknownFiles(ledger, FactsOf(tree)) = {} /\ FactsOf(tree) \in Facts
    BY <2>1, EveryCheckSilent, CollectedFactsType
  <2>3. f \in FactsOf(tree).changed \union FactsOf(tree).untracked
    BY DEF FactsOf
  <2>4. PICK t \in TaskIds(ledger) :
          f \in ledger.tasks[t].write_set \union ledger.tasks[t].actual_changed_files
    BY <2>2, <2>3, UnknownFilesSilent
  <2> QED
    BY <2>4 DEF RecordsOwnTheirFiles, OwnedFiles, TaskIds
<1> QED
  BY <1>1, <1>2, OwnershipNext, PipelineTypeCorrect, PTL
  DEF Spec, CompletionCoversChanges
=============================================================================
