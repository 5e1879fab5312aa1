------------------------ MODULE CompletionPipeline -------------------------
(***************************************************************************)
(* One run of the pipeline from dispatch to completion, as the scripts see *)
(* it: coders change a worktree, change_facts.py turns it into facts, with *)
(* or without its cache, reviews and verifications are recorded in the     *)
(* ledger under the fingerprint of those facts, and completion_gate.py     *)
(* reads ledger and facts.                                                 *)
(*                                                                         *)
(* The main session, the coders and the reviewers are language models, not *)
(* code of the repository: their actions are external, and say only which  *)
(* record they make with which script.  The main session is one writer, so *)
(* its ledger updates are atomic here; RunLedger looks inside them.        *)
(*                                                                         *)
(* working, reviewed, verified and integrated are history variables: who   *)
(* really runs, and which worktree a recorded result was about.            *)
(***************************************************************************)
EXTENDS CompletionGate, Naturals

CONSTANTS
  WriteSet,    \* the files each task may write
  Tracked,     \* the files git tracks; the others are untracked when present
  MaxContent,  \* contents are 0..MaxContent; 0 is the content at the base
  Spans,       \* what diff_ranges can say of one file
  SpanOf,      \* the lines a content spans: equal spans look alike
  ReviewVerdicts,  \* the verdicts reviewers give
  VerifyExits,     \* how verification commands exit
  PlanFlags,       \* what a plan declares: [scenarios, must : BOOLEAN]
  UseCache,    \* TRUE when facts are collected with --cache-file
  CacheTTL     \* --cache-ttl, in the ticks of the model

Contents == 0..MaxContent
Tree     == [Files -> Contents]

ASSUME PipelineInputs ==
  /\ WriteSet \in [Tasks -> SUBSET Files]
  /\ Tracked \subseteq Files
  /\ MaxContent \in Nat
  /\ SpanOf \in [Contents -> Spans]
  /\ Ranges = [Files -> Spans]
  /\ ReviewVerdicts \subseteq {"ship", "fix-first", "rethink"}
  /\ VerifyExits \subseteq {"zero", "nonzero"}
  /\ PlanFlags \subseteq [scenarios : BOOLEAN, must : BOOLEAN]
  /\ UseCache \in BOOLEAN
  /\ CacheTTL \in Nat

VARIABLES
  tree,        \* the worktree
  ledger,      \* the ledger of the run
  cache,       \* None, or the cached facts and their age
  working,     \* the agents that really run
  reviewed,    \* the tree of the last review of each task
  verified,    \* the tree of the last verification of each task
  exercised,   \* the tree of the last scenario check of each task
  integrated,  \* the tree of the last integration review
  conclusion   \* what the gate said last

vars == <<tree, ledger, cache, working, reviewed, verified, exercised,
          integrated, conclusion>>
history == <<reviewed, verified, exercised, integrated>>

PipelineTypeOK ==
  /\ tree \in Tree
  /\ ledger \in Ledger
  /\ cache = None \/ (cache.facts \in Facts /\ cache.age \in 0..(CacheTTL + 1))
  /\ working \subseteq Agents
  /\ reviewed \in [Tasks -> Tree \union {None}]
  /\ verified \in [Tasks -> Tree \union {None}]
  /\ exercised \in [Tasks -> Tree \union {None}]
  /\ integrated \in Tree \union {None}
  /\ conclusion \in {None, "COMPLETE_ALLOWED", "BLOCKED"}

\* new_ledger with a plan of all the tasks: no records yet.
Init ==
  /\ tree = [f \in Files |-> 0]
  /\ \E text \in PlanTexts, flags \in PlanFlags :
       ledger = [plan |-> [ids |-> Tasks, text |-> text,
                           has_scenario_conditions |-> flags.scenarios,
                           has_must_constraints |-> flags.must],
                 plan_fingerprint |-> <<Tasks, text>>,
                 tasks |-> [t \in Tasks |-> None],
                 agents |-> [a \in Agents |-> None],
                 decisions |-> [d \in Decisions |-> None],
                 integration |-> [verdict |-> "none", fp |-> None]]
  /\ cache = None
  /\ working = {}
  /\ reviewed = [t \in Tasks |-> None]
  /\ verified = [t \in Tasks |-> None]
  /\ exercised = [t \in Tasks |-> None]
  /\ integrated = None
  /\ conclusion = None
-----------------------------------------------------------------------------
\* _collect_facts_once on a worktree: names, and the lines of every hunk.
FactsOf(t) ==
  LET present == {f \in Files : t[f] # 0}
  IN  [changed   |-> present \intersect Tracked,
       untracked |-> present \ Tracked,
       ranges    |-> [f \in Files |-> SpanOf[t[f]]]]

\* _load_cache looks at the key, which only hashes the arguments, and the age.
CacheHit == UseCache /\ CacheTTL > 0 /\ cache # None /\ cache.age <= CacheTTL

CollectedFacts == IF CacheHit THEN cache.facts ELSE FactsOf(tree)

\* main of change_facts.py: a hit leaves the cache file and its time alone.
CollectFacts ==
  cache' = IF ~UseCache \/ CacheHit THEN cache
                                    ELSE [facts |-> FactsOf(tree), age |-> 0]

Tick ==
  /\ cache # None /\ cache.age <= CacheTTL
  /\ cache' = [cache EXCEPT !.age = @ + 1]
  /\ UNCHANGED <<tree, ledger, working, history, conclusion>>
-----------------------------------------------------------------------------

NewTask(t) ==
  [verdict |-> "none", fp |-> None, pending_fix |-> "false",
   pending_audit |-> "false", verification |-> {}, scenario_checks |-> {},
   constraint_mappings |-> FALSE, owner |-> TRUE, write_set |-> WriteSet[t],
   actual_changed_files |-> {}]

Coder(t, state, runtime) == [state |-> state, runtime |-> runtime, task |-> t]

\* The first dispatch of a task, to an agent that was not used before.
Dispatch(t, a) ==
  /\ ledger.tasks[t] = None /\ ledger.agents[a] = None
  /\ ledger' = [ledger EXCEPT !.tasks[t] = NewTask(t),
                              !.agents[a] = Coder(t, "ACTIVE", "running")]
  /\ working' = working \union {a}
  /\ UNCHANGED <<tree, cache, history, conclusion>>

\* A resumed or continuing session acts on what resume_state tells it.
Redispatch(t, a) ==
  /\ t \in TaskIds(ledger)
  /\ ResumeAction(ledger, t) \in {"continue", "resume_same"}
  /\ IF ResumeAction(ledger, t) = "resume_same"
       THEN a \in AgentIds(ledger) /\ ledger.agents[a].task = t
       ELSE ledger.agents[a] = None
            \/ (a \in AgentIds(ledger) /\ ledger.agents[a].task = t)
  /\ ledger' = [ledger EXCEPT !.agents[a] = Coder(t, "ACTIVE", "running")]
  /\ working' = working \union {a}
  /\ UNCHANGED <<tree, cache, history, conclusion>>

\* A running coder writes a file of its task.
CoderEdits(a, f, c) ==
  /\ a \in working
  /\ f \in WriteSet[ledger.agents[a].task] /\ c # tree[f]
  /\ tree' = [tree EXCEPT ![f] = c]
  /\ UNCHANGED <<ledger, cache, working, history, conclusion>>

\* Anybody else writes a file: the user, a tool, a formatter.
OutsideEdit(f, c) ==
  /\ c # tree[f]
  /\ tree' = [tree EXCEPT ![f] = c]
  /\ UNCHANGED <<ledger, cache, working, history, conclusion>>

\* The coder stops, and later the main session observes it and records it.
CoderStops(a) ==
  /\ a \in working
  /\ working' = working \ {a}
  /\ UNCHANGED <<tree, ledger, cache, history, conclusion>>

RecordStop(a) ==
  /\ a \in AgentIds(ledger) \ working
  /\ AgentIsRunning(ledger.agents[a])
  /\ LET t == ledger.agents[a].task
     IN  ledger' = [ledger EXCEPT
           !.agents[a] = Coder(t, "CLOSED", "exited"),
           !.tasks[t].pending_fix = "false",
           !.tasks[t].actual_changed_files =
             {f \in WriteSet[t] : tree[f] # 0}]
  /\ UNCHANGED <<tree, cache, working, history, conclusion>>

\* The last verification of a task, under the collected facts.
RecordVerification(t, exit) ==
  /\ t \in TaskIds(ledger)
  /\ CollectFacts
  /\ ledger' = [ledger EXCEPT !.tasks[t].verification =
                  {[exit |-> exit, fp |-> DiffFingerprint(CollectedFacts)]}]
  /\ verified' = [verified EXCEPT ![t] = tree]
  /\ UNCHANGED <<tree, working, reviewed, exercised, integrated, conclusion>>

\* The last scenario checks of a task, when the plan declares scenarios.
RecordScenario(t, exit) ==
  /\ t \in TaskIds(ledger) /\ ledger.plan.has_scenario_conditions
  /\ CollectFacts
  /\ ledger' = [ledger EXCEPT !.tasks[t].scenario_checks =
                  {[exit |-> exit, fp |-> DiffFingerprint(CollectedFacts)]}]
  /\ exercised' = [exercised EXCEPT ![t] = tree]
  /\ UNCHANGED <<tree, working, reviewed, verified, integrated, conclusion>>

\* The constraint mappings of a task, when the plan declares constraints.
RecordMappings(t) ==
  /\ t \in TaskIds(ledger) /\ ledger.plan.has_must_constraints
  /\ ~ledger.tasks[t].constraint_mappings
  /\ ledger' = [ledger EXCEPT !.tasks[t].constraint_mappings = TRUE]
  /\ UNCHANGED <<tree, cache, working, history, conclusion>>

\* The plan changes, and later the user confirms it again.
Replan(text) ==
  /\ text # ledger.plan.text
  /\ ledger' = [ledger EXCEPT !.plan.text = text]
  /\ UNCHANGED <<tree, cache, working, history, conclusion>>

ConfirmPlan ==
  /\ PlanReconfirmation(ledger, ledger.plan)
  /\ ledger' = [ledger EXCEPT !.plan_fingerprint = PlanFingerprint(ledger.plan)]
  /\ UNCHANGED <<tree, cache, working, history, conclusion>>

RecordReview(t, verdict) ==
  /\ t \in TaskIds(ledger)
  /\ CollectFacts
  /\ ledger' = [ledger EXCEPT
       !.tasks[t].verdict = verdict,
       !.tasks[t].fp = DiffFingerprint(CollectedFacts),
       !.tasks[t].pending_fix = IF verdict = "fix-first" THEN "true" ELSE @]
  /\ reviewed' = [reviewed EXCEPT ![t] = tree]
  /\ UNCHANGED <<tree, working, verified, exercised, integrated, conclusion>>

RecordIntegration(verdict) ==
  /\ CollectFacts
  /\ ledger' = [ledger EXCEPT !.integration =
                  [verdict |-> verdict, fp |-> DiffFingerprint(CollectedFacts)]]
  /\ integrated' = tree
  /\ UNCHANGED <<tree, working, reviewed, verified, exercised, conclusion>>

\* A user decision is asked for, or settled.
RecordDecision(d, status) ==
  /\ ledger.decisions[d] # status
  /\ ledger' = [ledger EXCEPT !.decisions[d] = status]
  /\ UNCHANGED <<tree, cache, working, history, conclusion>>

\* completion_gate.py on the ledger and on facts collected for it.
RunGate ==
  /\ CollectFacts
  /\ conclusion' = IF CompleteAllowed(ledger, CollectedFacts)
                     THEN "COMPLETE_ALLOWED" ELSE "BLOCKED"
  /\ UNCHANGED <<tree, ledger, working, history>>

Next ==
  \/ \E t \in Tasks, a \in Agents : Dispatch(t, a) \/ Redispatch(t, a)
  \/ \E a \in Agents, f \in Files, c \in Contents : CoderEdits(a, f, c)
  \/ \E f \in Files, c \in Contents : OutsideEdit(f, c)
  \/ \E a \in Agents : CoderStops(a) \/ RecordStop(a)
  \/ \E t \in Tasks, exit \in VerifyExits :
       RecordVerification(t, exit) \/ RecordScenario(t, exit)
  \/ \E t \in Tasks : RecordMappings(t)
  \/ \E text \in PlanTexts : Replan(text)
  \/ ConfirmPlan
  \/ \E t \in Tasks, verdict \in ReviewVerdicts : RecordReview(t, verdict)
  \/ \E verdict \in ReviewVerdicts : RecordIntegration(verdict)
  \/ \E d \in Decisions, status \in {"open", "resolved"} : RecordDecision(d, status)
  \/ RunGate
  \/ Tick

Spec == Init /\ [][Next]_vars
-----------------------------------------------------------------------------
Completes == RunGate /\ conclusion' = "COMPLETE_ALLOWED"

\* Fingerprints tell trees apart: no two contents span the same lines.
EditsShow == \A c, d \in Contents : SpanOf[c] = SpanOf[d] => c = d

About(fp, seen) == fp # None => seen \in Tree /\ fp = DiffFingerprint(FactsOf(seen))

(* Every recorded fingerprint is the one of the worktree the result was    *)
(* about: the inductive core of CompletionIsFresh.                         *)
FingerprintsAreAbout ==
  /\ About(ledger.integration.fp, integrated)
  /\ \A t \in TaskIds(ledger) :
       /\ About(ledger.tasks[t].fp, reviewed[t])
       /\ \A r \in ledger.tasks[t].verification : About(r.fp, verified[t])
       /\ \A r \in ledger.tasks[t].scenario_checks : About(r.fp, exercised[t])

(* The records keep up with the agents: the plan never loses a task, every *)
(* agent on record has a task on record, every agent that really runs      *)
(* counts as running, and no two that count as running share a task.  The  *)
(* inductive core of OneCoderPerTask and NobodyWritesAtCompletion.         *)
Bookkeeping ==
  /\ ledger.plan.ids = Tasks
  /\ \A a \in AgentIds(ledger) : ledger.agents[a].task \in TaskIds(ledger)
  /\ \A a \in working :
       a \in AgentIds(ledger) /\ AgentIsRunning(ledger.agents[a])
  /\ \A a, b \in AgentIds(ledger) :
       /\ AgentIsRunning(ledger.agents[a])
       /\ AgentIsRunning(ledger.agents[b])
       /\ ledger.agents[a].task = ledger.agents[b].task
       => a = b

(* When the gate allows completion, every review, every verification, the  *)
(* scenario checks of a plan that declares scenarios and the integration   *)
(* review were about the very worktree that completes: the fingerprints of *)
(* completion_gate.py let no stale result through.                         *)
FreshFor(t) ==
  /\ reviewed[t] = tree
  /\ verified[t] = tree
  /\ ledger.plan.has_scenario_conditions => exercised[t] = tree
CompletionIsFresh ==
  [][Completes => (\A t \in Tasks : FreshFor(t)) /\ integrated = tree]_vars

(* Completion is never allowed while a coder still runs, since the ledger  *)
(* records a stop only after it happened and the gate reads the records.   *)
NobodyWritesAtCompletion == [][Completes => working = {}]_vars

(* Every file that differs from the base at completion belongs to a task.  *)
CompletionCoversChanges ==
  [][Completes =>
       {f \in Files : tree[f] # 0} \subseteq UNION {WriteSet[t] : t \in Tasks}]_vars

(* A session resumed on a ledger whose run may complete finds nothing to   *)
(* do and no plan to confirm again: the gate and resume_state read the     *)
(* same records the same way.                                              *)
GateAgreesWithResume ==
  CompleteAllowed(ledger, CollectedFacts) =>
    /\ ~PlanReconfirmation(ledger, ledger.plan)
    /\ RunningAgents(ledger) = {}
    /\ \A t \in ledger.plan.ids \union TaskIds(ledger) :
         ledger.tasks[t] # None /\ ResumeAction(ledger, t) = "no_redispatch"

(* A task never has two coders running: resume_state answers query_first   *)
(* as long as the ledger shows one.                                        *)
OneCoderPerTask ==
  \A a, b \in working : ledger.agents[a].task = ledger.agents[b].task => a = b
=============================================================================
