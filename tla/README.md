# Verification of the coding-review pipeline

The repository is a *skill* for coding agents: `SKILL.md` tells a language model, the
**main session**, how to plan a change, hand tasks to **coder** subagents, have their
work verified and reviewed, and conclude. What must not depend on a model's judgement
is done by Python scripts the main session calls. This directory holds TLA+ models of
those scripts, TLC configurations, and theorems checked by TLAPS.

A second skill of the repository, the *contract executor*, comes with an evaluation harness
that is modelled as well.

Paths below are relative to `src/skills/coding-review-pipeline/`. `PROJECT.json` maps
every definition to the lines it models.

## 1. Inventory

| Component | State it keeps | Operations | What makes it correct |
|---|---|---|---|
| run ledger `scripts/run_ledger.py` | one `ledger.json` per run, and an older copy under `.git` | `init`, `update`, `load`, `migrate`, `list`, `resume`, `verification-tier` | the file is always whole and valid; an update merges key by key; events are lost to an overlapping command only; malformed entries never get in |
| atomic replacement `scripts/crp_common.py` | a temporary file | make, write, rename, clean up | the target is the old or the new document, whatever fails |
| completion gate `scripts/completion_gate.py` | none: reads ledger and facts | `evaluate` | nothing completes on stale, missing or malformed evidence, or while somebody writes |
| resume `run_ledger.resume_state` | none: reads the ledger | one action for each task | never two coders on a task; agrees with the gate |
| change facts `scripts/change_facts.py` | a read cache for an attempt, a cache file across commands | collect, hash, scan; look up and store | the facts are those of one worktree, and of the present one |
| task convergence `scripts/task_convergence.py` | none: counters go through the caller | `route_task` | effort is bounded, and a bounded effort ends in ship, stop or escalation |
| agent lifecycle `scripts/agent_lifecycle.py` | none: statuses go through the caller | `decide`, `transition` | one writer, no verdict on an old diff, nothing closed that is needed |
| task graph `scripts/task_graph.py` | none | `analyze` | no two parallel tasks write one path, no task before its predecessors |
| phase reports `scripts/task_report.py` | `phase-report.json` | `write`, `read` | the last report of a coder is the one that is read |
| overlap and classes of `scripts/change_facts.py` | none | `collect_facts` with `--write-sets` | the router takes what it writes |
| context routing `scripts/route_context.py` | none | accept facts, G2 risk, G4 execution | parallel writers own nothing in common, a risk is verified as one |
| packet validation `scripts/validate_task_packet.py` | none | `validate_packet` | a packet relies on decisions that are made and hold when it is checked; nothing checks it again |
| review preflight `scripts/review_preflight.py` | its results while it runs | run analyzers one after the other, attribute, deduplicate | findings are charged to lines the change wrote, blockers are not lost |
| evaluation harness `../contract-executor/scripts/eval_harness.py` | a git workspace, a state file beside it | `prepare`, `score` | only a worktree as the fixture wants it passes |
| wait strategy, prompt, `route_all` | none | pure functions | tables and text |
| main session, coders, reviewers | a conversation | follow `SKILL.md` | external: they act on what the scripts answer |

How they interact: the main session runs `change_facts.py`, whose output gives the
*diff fingerprint*; it stores results under that fingerprint in the ledger with
`run_ledger.py update`; it asks `task_convergence.py` and `agent_lifecycle.py` what to do
after each verdict; it routes on the facts with
`route_context.py`, has each packet checked by `validate_task_packet.py` before a coder gets it,
and a reviewer runs `review_preflight.py` on the same facts; coders append to
`phase-report.json`; a resumed session asks `run_ledger.py resume`; at the end
`completion_gate.py` reads ledger and facts. There are no callbacks and no locks. Each
command is a process of its own, and the files are the only shared state.

Hard behaviours, each a hazard in `PROJECT.json` with its line and its properties:

- *interleaving without locks*: two updates read the same ledger, `migrate` checks a target and replaces it later, `init` looks at no target at all;
- *crash and failure between steps*: a command dies between `mkstemp` and `os.replace`, or its clean-up fails;
- *stale evidence*: reviews, verifications, scenario checks and the integration review are recorded at different times, the worktree is edited in between, facts come out of a cache;
- *a moving worktree*: files are edited while `collect_facts` reads them one by one, or while the preflight runs one analyzer after the other;
- *scripts that judge the same thing*: risk and tier, overlap and its acceptance, paths as names and as keys;
- *an agent free to work with git*: it may stage, commit, rename or ignore what it did before it is scored, and git itself may fail;
- *stateless scripts called in a long protocol*: the counters of one answer must be acceptable to the next call, over two contract revisions, and an escalated task begins again with fresh ones;
- *agents that vanish*: a coder dies, a diff changes under a reviewer, the runtime cannot be read;
- *progress*: every task must leave the fix loop.

## 2. Modules

| Module | Models | Used by |
|---|---|---|
| `LedgerShape` | the ledger document, `_validate_ledger`, the soft gate, the merge, migration | the two below |
| `LedgerStore` | **abstract**: a document that changes only by the whole effect of one valid command | refined by `RunLedger` |
| `RunLedger` | the commands as interleaving processes: read, decide, temporary file, rename; failures and kills | |
| `CompletionGate` | `evaluate` and `resume_state` as operators over ledger records | `CompletionPipeline` |
| `CompletionPipeline` | one run from dispatch to completion: coders, edits, facts with or without the cache, recorded results, the gate | |
| `FactsSnapshot` | `collect_facts` step by step on a worktree that changes | justifies the atomic facts of `CompletionPipeline` |
| `TaskConvergence` | `route_task` and its validation as operators | `TaskLoop` |
| `AgentLifecycle` | `decide` for the three roles, the coder transitions | `TaskLoop` |
| `TaskLoop` | one task: advisor, coders, reviewers and a main session that obeys the two scripts | |
| `TaskGraph` | `analyze` and its validation as operators: closure, components, order, ready tasks, parallel-safe pairs | `TaskSchedule` |
| `TaskSchedule` | the dispatch loop of a plan with several tasks | |
| `TaskReports` | coders that write and a session that reads `phase-report.json` without a lock | |
| `EvalHarness` | `prepare` and `score` write by write, beside an agent that works with git | |
| `ContextRouting` | what `route_context.py` accepts, its G2 and G4, the overlap it reads, the verification tier, as operators | `StageSession` |
| `ReviewPreflight` | the selection of analyzers, attribution, security candidates, hard failures and deduplication as operators | `StageSession` |
| `TaskPacket` | `validate_packet` as an operator | `StageSession` |
| `StageSession` | one stage: facts, route, packets, coders that edit, a preflight that reads what they edit | |
| `MC*` | small instances for TLC | |
| `*Proofs` | theorems about the module of that name | |

**Ledger.** `file` is `ledger.json`, `legacy` the copy under `.git`, `tmp[p]`, `pc[p]`,
`pending[p]` and `outcome[p]` belong to process `p`. `ReadAndMerge` is everything
`update_ledger` does between its single read and its write, which nothing can interrupt
visibly; `OpenTemp`, `WriteTemp` and `Rename` are the three system calls of
`atomic_json_write` that others can see; `WriteFails` is an exception in any of them and
`Kill` the end of the process. A section is a function from keys to well-formed, malformed
or absent entries, so that the two validations and the key-wise merge keep their meaning.

**Gate and pipeline.** A record keeps the fields the gate and `resume_state` read, with
`None` for missing and `Wrong` for malformed values. `tree` is the worktree, and `FactsOf`
what the fingerprint sees of it: names and line ranges, given by `SpanOf`. The actions of
the main session, the coders and everybody else are external; each records what the scripts
let it record. `Redispatch` obeys `resume_state`. `reviewed`, `verified`, `exercised` and
`integrated` remember which worktree a result was about; no action reads them.

**Snapshot.** Each git call and each file read is a step; an edit may come between any two.

**Task loop.** `counters` is what `route_task` returned last, `status` the lifecycle status
of each coder, moved only along `CODER_TRANSITIONS` except into and out of
`PARKED_FOR_RETHINK`, which the table does not name and `route_task` demands. The main
session is honest: it counts a fix round when the fix is complete, reports an agent as
available or gone only when that was observed while the runtime could be read, and parks
the coder before it asks for an escalation. The rounds it writes into the report of an escalation
are any rounds: `route_task` compares them with the counters, and the session reports again when they are refused.
After an escalation `UserSettles` dispatches the task again, to a fresh coder, at revision 1 and
round 0, until `escalations` reaches `Breaker`: that is the loop of `references/review-routing.md`,
whose breaker is nine. Troubles (a coder dies, the diff changes, the runtime is out of reach) come at
any time. `fixes`, `dispatched`, `capsule` and `acted` are history that no guard and no call reads.

**Task graph.** The two passes of Kosaraju and Kahn's queue are each a `Loop`: a state (the variables of
the Python loop), a step that is the body (`Visit`, `Assign`, `Pop`, for the inner loop of the second pass
the union with `Parents`), and the condition to stop. `Loop` is one recursive function, so that one rule
proves what any of them computes. `InOrder` picks tasks in the order of the input; `MCTaskSchedule`
compares it with a filter on every list of up to four tasks. `Ancestors` is defined as the least closed
set the worklist computes.
`Analyze` is `analyze` as a whole. In `TaskSchedule` the main session calls it with what is
completed (`AnalyzeGraph`), and may go on acting on the answer when it is old. It spawns a task
that is ready and parallel-safe with *every* task in progress. That is how this project reads
the loop of `references/agent-lifecycle.md:211` together with
`references/recovery-and-failures.md:26` (write sets of parallel tasks are disjoint): step 2 of
the loop, taken alone, compares only the tasks it is about to spawn with each other. What goes
on inside a task is `TaskLoop`; here it completes, after some fixes, or fails.

**Phase reports.** `entries` is the array in the file. `AppendEntry` is the load and the append of
`write_entry`, which keep the array in `held[t]`; `ReplaceFile` is its atomic write. A coder may be
lost or fail in between. `ReadLatest` is what the session does after a coder has ended.
`history` and `base` remember what was written and what each write had loaded; no guard reads them.

**Evaluation harness.** The workspace is three trees, `head`, `index` and `tree`, beside the state
file. `prepare` is five steps (`Prepare`, `WriteSetup`, `AddAll`, `CommitBaseline`, `SaveState`) and
`DieInSetup` stops the second after any part of its writes; `Kill` stops any command between two
steps; `RemoveWorkspace` is the operator who clears what a killed `prepare` left. The agent's
actions are git's: `Edit`, `Rename`, `Stage`, `Commit`, `Ignore`, and `Unwatch` for a file that git is told
not to look at (`git update-index`). `ChangedFiles` is the union the
code takes of three listings: `Committed`, which names only the destination of a rename and is the only
one whose return code is checked; `Listed`, that of `git status`, without unwatched edits; and `Hidden`, the
untracked files an exclude rule hides. `failed` names the listings whose git failed, which the code
takes for empty. `sight` remembers in the verdict whether all worked and what was not watched; no guard
reads it. The report file may be there from the start, left by an earlier run. `Score` looks at the workspace and `Verify` runs the verification
command in it, which may leave files behind.

**Stage.** `FactsOf` is what `change_facts.py` makes of a worktree: the changed files with their
classes, ranges and modules, the candidates, the overlap of the listed write sets. `RouteContext`
is `route_context.py` with the tier `verification_tier` gives on the same input. A packet takes the
write set the plan gives its task, and `ValidatePacket` is the guard a coder must pass; registry and
worktree may change afterwards and nothing looks at the packet again, so it carries no property of its own.
A running coder edits what it owns. The preflight takes the facts as they were
collected and reads the worktree one analyzer at a time; `seen` remembers what each of them saw. An analyzer may be
absent, fail, print what is not a result (`AnalyzerBabbles`), or print JSON of a shape its parser raises on, which ends the
whole preflight without a report (`AnalyzerBreaks`).
A path is a file and a spelling of its name: `validate_packet` compares normalized keys, `route_context.py`
and the overlap compare the spellings, and so does the model.

## 3. Runs

| Run | Question and answer | Distinct states |
|---|---|---|
| `ledger_concurrent` | Three overlapping commands of every kind that may fail or be killed, on every legacy document: is the file always whole and free of new malformed entries, is an event lost to overlapping commands only? Does it implement `LedgerStore`? Yes. | 150,330 |
| `ledger_one_at_a_time` | Three commands in a row: does an update touch only its keys, does every command end whatever litter it finds? Yes. | 455,648 |
| `gate_one_task` | A tracked file, an untracked file nobody owns, a decision, several verdicts: is what completes fresh and owned, and does resume agree? Yes. | 272,232 |
| `gate_two_tasks` | Two tasks, two agents and cached facts: can a task get two coders, can a run complete while a coder works? No. | 108,866 |
| `gate_strict_plan` | A plan with scenarios and constraints: are the scenario checks of a completed run as fresh as its verifications? Yes. | 44,272 |
| `facts_snapshot` | Edits at any point of `collect_facts`: are the facts those of one worktree, and is `snapshot_changed` only raised for a worktree that kept changing? Yes. | 302,285 |
| `task_loop` | One task to its end with two troubles, dispatched again after an escalation: eight safety properties and termination. All hold. | 181,290 |
| `task_schedule` | Plans of three and four tasks, two at a time, on analyses that may be old: do parallel writers ever own one path, does anything start before its ancestors, is a session that obeys `ready` ever refused, are cycles and order right, does every task of an acyclic plan end? All is well. | 28,314 |
| `eval_case` | Two preparations, three steps of an agent and two scorings, any of them killed and any listing of git failing: when the listings worked, does only a worktree as the fixture wants it pass, and does a second scoring agree? Yes, but for a rename and for files git was told not to look at (section 6). | 5,099,060 |
| `phase_reports` | Two tasks, two coders each, two reports each: is a report lost only to an overlapping write, and read late only then? Yes. | 368,663 |
| `stage_session` | Six plans, three files, two edits, one preflight: are findings charged to the right lines, do blockers stand, do parallel writers own nothing in common, is risk verified, are facts of an ordered plan routable? Yes. | 647,924 |
| `same_range_edit` | a statement of the repository the code does not meet: section 6 | up to the counterexample |

### Bounds, and why they are enough

- **Three processes** in the ledger runs: a lost update needs two writers, and a third shows
  what a later reader makes of it. Two keys tell a merge from a replacement. Each process
  runs one command; commands have no memory between invocations.
- **Legacy documents**: a clean one, one with a malformed entry and null notes, one without
  notes: every branch of `migrate_runs`.
- **One or two files and contents 0..1** in the gate runs, 0 being the base: every check of
  the gate concerns one record or one file at a time, and staleness needs one edit.
  Contents 0..2 with equal spans in `same_range_edit`.
- **Two tasks and two agents** with the cache: a second coder on a task and a coder on
  another task. The run uses `VIEW WithoutHistory`: the history variables feed no
  guard and neither of its properties, so states that differ only there behave alike.
- **CacheTTL 1**: a fresh, an old and an expired entry.
- **Two files** (one tracked) with the contents of `MCFactsSnapshot`, **three attempts** as
  in the code: an edit to a file already read, not yet read, or read through the cache.
  `Fresh` forbids an edit that brings back a content of the same attempt, which no
  before-and-after comparison can detect.
- **Two contracts, six coders, two troubles, a breaker of two** in `task_loop`: `route_task` compares the two
  contracts only for equality; two troubles take a coder and its successor, or a coder and a reviewer. Six
  coders let the task go through two whole cycles and lose a coder in either. A breaker of two is
  the smallest with a cycle after a settled escalation; no cycle remembers the ones before it but
  through `escalations`. The round limits are the code's own three.

- **Every graph of three tasks**, self-loops included, the acyclic ones with every split of two
  paths; **four tasks** with a ring of two and up to three more edges, so that there can be two
  rings with an edge between them, where a second pass in the wrong direction merges them; and
  declarations that do not mirror each other. **Two slots**, so that a third task waits, and
  **one fix** of a task: a fix keeps a task in progress and nothing else.

- **Two tasks with two coders each and two reports each** in `phase_reports`: a lost report needs two
  writers, a stale answer an earlier coder of the same task.
- **Two preparations, two scorings, three steps of the agent** in `eval_case`: a stale state file needs a second
  preparation, a rescoring a second score; committing an edit takes three steps, an ignored or unwatched edit two,
  a rename one; each step changes something, and a report may be there from the start. Four files: one of the setup, one the agent may add, one the verification leaves
  and the marker. One case of each status. Generated contents and git's similarity are constants.
- **Three tasks, three files, six plans, two edits, three analyzers** in `stage_session`: the first and the third
  task share a file so that neighbours in the list need not overlap; one plan lists its tasks out of order,
  one spells a path in two ways, one sets its own risk, two leave out the listing. One preflight for each
  behaviour, since it keeps nothing; two edits, so that a file changes between facts and analyzer and
  another between two analyzers. One analyzer is for the dependency files, one scans the whole
  repository, one is not configured.

`CHECK_DEADLOCK FALSE` where the system really stops: all commands have ended, the facts are
collected, the task is over, the bounds of the agent or the coders are used up. Symmetry is used in safety runs over processes, agents or tasks, which
no definition orders.

### Fairness

- `RunLedger`: `WF(Step(p))` for each process. The operating system runs a process that was
  not killed, and no step of a command waits for another. A killed or failed process is done.
- `FactsSnapshot`: `WF(Collect)`, for the same reason; edits are not fair.
- `TaskLoop`: `WF(Progress)`: the main session goes on, its agents answer, and an unreadable
  runtime is read again some time. The user is not obliged to settle an escalation. Troubles, contract drift and integration fixes are not fair.
- `TaskSchedule`: `WF(Next)`: the main session goes on and its agents answer. Every step moves a
  task forward or renews an old analysis, so nothing more is needed.
- `CompletionPipeline`, `TaskReports`, `EvalHarness` and `StageSession` have none: nothing obliges anybody to
  finish a run, to report, to prepare or to review.

## 4. What is proved

All theorems hold for every value of the constants under the modules' named assumptions.

**`RunLedgerProofs`.** `TypeCorrect` and `PublishedLedgerValid` follow from `WritesAreValid`: a
process in the middle of a write holds a valid document, and one about to rename has all of it
in its temporary file. `FileAlwaysValid` alone is not inductive, since a rename publishes
whatever the temporary file holds. `MalformedEntriesComeFromLegacy` needs the same fact about
malformed entries in documents about to be written. `LedgerImplementsStore` is step
refinement under `ledger <- file, published <- the documents of history`: with
`WritesAreExplained` (what is about to be published is the effect of one command on some
published document) a rename is a store step and every other step a stutter. `StoreKeepsItsPromise` is
about the abstract store alone: it publishes valid documents only, and no malformed entry of its own.
The history theorems need `Lineage`: every commit by an update is the merge of its changes into the
document at the position its process read (`CommitsAreLinked`), what is about to be written is such a
merge too, the file is the last commit, and an event survives every later commit that read after it
(`EventsKept`). `CommittedEventsStay` is the last of these read at the file. `UndisturbedUpdates` is the
step from there to single entries: a commit that read the last version changes only what it names, also
in the midst of other commands. `UpdatesTouchOnlyTheirKeys` assumes `Exclusive`, under which every commit
read the last version; without it the property is false, since a stale update brings back old entries.

**`CompletionProofs`.** `CompletionLeavesNothingToResume` and `NoFactsNoCompletion` are about the two
operators, for all ledgers, also ones no run reaches. `PipelineTypeCorrect` carries
`Bookkeeping` (every agent that really runs is on record as running, no two such records
share a task), which gives `TasksHaveOneCoder` and `NobodyWrites`, with or without the
cache. `FreshCompletion` uses `FingerprintsAreAbout` (each recorded fingerprint is that of the
tree its result was about) and the injectivity of fingerprints, so it assumes `~UseCache`
and `EditsShow` (each content has ranges of its own). Without the second the property is
false, as `same_range_edit` shows; with the cache, facts can be as old as its TTL.
`CompletionOwnsEveryChange` assumes `~UseCache` only: the gate compares the names of changed and untracked
files, and `RecordsOwnTheirFiles` says that the write set of a record is the one the plan gives the task.

**`FactsSnapshotProofs`.** `FactsAreOfOneTree` assumes `Fresh`. The invariant `SnapshotsVouch` says,
for each file, that everything read of it agrees with the first snapshot as long as its
content is the one that snapshot saw; `Stages` says how far the reading is. A changed file
can never return to that content, so equal snapshots vouch for every read in between.
`FailureIsJustified` uses `QuietReading` (in an undisturbed attempt all that was read is the
worktree) and `Attempted`.

**`TaskLoopProofs`.** One inductive invariant for all nine theorems: `RoundsKept` (the counters that
travel through the caller are the rounds really made, and a fix under way is within the
limit), `EachInPlace` (who may be in which status in which phase), `ContractOfRevision`, `DispatchesPaid` (every contract but
the first of a cycle cost an escalation) and the claims themselves. `HonestCallsAreAccepted` is why the script can afford to be stateless and
strict; `EffortIsBounded` and `EscalationIsTrue` rest on the same counters: the second says that of all reports a session may
write, only the one that tells the rounds made gets an escalation.

**`TaskScheduleProofs`.** `ReadySound` and `ParallelSafeSound` are about `Analyze` on any graph and
any completed set. The first is why `ready` may look at direct predecessors only: `analyze` has
rejected a completed set that is not closed, and `Ancestors` is the least closed set. With
`PlanSound` (the last analysis still speaks the truth, since completed tasks stay completed)
and `StartedKnown` the three theorems are inductive together: `NeverRejected` needs
`AncestorsFirst` and the other way round.

`ScheduleCyclesFound` and `ScheduleOrderIsTopological` are about what the loops of `analyze` compute on
*every* consistent graph. `LoopEnds` is the rule for a `Loop`: an invariant that the body keeps and a
natural number that it lowers give that the loop ends in a state of the invariant. The library's induction
cannot be instantiated here, so the rule goes through `LeastMember` (a nonempty set of naturals has a
least member) applied to the set of counterexamples. The first pass keeps `WalkInv`: after each node
in `finish`, an edge out of the nodes finished so far ends among them or at a node that leads to that
last one (`Exits`); the nodes entered and not left lie on a path (`WalkChained`), and their successors
are visited or still on the stack above them (`WalkPending`). Its variant is `Effort`. From the end of such
an order, the second pass gathers from each start exactly its class
(`ComponentIsClass`, with `SplitInv` for what is assigned so far), and a class is a cycle when it has two
members or a self-loop (`CyclesAreCycles`). Kahn's loop keeps `SortInv`: an in-degree counts the
predecessors not yet listed, the queue holds exactly the unlisted tasks with none left, in no
repetition, and nothing is listed before a predecessor; when the queue is empty and a task is unlisted, going back
along unlisted predecessors never ends, so there is a cycle (`NothingLeft`, `WayOut`). Both results reach the
dispatch loop through `PlanAnalyzed`: the last answer is `Analyze` of this graph.

**`TaskReportsProofs`.** The invariant says that the array in the file is what the last write had loaded
and one entry, so an entry can be missing only from an array that was loaded before it was written.
`StaleOnlyWhenDropped` follows because a task has one coder at a time, whose own writes do not overlap.

**`EvalHarnessProofs`.** A verdict speaks of the tree it looked at (`Judged`), the baseline commit and the state
file speak of the same preparation whenever the harness accepts them, and a file that differs from
the baseline is in `ChangedFiles` unless git takes it for the source of a rename, wherever the agent has
put the difference: provided that every listing worked, and unless git was told not to look at the file
(`NewIsListed`, `SightTyped`). Under the same proviso the blocked case has no exception for
renames, since a rename needs a new file, which is listed watched or not.
`RescoringAgrees` assumes that every case is `Repeatable`: the fixture expects nothing of the files its
verification command leaves, and the command gives the same answer when they are there. The code checks
neither, and a case without it may fail the second time; `MCEvalHarness` asserts it of the cases of the
run. The invariant `Reproducible` says that as long as nobody has edited since a verdict, the worktree is
the one it looked at, with at most the leavings added, and that a verdict is a function of that tree.

**`StageSessionProofs`.** `AttributionIsRight` and `MachineBlockersStand` are proved for whatever analyzers say
and in whatever order: `deduplicate` picks a finding of the greatest rank for each place and joins the
sources, so a place never loses a finding, and the place fixes whether it is attributable. `WritersKeepApart`
needs that the coders that run were all started on one route. The other three are about two scripts that read
one input each, joined by the invariant that the route was taken on facts of some worktree.

`validate_packet` has no theorem: it is a guard of `StageSession`, and no step of the code looks at a packet
after it.

Types are proved (`TypeCorrect`, `PipelineTypeCorrect`, `SnapshotTypeCorrect`, `TaskTypeCorrect`, `ScheduleTypeCorrect`,
`EvalTypeCorrect`, `ReportsTyped`, `SessionTypeCorrect`) and not checked again by the runs.

**Only model-checked.** Liveness (`CommandsEnd`, `CollectionEnds`, `TaskEnds`, `TasksEnd`), which TLAPS does
not reach. Every invariant and every action property of a passing run is a theorem.

## 5. Abstractions to keep in mind

- JSON text, hashes and messages are left out: a fingerprint is the tuple it hashes.
- The main session is one writer in `CompletionPipeline`, so its updates are atomic there;
  `RunLedger` is where they are not.
- `CompletionPipeline` collects facts in one step; `FactsOfOneTree` is what allows that.
- A file too large for the read cache is hashed without it in `_worktree_snapshot`; it has no
  ranges or evidence then. The model caches every untracked file.
- Renames in git output are two files in the model.
- A commit-to-commit collection (`--head`) reads no worktree and is not modelled.
- `TaskGraph` leaves out the derived listings `blocked`, `blocked_successors`, `write_set_overlaps`
  and `dependencies`, which no decision in the loop reads, and iterates successors in the order
  of the tasks instead of their own list.
- In `StageSession` the regular expressions behind a class, a candidate or an analyzer's finding are
  constants: which contents they hit is given, what is done with a hit is modelled. Facts are collected
  in one step, as in `CompletionPipeline`. Fields with a JSON type of their own are well typed.
- In `EvalHarness` the manifest and its paths are valid. A workspace file that a kill cuts short is as one
  not written; a state file that is cut short is `Broken`.
- `EvalHarness` covers an agent that works with git's commands; one that rewrites git's objects is not covered.
- Task ids are integers in the model. The code compares them as strings, so `T10` sorts before `T2`: an
  ordered plan is one in that order.
- `Merged` picks one finding of the greatest rank among those of a place and joins the rest. The order in which
  `deduplicate` folds them decides fields it keeps from the first (message, line), which no property reads.
- In `TaskLoop` arguments the code checks only for their JSON type are well typed; a failure
  context keeps its rounds, freshness and coder status.

## 6. Findings

The violation run's counterexample follows the code line by line.

| Run | The code | The repository says |
|---|---|---|
| `same_range_edit` | the fingerprint has ranges, no content: an edit inside changed lines keeps old verdicts current (`run_ledger.py:65`) | any fix invalidates the old verdict (`SKILL.md:33`) |

Divergences seen while modelling, without a run of their own:

- Two overlapping updates: the later rename drops the event of the earlier (`run_ledger.py:478`), while
  `references/run-ledger.md:33` calls events append-only. `OnlyOverlapLosesEvents` says what does hold.
- `migrate` sees no target, `init` makes one, `migrate` replaces it (`run_ledger.py:798`), while an existing
  target should be skipped (`references/run-ledger.md:114`).
- `analysis_notes: null` is valid, and extending it raises and ends in exit 1 (`run_ledger.py:463`), while no
  input problem should end there (`references/run-ledger.md:98`).
- The return codes of `git status` and `git ls-files` are not looked at (`eval_harness.py:492`, `511`): a
  listing that fails counts as no change. Files git was told not to look at are in no listing, and the hashes of
  the setup that `prepare` records (`eval_harness.py:438`) are compared with nothing. The docstring
  (`eval_harness.py:15`) says that committed and hidden changes are all detected. `PassMeansExpected`,
  `BlockedPassMeansUntouched` and `RescoreAgrees` claim what is left.
- `route_task` and `references/task-convergence.md:42` allow one re-contract, so two contracts, for a task and then
  escalate; `SKILL.md:206` and `references/review-routing.md:224` allow up to two rethink dispatches, then
  ask the user, set the rounds back to 0 and go on until a breaker of nine, which only the session
  counts: `route_task` remembers no call. Setting the rounds back is also what
  `references/task-convergence.md:51` forbids. `BoundedEffort` says what the two together guarantee: three rounds for
  each contract, and two contracts for each escalation the breaker allows.
- JSON of a nested shape that a parser does not expect (`review_preflight.py:210`) ends the preflight in
  `internal_error`, while `references/review-routing.md:198` calls every analyzer failure non-fatal.
- A committed rename is listed by its destination only (`eval_harness.py:479`), while the
  module's docstring says that all changes since the baseline are found: a setup file may be gone from a
  passing case whose new file looks like it. `PassMeansExpected` names that exception.
- A `VERIFIED` list with a text in it makes `score` end in `internal_error`.
- An overlap names its two tasks in the order the write sets were given; `_validate_overlap_semantics`
  refuses one whose first name sorts after the second: `RoutableWhenOrdered` holds for ordered lists only.
- `route_context.py` and the overlap compare paths as they are spelled, `task_graph.py` and the packet validation
  normalized ones, and no script compares packets with each other.
- A task risk of NORMAL overrides what the facts confirm; a route without facts is NORMAL; a migration is
  HIGH for G2 and INTEGRATION for the tier. `change_facts.py` never writes a `confirmed` candidate.
- `--out-index` prints keys of the preflight's result that do not exist, so its lists are empty;
  `references/automation-commands.md:17` recommends it.
- A non-zero exit of a configured analyzer is a blocker, output that cannot be parsed is not, and empty output
  counts as clean. Deleted files are passed to analyzers. ast-grep counts lines from zero and is read as if
  from one. The names that make osv-scanner run are not the dependency classes of `change_facts.py`.
- `validate_packet` strips the dependencies and not the `task_id` it looks for in `affects`, takes any
  entry in `--plan-constraints`, and checks only the decisions a packet refers to.
- The soft gate checks the merged section, so an old malformed entry blocks every clean write to
  its section (`run_ledger.py:482`), while `references/run-ledger.md:84` rejects the entries that
  *this* change writes.
- `init` on a run that exists replaces its ledger without a question (`run_ledger.py:917`).
- The key list of `references/run-ledger.md:29` omits `analysis_notes`, which
  `_validate_ledger` requires: a ledger written by that list is corrupt.
- The facts cache is keyed by the arguments, so facts from before an edit are served until the
  TTL is over (`change_facts.py:1164`).
- `missing_constraint_mappings` is a reason `evaluate` gives and `REASON_CODES` omits.
- `task_report.write_entry` and `read_latest` take `start` and `codex_home` and ignore them.
- `decide` answers `PARK` to `ship` for a coder that is `ACTIVE` or `WAITING_VERIFICATION`, while
  the transition table has `ship` from `WAITING_AUDIT` only.
- The table has no way into or out of `PARKED_FOR_RETHINK`, and no event for a coder that is lost
  while `ACTIVE`: `TaskEnds` excepts that case (`LostWhileActive`).
- `references/task-convergence.md` forbids counters that skip or go back; a stateless script
  can only check that they are consistent.
- `parallel_safe` compares write sets only: a task may read what a parallel one writes.
- After a diagnosis `route_task` may spawn a successor because the responsibility boundary
  changed, without looking at the state of the runtime as `decide` does.

## 7. Not modelled, and the plan

1. `RunLedger`: `list` and `resume` on the concurrent file.
2. `EvalHarness`: the validation of manifests and the checks of the workspace path.
3. `ContextRouting`: G1, G3 and G5, lists that depend on the facts without a state or an order.
4. The safety half of the four liveness properties: for each, a measure that every step of progress
   lowers and no other step raises without bound.

Left out for good: `wait_strategy.py` (a table whose properties it states itself), `route_all.py` (prints what
three scripts answer), `model_prompt.py` and context packing (text), the analyzers' own output
formats, `scripts/validate.py` and the installers (tooling of the repository).
