---------------------------- MODULE EvalHarness ----------------------------
(***************************************************************************)
(* eval_harness.py of the contract executor: prepare builds a workspace    *)
(* with a baseline commit and, outside of it, a state file that names the  *)
(* commit; an agent works in the workspace and reports; score compares     *)
(* the workspace with the baseline and the report with the fixture.        *)
(*                                                                         *)
(* A tree maps every file to its content or to Absent.  The workspace has  *)
(* three of them: head, index and tree (the worktree).  Marker holds the   *)
(* case id; the other four files that prepare adds are files of the setup  *)
(* outside every write set.  A commit is identified by the number of the   *)
(* preparation that made it.                                               *)
(*                                                                         *)
(* Covered: an agent that edits, renames, stages, commits, amends, writes  *)
(* exclude rules and marks files that git shall not look at; git commands  *)
(* that fail.  Not covered: an agent that rewrites git's objects.          *)
(***************************************************************************)
EXTENDS Integers, FiniteSets

CONSTANTS
  Files,      \* the paths a fixture or an agent may use, with Marker
  Marker,     \* the file .crp-eval-workspace
  Contents,   \* what a file may hold
  Generated,  \* the content of a file that the verification leaves behind
  Absent,     \* the "content" of a file that is not there
  Cases,      \* the case ids of the manifest
  Fixture,    \* the fixture of each case
  Reports,    \* the reports an agent may hand in
  Similar,    \* pairs of contents that git diff takes for a rename
  VerificationOk(_, _),  \* whether a case's command ends as expected on a tree
  None, Broken,  \* no value, a state file cut short
  MaxPrepares, MaxEdits, MaxScores  \* bounds on the steps of the operator
                                    \* and of the agent

Status == {"completed", "blocked"}
Value  == Contents \union Cases \union {Generated, Absent}
Tree   == [Files -> Value]
Empty  == [f \in Files |-> Absent]

\* The part of a fixture that score uses.  want holds expected["files"] and
\* leaves the files its verification command creates.
FixtureRecord ==
  [setup : Tree, writeSet : SUBSET Files, status : Status,
   changed : SUBSET Files, want : [Files -> (Value \ {Absent}) \union {None}],
   allow : SUBSET Files, leaves : SUBSET Files]

\* form "text": an object whose VERIFIED list has an item that is no object.
Report ==
  [form    : {"undecodable", "unparsable", "text", "malformed", "sound"},
   status  : Status,
   changes : BOOLEAN,                  \* CHANGES has entries
   gaps    : BOOLEAN,                  \* GAPS names a decision and evidence
   claim   : {"none", "ok", "bad"}]    \* what VERIFIED says of the command

StateFile == [commit : Nat, case : Cases]

ASSUME HarnessInputs ==
  /\ Marker \in Files
  /\ IsFiniteSet(Files)
  /\ Cases \intersect ({Generated, Absent} \union Contents) = {}
  /\ Absent \notin Contents \union {Generated}
  /\ Fixture \in [Cases -> FixtureRecord]
  /\ \A c \in Cases :
       /\ Fixture[c].setup[Marker] = Absent
       /\ Marker \notin Fixture[c].writeSet \union Fixture[c].allow
  /\ Reports \subseteq Report
  /\ {MaxPrepares, MaxEdits, MaxScores} \subseteq Nat
  /\ None \notin Cases \union Value \union Nat
  /\ {None, Broken} \intersect StateFile = {}

VARIABLES
  tree, index, head,  \* the worktree, the index and HEAD of the workspace
  base,       \* the tree of the baseline commit of this repository
  repo,       \* the preparation that made it, None before git init
  ignored,    \* untracked files that an exclude rule hides
  unwatched,  \* tracked files that git was told not to look at
  state,      \* the state file: None, Broken, or the baseline it names
  pc,         \* the step of the running command
  working,    \* the case of the running command, or of the workspace
  report,     \* the report file
  found,      \* what a running score has gathered
  verdict,    \* the last verdict, with what it was given on
  outcome,    \* how the last command ended, until someone goes on
  prepares, edits, scores

repository == <<index, head, base, repo, ignored, unwatched>>
counters   == <<prepares, edits, scores>>
vars == <<tree, repository, state, pc, working, report, found, verdict,
          outcome, counters>>

\* sight, looked, over and at are history: whether every listing worked and
\* which differences git was told not to see, the worktree that score listed,
\* the preparation it was scored against and the agent's steps until then.
Sight     == [listed : BOOLEAN, blind : SUBSET Files]
Finding   == [case : Cases, tree : Tree, ok : BOOLEAN, sight : Sight]
Verdict   == [case : Cases, pass : BOOLEAN, looked : Tree, over : Nat,
              at : Nat, timedOut : BOOLEAN, sight : Sight]

EvalTypeOK ==
  /\ tree \in Tree /\ index \in Tree /\ head \in Tree /\ base \in Tree
  /\ repo \in Nat \union {None}
  /\ ignored \subseteq Files /\ unwatched \subseteq Files
  /\ state \in StateFile \union {None, Broken}
  /\ pc \in {"idle", "files", "adding", "committing", "saving", "verifying"}
  /\ working \in Cases \union {None}
  /\ report \in Reports \union {None}
  /\ found \in Finding \union {None}
  /\ verdict \in Verdict \union {None}
  /\ outcome \in {None, "ok", "invalid_input", "internal_error", "killed"}
  /\ prepares \in Nat /\ edits \in Nat /\ scores \in Nat

Init ==
  /\ tree = Empty /\ index = Empty /\ head = Empty /\ base = Empty
  /\ repo = None /\ ignored = {} /\ unwatched = {}
  /\ state = None
  /\ pc = "idle" /\ working = None
  /\ report \in Reports \union {None}  \* a report of an earlier run, perhaps
  /\ found = None /\ verdict = None /\ outcome = None
  /\ prepares = 0 /\ edits = 0 /\ scores = 0

Prepared(c) == [Fixture[c].setup EXCEPT ![Marker] = c]

WithLeavings(t, c) ==
  [f \in Files |-> IF f \in Fixture[c].leaves /\ t[f] = Absent
                     THEN Generated ELSE t[f]]

\* A case whose verification can be run again: its fixture expects nothing of
\* the files the command leaves, and the command does not look at them.
Repeatable(c) ==
  /\ \A f \in Fixture[c].leaves : Fixture[c].want[f] = None
  /\ \A t \in Tree : VerificationOk(c, WithLeavings(t, c)) = VerificationOk(c, t)
-----------------------------------------------------------------------------
(* prepare *)

\* The workspace must be empty or not exist: .git counts as content.
Prepare(c) ==
  /\ pc = "idle" /\ prepares < MaxPrepares
  /\ prepares' = prepares + 1
  /\ IF tree = Empty /\ repo = None
       THEN pc' = "files" /\ working' = c /\ outcome' = None
       ELSE outcome' = "invalid_input" /\ UNCHANGED <<pc, working>>
  /\ UNCHANGED <<tree, repository, state, report, found, verdict, edits, scores>>

\* The setup files one after the other, the files of the harness last; a
\* prepare that dies here has written some of them.
WriteSetup ==
  /\ pc = "files"
  /\ tree' = Prepared(working)
  /\ pc' = "adding"
  /\ UNCHANGED <<repository, state, working, report, found, verdict, outcome,
                 counters>>
DieInSetup ==
  /\ pc = "files"
  /\ \E written \in SUBSET (Files \ {Marker}) :
       tree' = [f \in Files |-> IF f \in written THEN Prepared(working)[f]
                                                 ELSE Absent]
  /\ pc' = "idle" /\ outcome' = "killed"
  /\ UNCHANGED <<repository, state, working, report, found, verdict, counters>>

\* git init and git add -A: the status of neither is looked at.
AddAll ==
  /\ pc = "adding"
  /\ repo' = prepares
  /\ index' \in {tree, Empty}
  /\ pc' = "committing"
  /\ UNCHANGED <<tree, head, base, ignored, unwatched, state, working, report,
                 found, verdict, outcome, counters>>

\* git commit --allow-empty.
CommitBaseline ==
  /\ pc = "committing"
  /\ head' = index /\ base' = index
  /\ pc' = "saving"
  /\ UNCHANGED <<tree, index, repo, ignored, unwatched, state, working, report,
                 found, verdict, outcome, counters>>
CommitFails ==
  /\ pc = "committing"
  /\ pc' = "idle" /\ outcome' = "internal_error"
  /\ UNCHANGED <<tree, repository, state, working, report, found, verdict,
                 counters>>

\* The state file is written in place, after everything else.
SaveState ==
  /\ pc = "saving"
  /\ state' = [commit |-> repo, case |-> working]
  /\ pc' = "idle" /\ outcome' = "ok"
  /\ UNCHANGED <<tree, repository, working, report, found, verdict, counters>>

\* The process dies between two steps of prepare or while it writes the
\* state file, or in a score whose verification has already left its files.
Kill ==
  /\ pc \in {"adding", "committing", "saving", "verifying"}
  /\ state' \in IF pc = "saving" THEN {state, Broken} ELSE {state}
  /\ tree' = IF pc = "verifying" THEN WithLeavings(tree, working) ELSE tree
  /\ pc' = "idle" /\ outcome' = "killed" /\ found' = None
  /\ UNCHANGED <<repository, working, report, verdict, counters>>

\* The operator clears the workspace; the state file stays where it is.
RemoveWorkspace ==
  /\ pc = "idle"
  /\ tree # Empty \/ repo # None
  /\ tree' = Empty /\ index' = Empty /\ head' = Empty /\ base' = Empty
  /\ repo' = None /\ ignored' = {} /\ unwatched' = {}
  /\ outcome' = None
  /\ UNCHANGED <<state, pc, working, report, found, verdict, counters>>
-----------------------------------------------------------------------------
(* The agent, in a workspace with a repository; each step changes something. *)

AgentWorks ==
  /\ pc = "idle" /\ repo # None /\ edits < MaxEdits
  /\ edits' = edits + 1
  /\ outcome' = None
  /\ UNCHANGED <<base, repo, state, pc, working, found, verdict, prepares, scores>>

Edit(f, v) ==
  /\ AgentWorks
  /\ tree[f] # v
  /\ tree' = [tree EXCEPT ![f] = v]
  /\ UNCHANGED <<index, head, ignored, unwatched, report>>
Rename(f, g) ==
  /\ AgentWorks
  /\ f # g /\ tree[f] # Absent
  /\ tree' = [tree EXCEPT ![g] = tree[f], ![f] = Absent]
  /\ UNCHANGED <<index, head, ignored, unwatched, report>>
\* git add -A: an ignored file that is not tracked stays out, and a file that
\* git does not look at stays as it is.
Stage ==
  /\ AgentWorks
  /\ index' = [f \in Files |->
                 IF \/ f \in unwatched
                    \/ f \in ignored /\ index[f] = Absent
                   THEN index[f] ELSE tree[f]]
  /\ index' # index
  /\ UNCHANGED <<tree, head, ignored, unwatched, report>>
\* git commit, with --amend or without: the baseline commit stays reachable.
Commit ==
  /\ AgentWorks
  /\ head # index
  /\ head' = index
  /\ UNCHANGED <<tree, index, ignored, unwatched, report>>
Ignore(f) ==
  /\ AgentWorks
  /\ f \notin ignored
  /\ ignored' = ignored \union {f}
  /\ UNCHANGED <<tree, index, head, unwatched, report>>
\* git update-index: assume a tracked file unchanged, or skip it.
Unwatch(f) ==
  /\ AgentWorks
  /\ index[f] # Absent /\ f \notin unwatched
  /\ unwatched' = unwatched \union {f}
  /\ UNCHANGED <<tree, index, head, ignored, report>>
\* The report lies outside of the workspace.
HandIn(r) ==
  /\ AgentWorks
  /\ report # r
  /\ report' = r
  /\ UNCHANGED <<tree, index, head, ignored, unwatched>>
-----------------------------------------------------------------------------
(* score *)

Differing(a, b) == {f \in Files : a[f] # b[f]}

\* git diff --name-only pairs a path that disappeared with a similar new one
\* and then names only the new path.
Disappeared(a, b) == {f \in Files : a[f] # Absent /\ b[f] = Absent}
Lookalikes(a, b, f) == {s \in Disappeared(a, b) : <<a[s], b[f]>> \in Similar}
RenameTargets(a, b) ==
  {f \in Files : a[f] = Absent /\ b[f] # Absent /\ Lookalikes(a, b, f) # {}}
RenameSources(a, b) ==
  {CHOOSE s \in Lookalikes(a, b, f) : TRUE : f \in RenameTargets(a, b)}

\* git status --porcelain names both paths of a rename.
Staged(h, i)      == Differing(h, i)
Unstaged(i, t)    == {f \in Differing(i, t) : i[f] # Absent} \ unwatched
Untracked(i, t)   == {f \in Files : i[f] = Absent /\ t[f] # Absent}

Committed(b, h) == Differing(b, h) \ RenameSources(b, h)
Listed(h, i, t, failed) ==
  IF "status" \in failed THEN {}
    ELSE Staged(h, i) \union Unstaged(i, t) \union (Untracked(i, t) \ ignored)
Hidden(i, t, failed) ==
  IF "ls-files" \in failed THEN {} ELSE Untracked(i, t) \intersect ignored

\* Mutants: what the agent committed, or hid behind an exclude rule, is not
\* listed.
StatusOnly(b, h, i, t, failed) == Listed(h, i, t, failed) \union Hidden(i, t, failed)
NoHidden(b, h, i, t, failed)   == Committed(b, h) \union Listed(h, i, t, failed)

\* _workspace_changed_files: the committed paths, git status with every
\* untracked file, and the files that are ignored but present.  Only git diff
\* is checked: a git status or git ls-files that fails prints no path.
ChangedFiles(b, h, i, t, failed) ==
  Committed(b, h) \union Listed(h, i, t, failed) \union Hidden(i, t, failed)

\* Mutant: the allowlist is not applied.
VisibleAll(c, changed) == changed
Visible(c, changed) ==
  IF Fixture[c].status = "completed" THEN changed \ Fixture[c].allow ELSE changed

ReportOk(c, r) ==
  /\ r.form = "sound"
  /\ r.status = Fixture[c].status
  /\ r.changes = (Fixture[c].status = "completed")
  /\ Fixture[c].status = "blocked" => r.gaps

\* The checks of _score on the files.
FilesOk(c, t, changed) ==
  /\ Visible(c, changed) \subseteq Fixture[c].writeSet
  /\ Visible(c, changed) = Fixture[c].changed
  /\ \A f \in Files : Fixture[c].want[f] \in {None, t[f]}
  /\ Fixture[c].status = "blocked" => changed = {}

Conclude(c, passed, looked, sight, timedOut) ==
  /\ verdict' = [case |-> c, pass |-> passed, looked |-> looked,
                 over |-> state.commit, at |-> edits, timedOut |-> timedOut,
                 sight |-> sight]
  /\ pc' = "idle" /\ outcome' = "ok" /\ found' = None

Refuse(how) ==
  /\ pc' = "idle" /\ outcome' = how /\ found' = None
  /\ UNCHANGED verdict

\* _load_state: the state file names this case and a commit.
StateOk(c) == state \in StateFile /\ state.case = c

\* The repository has the commit that the state file names.
BaselineUsable == repo # None /\ state.commit = repo

ScoreRefused(c) ==
  \/ tree[Marker] # c
  \/ ~StateOk(c)
  \/ report # None /\ report.form = "undecodable"

\* What score sees of the workspace when some listings fail.
Seen(failed) ==
  [listed |-> failed = {}, blind |-> unwatched \intersect Differing(index, tree)]
Nothing == [listed |-> TRUE, blind |-> {}]

\* The checks of _score with the changes listed.
Examine(c, failed) ==
  LET changed == ChangedFiles(base, head, index, tree, failed)
      ok == ReportOk(c, report) /\ FilesOk(c, tree, changed)
  IN  IF Fixture[c].status = "blocked"
        THEN Conclude(c, ok, tree, Seen(failed), FALSE) /\ UNCHANGED working
        ELSE /\ found' = [case |-> c, tree |-> tree, ok |-> ok,
                          sight |-> Seen(failed)]
             /\ pc' = "verifying" /\ working' = c
             /\ UNCHANGED <<verdict, outcome>>

\* _score up to the verification command: nothing is written until then.
\* git diff fails at least when the repository does not have the commit.
Score(c) ==
  /\ pc = "idle" /\ scores < MaxScores
  /\ scores' = scores + 1
  /\ IF ScoreRefused(c) THEN Refuse("invalid_input") /\ UNCHANGED working
     ELSE IF report = None \/ report.form = "unparsable"
       THEN Conclude(c, FALSE, tree, Nothing, FALSE) /\ UNCHANGED working
     ELSE \/ Refuse("internal_error") /\ UNCHANGED working
          \/ /\ BaselineUsable
             /\ \E failed \in SUBSET {"status", "ls-files"} : Examine(c, failed)
  /\ UNCHANGED <<tree, repository, state, report, prepares, edits>>

\* _run_verification and the checks after it: the command runs in the
\* workspace, may time out, and leaves files.  A VERIFIED item that is no
\* object has no get method.
Verify ==
  /\ pc = "verifying"
  /\ tree' = WithLeavings(tree, working)
  /\ \E timedOut \in BOOLEAN :
       IF report.form = "text"
         THEN Refuse("internal_error")
         ELSE Conclude(working,
                       /\ found.ok /\ ~timedOut
                       /\ VerificationOk(working, tree)
                       /\ report.claim = "ok",
                       found.tree, found.sight, timedOut)
  /\ UNCHANGED <<repository, state, working, report, counters>>

PrepareStep == WriteSetup \/ DieInSetup \/ AddAll \/ CommitBaseline \/
               CommitFails \/ SaveState

AgentStep ==
  \/ \E f \in Files \ {Marker}, v \in Contents \union {Absent} : Edit(f, v)
  \/ \E f, g \in Files \ {Marker} : Rename(f, g)
  \/ Stage
  \/ Commit
  \/ \E f \in Files \ {Marker} : Ignore(f) \/ Unwatch(f)
  \/ \E r \in Reports : HandIn(r)

Next ==
  \/ \E c \in Cases : Prepare(c) \/ Score(c)
  \/ PrepareStep
  \/ Verify
  \/ Kill
  \/ RemoveWorkspace
  \/ AgentStep

Spec == Init /\ [][Next]_vars
-----------------------------------------------------------------------------
(* A case passes only on a worktree that is the fixture's setup but for the *)
(* expected changes and, in a completed case, what the allowlist names:     *)
(* whatever the agent staged, committed, amended or ignored, and although   *)
(* the preparation may have been killed and redone and an old state file    *)
(* left behind.  It is worth that much only when git status and ls-files    *)
(* worked, whose failure score takes for no change, and not of a file that  *)
(* git was told not to look at.  One gap more: a setup file may be gone     *)
(* when a new file is among the allowed changes, for git may take the pair  *)
(* for a rename.                                                            *)
Allowed(c) ==
  Fixture[c].changed \union
  (IF Fixture[c].status = "completed" THEN Fixture[c].allow ELSE {})
MayBeRenamed(c, f, looked) ==
  looked[f] = Absent /\ \E g \in Allowed(c) : Fixture[c].setup[g] = Absent
PassMeansExpected ==
  verdict # None /\ verdict.pass /\ verdict.sight.listed =>
    \A f \in Files \ verdict.sight.blind :
      \/ verdict.looked[f] = Prepared(verdict.case)[f]
      \/ f \in Allowed(verdict.case)
      \/ MayBeRenamed(verdict.case, f, verdict.looked)

(* A blocked case passes only on the untouched setup: not even a rename or  *)
(* a generated file gets by, unless a listing failed or git was told not to *)
(* look.                                                                    *)
BlockedPassMeansUntouched ==
  /\ verdict # None /\ verdict.pass /\ verdict.sight.listed
  /\ Fixture[verdict.case].status = "blocked"
  => \A f \in Files \ verdict.sight.blind :
       verdict.looked[f] = Prepared(verdict.case)[f]

(* Scoring again what nobody has touched gives the same verdict, although   *)
(* the first scoring ran the verification in the workspace: as long as the  *)
(* allowlist names what the command leaves there, the command does not time *)
(* out, no listing fails and the case is Repeatable, as every case of the   *)
(* run is.                                                                  *)
SameWork(v, w) == v.case = w.case /\ v.over = w.over /\ v.at = w.at
RescoreAgrees ==
  [][verdict # None /\ verdict' # verdict /\ SameWork(verdict, verdict') =>
       \/ verdict.pass = verdict'.pass
       \/ verdict.timedOut \/ verdict'.timedOut
       \/ ~verdict.sight.listed \/ ~verdict'.sight.listed
       \/ ~(Fixture[verdict.case].leaves \subseteq Fixture[verdict.case].allow)
    ]_vars
=============================================================================
