------------------------- MODULE EvalHarnessProofs -------------------------
(***************************************************************************)
(* What a PASS of the contract executor's evaluation is worth, for every   *)
(* fixture.  The argument: when every listing works, a file that differs   *)
(* from the baseline and is not among the listed changes is one that git   *)
(* was told not to look at, or was taken for the old path of a rename      *)
(* whose new path is listed; and when the baseline commit is the one that  *)
(* the state file names, it holds the setup of the case, or nothing at all *)
(* (git add is not checked), which the marker gives away.                  *)
(***************************************************************************)
EXTENDS EvalHarness, TLAPS

LEMMA FixtureShape ==
  ASSUME NEW c \in Cases
  PROVE  /\ Fixture[c].setup \in Tree /\ Fixture[c].setup[Marker] = Absent
         /\ Fixture[c].writeSet \subseteq Files
         /\ Fixture[c].status \in Status
         /\ Marker \notin Fixture[c].writeSet /\ Marker \notin Fixture[c].allow
         /\ c # Absent /\ Marker \in Files
  BY HarnessInputs DEF FixtureRecord

LEMMA PreparedShape ==
  ASSUME NEW c \in Cases
  PROVE  /\ Prepared(c) \in Tree
         /\ Prepared(c)[Marker] = c
         /\ \A f \in Files : f # Marker => Prepared(c)[f] = Fixture[c].setup[f]
<1>1. Fixture[c].setup \in [Files -> Value] /\ Marker \in Files /\ c \in Value
  BY FixtureShape DEF Tree, Value
<1> QED
  BY <1>1 DEF Prepared, Tree

LEMMA TreesAreTyped ==
  /\ Empty \in Tree
  /\ \A c \in Cases, t \in Tree : WithLeavings(t, c) \in Tree
  BY DEF Empty, Tree, Value, WithLeavings

(* A rename source is a path that is gone, and the new path is listed.     *)
LEMMA SourceHasTarget ==
  ASSUME NEW b \in Tree, NEW h \in Tree, NEW i, NEW t, NEW failed,
         NEW s \in RenameSources(b, h)
  PROVE  /\ s \in Files /\ b[s] # Absent /\ h[s] = Absent
         /\ \E g \in Files : b[g] = Absent /\ g \in ChangedFiles(b, h, i, t, failed)
<1>1. PICK g \in RenameTargets(b, h) : s = CHOOSE o \in Lookalikes(b, h, g) : TRUE
  BY DEF RenameSources
<1>2. g \in Files /\ b[g] = Absent /\ h[g] # Absent /\ Lookalikes(b, h, g) # {}
  BY <1>1 DEF RenameTargets
<1>3. s \in Lookalikes(b, h, g)
  BY <1>1, <1>2
<1>4. s \in Files /\ b[s] # Absent /\ h[s] = Absent
  BY <1>3 DEF Lookalikes, Disappeared
<1>5. g \notin RenameSources(b, h)
  <2> SUFFICES ASSUME g \in RenameSources(b, h) PROVE FALSE
    OBVIOUS
  <2>1. PICK k \in RenameTargets(b, h) :
          g = CHOOSE o \in Lookalikes(b, h, k) : TRUE
    BY DEF RenameSources
  <2>2. Lookalikes(b, h, k) # {}
    BY <2>1 DEF RenameTargets
  <2>3. g \in Lookalikes(b, h, k)
    BY <2>1, <2>2
  <2> QED
    BY <1>2, <2>3 DEF Lookalikes, Disappeared
<1>6. g \in ChangedFiles(b, h, i, t, failed)
  BY <1>2, <1>5 DEF ChangedFiles, Committed, Differing
<1> QED
  BY <1>2, <1>4, <1>6

(* The differences that git was told not to see. *)
Unseen(i, t) == unwatched \intersect Differing(i, t)

(* What differs from the baseline is listed or unseen, or went away in a   *)
(* rename.                                                                 *)
LEMMA Detected ==
  ASSUME NEW b \in Tree, NEW h \in Tree, NEW i \in Tree, NEW t \in Tree,
         NEW f \in Files, b[f] # t[f], f \notin Unseen(i, t),
         f \notin ChangedFiles(b, h, i, t, {})
  PROVE  /\ b[f] # Absent /\ t[f] = Absent
         /\ \E g \in Files : b[g] = Absent /\ g \in ChangedFiles(b, h, i, t, {})
<1>1. h[f] = i[f]
  BY DEF ChangedFiles, Listed, Staged, Differing
<1>2. i[f] = t[f]
  <2>1. f \notin Unstaged(i, t) /\ f \notin Untracked(i, t)
    BY DEF ChangedFiles, Listed, Hidden
  <2> QED
    BY <2>1 DEF Unseen, Unstaged, Untracked, Differing
<1>3. f \in RenameSources(b, h)
  BY <1>1, <1>2 DEF ChangedFiles, Committed, Differing
<1> QED
  BY <1>1, <1>2, <1>3, SourceHasTarget

(* A file that the baseline does not have is listed, whatever git was told. *)
LEMMA NewIsListed ==
  ASSUME NEW b \in Tree, NEW h \in Tree, NEW i \in Tree, NEW t \in Tree,
         NEW f \in Files, b[f] = Absent, t[f] # Absent
  PROVE  f \in ChangedFiles(b, h, i, t, {})
<1>1. CASE i[f] = Absent
  BY <1>1 DEF ChangedFiles, Listed, Hidden, Untracked
<1>2. CASE i[f] # Absent /\ h[f] # i[f]
  BY <1>2 DEF ChangedFiles, Listed, Staged, Differing
<1>3. CASE i[f] # Absent /\ h[f] = i[f]
  <2>1. f \notin RenameSources(b, h)
    BY SourceHasTarget
  <2> QED
    BY <1>3, <2>1 DEF ChangedFiles, Committed, Differing
<1> QED
  BY <1>1, <1>2, <1>3

(* The checks of score on the files, against a baseline as prepare leaves   *)
(* it.                                                                     *)
AsExpected(c, t, blind) ==
  /\ \A f \in Files \ blind :
       t[f] = Prepared(c)[f] \/ f \in Allowed(c) \/ MayBeRenamed(c, f, t)
  /\ Fixture[c].status = "blocked" =>
       \A f \in Files \ blind : t[f] = Prepared(c)[f]

LEMMA FilesOkIsSound ==
  ASSUME NEW c \in Cases, NEW b \in {Prepared(c), Empty},
         NEW h \in Tree, NEW i \in Tree, NEW t \in Tree, t[Marker] = c,
         FilesOk(c, t, ChangedFiles(b, h, i, t, {}))
  PROVE  AsExpected(c, t, Unseen(i, t))
<1> DEFINE changed == ChangedFiles(b, h, i, t, {})
<1>1. /\ Visible(c, changed) \subseteq Fixture[c].writeSet
      /\ Visible(c, changed) = Fixture[c].changed
      /\ Fixture[c].status = "blocked" => changed = {}
  BY DEF FilesOk
<1>2. changed \subseteq Allowed(c)
  BY <1>1, FixtureShape DEF Visible, Allowed
<1>3. Marker \notin changed
  BY <1>1, FixtureShape DEF Visible
<1>4. b \in Tree /\ Prepared(c) \in Tree
  BY PreparedShape, TreesAreTyped
<1>5. b = Prepared(c)
  <2> SUFFICES ASSUME b = Empty PROVE FALSE
    OBVIOUS
  <2>1. b[Marker] = Absent /\ t[Marker] # Absent
    BY FixtureShape DEF Empty
  <2> QED
    BY <1>3, <1>4, <2>1, NewIsListed, FixtureShape
<1>6. ASSUME NEW f \in Files \ Unseen(i, t), t[f] # Prepared(c)[f], f \notin Allowed(c)
      PROVE  MayBeRenamed(c, f, t)
  <2>1. PICK g \in Files : b[g] = Absent /\ g \in changed
    BY <1>2, <1>4, <1>5, <1>6, Detected
  <2>2. t[f] = Absent
    BY <1>2, <1>4, <1>5, <1>6, Detected
  <2>3. Fixture[c].setup[g] = Absent
    BY <1>3, <1>5, <2>1, PreparedShape
  <2> QED
    BY <1>2, <2>1, <2>2, <2>3 DEF MayBeRenamed
<1>7. ASSUME Fixture[c].status = "blocked", NEW f \in Files \ Unseen(i, t)
      PROVE  t[f] = Prepared(c)[f]
  <2>1. changed = {}
    BY <1>1, <1>7
  <2> QED
    BY <1>4, <1>5, <1>7, <2>1, Detected
<1> QED
  BY <1>6, <1>7 DEF AsExpected
-----------------------------------------------------------------------------
(* The inductive invariant.  A preparation under way has a number of its   *)
(* own, which the state file does not have yet; that is why a commit made  *)
(* by one that was killed is never taken for the baseline.                 *)
Numbered ==
  /\ repo \in Nat => repo <= prepares
  /\ state \in StateFile => state.commit <= prepares
  /\ pc \in {"files", "adding", "committing", "saving"} =>
       /\ working \in Cases
       /\ state \in StateFile => state.commit < prepares
  /\ pc \in {"committing", "saving"} => repo = prepares

AsPrepared ==
  /\ pc = "adding" => tree = Prepared(working)
  /\ pc = "committing" => index \in {Prepared(working), Empty}
  /\ pc = "saving" => base \in {Prepared(working), Empty}
  /\ state \in StateFile /\ repo = state.commit =>
       base \in {Prepared(state.case), Empty}

Gathered ==
  pc = "verifying" =>
    /\ working \in Cases /\ Fixture[working].status = "completed"
    /\ found \in Finding /\ found.tree \in Tree /\ state \in StateFile
    /\ found.ok /\ found.sight.listed =>
         AsExpected(working, found.tree, found.sight.blind)

Judged ==
  verdict # None /\ verdict.pass /\ verdict.sight.listed =>
    AsExpected(verdict.case, verdict.looked, verdict.sight.blind)

EvalInv == EvalTypeOK /\ Numbered /\ AsPrepared /\ Gathered /\ Judged

LEMMA EvalInitially == Init => EvalInv
<1> SUFFICES ASSUME Init PROVE EvalInv
  OBVIOUS
<1>1. EvalTypeOK
  BY TreesAreTyped DEF Init, EvalTypeOK
<1>2. state \notin StateFile /\ repo \notin Nat
  BY HarnessInputs DEF Init
<1> QED
  BY <1>1, <1>2 DEF Init, EvalInv, Numbered, AsPrepared, Gathered, Judged

(* Type correctness, action by action.                                     *)
LEMMA EvalTypePrepare ==
  ASSUME EvalTypeOK, Numbered, (\E c \in Cases : Prepare(c)) \/ PrepareStep
  PROVE  EvalTypeOK'
<1> USE DEF EvalTypeOK
<1>1. ASSUME NEW c \in Cases, Prepare(c) PROVE EvalTypeOK'
  BY <1>1 DEF Prepare, repository
<1>2. CASE WriteSetup
  <2>1. tree' \in Tree
    BY <1>2, PreparedShape DEF WriteSetup, Numbered
  <2> QED
    BY <1>2, <2>1 DEF WriteSetup, repository, counters
<1>3. CASE DieInSetup
  <2>1. Prepared(working) \in Tree
    BY <1>3, PreparedShape DEF DieInSetup, Numbered
  <2>2. tree' \in Tree
    BY <1>3, <2>1 DEF DieInSetup, Tree, Value
  <2> QED
    BY <1>3, <2>2 DEF DieInSetup, repository, counters
<1>4. CASE AddAll
  BY <1>4, TreesAreTyped DEF AddAll, counters
<1>5. CASE CommitBaseline
  BY <1>5 DEF CommitBaseline, counters
<1>6. CASE CommitFails
  BY <1>6 DEF CommitFails, repository, counters
<1>7. CASE SaveState
  BY <1>7 DEF SaveState, repository, counters, StateFile, Numbered
<1> QED
  BY <1>1, <1>2, <1>3, <1>4, <1>5, <1>6, <1>7 DEF PrepareStep

LEMMA EvalTypeAgent ==
  ASSUME EvalTypeOK, AgentStep
  PROVE  /\ EvalTypeOK'
         /\ pc = "idle" /\ pc' = pc
         /\ UNCHANGED <<base, repo, state, verdict, prepares>>
<1> USE DEF EvalTypeOK, AgentWorks
<1>1. ASSUME NEW f \in Files, NEW v \in Contents \union {Absent}, Edit(f, v)
      PROVE  /\ tree' \in Tree /\ AgentWorks
             /\ UNCHANGED <<index, head, ignored, unwatched, report>>
  BY <1>1 DEF Edit, Tree, Value
<1>2. ASSUME NEW f \in Files, NEW g \in Files, Rename(f, g)
      PROVE  /\ tree' \in Tree /\ AgentWorks
             /\ UNCHANGED <<index, head, ignored, unwatched, report>>
  BY <1>2 DEF Rename, Tree, Value
<1>3. CASE Stage
  <2>1. index' \in Tree
    BY <1>3 DEF Stage, Tree, Value
  <2> QED
    BY <1>3, <2>1 DEF Stage
<1>4. CASE Commit
  BY <1>4 DEF Commit
<1>5. ASSUME NEW f \in Files, Ignore(f)
      PROVE  /\ ignored' \subseteq Files /\ AgentWorks
             /\ UNCHANGED <<tree, index, head, unwatched, report>>
  BY <1>5 DEF Ignore
<1>6. ASSUME NEW f \in Files, Unwatch(f)
      PROVE  /\ unwatched' \subseteq Files /\ AgentWorks
             /\ UNCHANGED <<tree, index, head, ignored, report>>
  BY <1>6 DEF Unwatch
<1>7. ASSUME NEW r \in Reports, HandIn(r)
      PROVE  /\ report' \in Reports /\ AgentWorks
             /\ UNCHANGED <<tree, index, head, ignored, unwatched>>
  BY <1>7 DEF HandIn
<1> QED
  BY <1>1, <1>2, <1>3, <1>4, <1>5, <1>6, <1>7 DEF AgentStep

LEMMA EvalTypeRest ==
  ASSUME EvalTypeOK, Kill \/ RemoveWorkspace
  PROVE  EvalTypeOK'
<1> USE DEF EvalTypeOK
<1>1. CASE Kill
  <2>1. WithLeavings(tree, working) \in Tree
    BY DEF WithLeavings, Tree, Value
  <2> QED
    BY <1>1, <2>1 DEF Kill, repository, counters
<1>2. CASE RemoveWorkspace
  BY <1>2, TreesAreTyped DEF RemoveWorkspace, counters
<1> QED
  BY <1>1, <1>2

LEMMA ConcludeTyped ==
  ASSUME NEW c \in Cases, NEW passed \in BOOLEAN, NEW looked \in Tree,
         NEW sight \in Sight, NEW timedOut \in BOOLEAN,
         state \in StateFile, edits \in Nat,
         Conclude(c, passed, looked, sight, timedOut)
  PROVE  /\ verdict' \in Verdict /\ pc' = "idle" /\ outcome' = "ok"
         /\ found' = None
         /\ verdict'.case = c /\ verdict'.pass = passed
         /\ verdict'.looked = looked /\ verdict'.timedOut = timedOut
         /\ verdict'.sight = sight
         /\ verdict'.over = state.commit /\ verdict'.at = edits
  BY DEF Conclude, Verdict, StateFile

LEMMA SightTyped ==
  ASSUME EvalTypeOK, NEW failed
  PROVE  Nothing \in Sight /\ Seen(failed) \in Sight
  BY DEF EvalTypeOK, Nothing, Seen, Sight

(* What score may conclude. *)
Sound(v) == v.pass /\ v.sight.listed => AsExpected(v.case, v.looked, v.sight.blind)

LEMMA ExamineStep ==
  ASSUME EvalInv, NEW c \in Cases, NEW failed, Examine(c, failed),
         state \in StateFile, tree[Marker] = c, base \in {Prepared(c), Empty}
  PROVE  \/ /\ verdict' \in Verdict /\ pc' = "idle" /\ found' = None
            /\ outcome' = "ok" /\ working' = working /\ Sound(verdict')
         \/ /\ verdict' = verdict /\ outcome' = outcome /\ pc' = "verifying"
            /\ working' = c /\ Fixture[c].status = "completed"
            /\ found' \in Finding
            /\ found'.ok /\ found'.sight.listed =>
                 AsExpected(c, found'.tree, found'.sight.blind)
<1> DEFINE changed == ChangedFiles(base, head, index, tree, failed)
           ok == ReportOk(c, report) /\ FilesOk(c, tree, changed)
           sight == Seen(failed)
<1>1. /\ tree \in Tree /\ index \in Tree /\ head \in Tree /\ base \in Tree
      /\ edits \in Nat /\ EvalTypeOK
  BY DEF EvalInv, EvalTypeOK
<1>2. ok /\ sight.listed => AsExpected(c, tree, sight.blind)
  <2> SUFFICES ASSUME ok, sight.listed PROVE AsExpected(c, tree, sight.blind)
    OBVIOUS
  <2>1. failed = {}
    BY DEF Seen
  <2>2. sight.blind = Unseen(index, tree)
    BY DEF Seen, Unseen
  <2> QED
    BY <1>1, <2>1, <2>2, FilesOkIsSound
<1>3. ok \in BOOLEAN
  BY DEF ReportOk, FilesOk
<1>4. sight \in Sight
  BY <1>1, SightTyped
<1>5. CASE Fixture[c].status = "blocked"
  <2>1. Conclude(c, ok, tree, sight, FALSE) /\ UNCHANGED working
    BY <1>5 DEF Examine
  <2> HIDE DEF ok, sight
  <2>2. /\ verdict' \in Verdict /\ pc' = "idle" /\ outcome' = "ok"
        /\ found' = None /\ verdict'.case = c /\ verdict'.pass = ok
        /\ verdict'.looked = tree /\ verdict'.sight = sight
    BY <1>1, <1>3, <1>4, <2>1 DEF Conclude, Verdict, StateFile
  <2> QED
    BY <1>2, <2>1, <2>2 DEF Sound
<1>6. CASE Fixture[c].status # "blocked"
  <2>1. /\ found' = [case |-> c, tree |-> tree, ok |-> ok, sight |-> sight]
        /\ pc' = "verifying" /\ working' = c
        /\ verdict' = verdict /\ outcome' = outcome
    BY <1>6 DEF Examine
  <2>2. Fixture[c].status = "completed"
    BY <1>6, FixtureShape DEF Status
  <2> HIDE DEF ok, sight
  <2>3. /\ found' \in Finding /\ found'.ok = ok /\ found'.tree = tree
        /\ found'.sight = sight
    BY <1>1, <1>3, <1>4, <2>1 DEF Finding
  <2> QED
    BY <1>2, <2>1, <2>2, <2>3
<1> QED
  BY <1>5, <1>6

LEMMA ScoreStep ==
  ASSUME EvalInv, NEW c \in Cases, Score(c)
  PROVE  /\ UNCHANGED <<tree, repository, state, report, prepares, edits>>
         /\ scores' = scores + 1
         /\ outcome' \in {outcome, "ok", "invalid_input", "internal_error"}
         /\ \/ /\ verdict' = verdict /\ pc' = "idle" /\ found' = None
               /\ working' = working
            \/ /\ verdict' \in Verdict /\ pc' = "idle" /\ found' = None
               /\ working' = working /\ Sound(verdict')
            \/ /\ verdict' = verdict /\ pc' = "verifying"
               /\ working' = c /\ Fixture[c].status = "completed"
               /\ found' \in Finding /\ state \in StateFile
               /\ found'.ok /\ found'.sight.listed =>
                    AsExpected(c, found'.tree, found'.sight.blind)
<1>1. /\ UNCHANGED <<tree, repository, state, report, prepares, edits>>
      /\ scores' = scores + 1 /\ pc = "idle"
  BY DEF Score
<1>2. CASE UNCHANGED working /\ \E how \in {"invalid_input", "internal_error"} : Refuse(how)
  BY <1>1, <1>2 DEF Refuse
<1>3. CASE ~ScoreRefused(c) /\ (report = None \/ report.form = "unparsable")
  <2>1. state \in StateFile /\ UNCHANGED working
    BY <1>3 DEF Score, ScoreRefused, StateOk
  <2>2. Conclude(c, FALSE, tree, Nothing, FALSE)
    BY <1>3 DEF Score
  <2>3. tree \in Tree /\ edits \in Nat /\ Nothing \in Sight
    BY SightTyped DEF EvalInv, EvalTypeOK
  <2> QED
    BY <1>1, <2>1, <2>2, <2>3, ConcludeTyped DEF Sound
<1>4. ASSUME ~ScoreRefused(c), BaselineUsable, NEW failed, Examine(c, failed)
      PROVE  /\ state \in StateFile /\ tree[Marker] = c
             /\ base \in {Prepared(c), Empty}
  <2>1. state \in StateFile /\ state.case = c /\ tree[Marker] = c
    BY <1>4 DEF ScoreRefused, StateOk
  <2> QED
    BY <1>4, <2>1 DEF BaselineUsable, EvalInv, AsPrepared
<1>5. CASE ~ScoreRefused(c) /\ BaselineUsable /\ \E failed : Examine(c, failed)
  BY <1>1, <1>4, <1>5, ExamineStep
<1> QED
  BY <1>2, <1>3, <1>5 DEF Score

LEMMA VerifyStep ==
  ASSUME EvalInv, Verify
  PROVE  /\ tree' \in Tree /\ pc' = "idle" /\ found' = None
         /\ UNCHANGED <<repository, state, working, report, counters>>
         /\ outcome' \in {"ok", "internal_error"}
         /\ \/ verdict' = verdict
            \/ verdict' \in Verdict /\ Sound(verdict')
<1>1. /\ pc = "verifying" /\ tree' = WithLeavings(tree, working)
      /\ UNCHANGED <<repository, state, working, report, counters>>
  BY DEF Verify
<1>2. /\ working \in Cases /\ Fixture[working].status = "completed"
      /\ found \in Finding /\ found.tree \in Tree /\ found.sight \in Sight
      /\ state \in StateFile
      /\ found.ok /\ found.sight.listed =>
           AsExpected(working, found.tree, found.sight.blind)
  BY <1>1 DEF EvalInv, Gathered, Finding
<1>3. tree' \in Tree /\ edits \in Nat
  BY <1>1, <1>2, TreesAreTyped DEF EvalInv, EvalTypeOK
<1>4. CASE report.form = "text"
  BY <1>1, <1>3, <1>4 DEF Verify, Refuse
<1>5. CASE report.form # "text"
  <2> DEFINE passed(timedOut) == /\ found.ok /\ ~timedOut
                                 /\ VerificationOk(working, tree)
                                 /\ report.claim = "ok"
  <2>1. PICK timedOut \in BOOLEAN :
          Conclude(working, passed(timedOut), found.tree, found.sight, timedOut)
    BY <1>5 DEF Verify
  <2>2. passed(timedOut) \in BOOLEAN /\ (passed(timedOut) => found.ok)
    OBVIOUS
  <2> HIDE DEF passed
  <2>3. /\ verdict' \in Verdict /\ pc' = "idle" /\ outcome' = "ok"
        /\ found' = None /\ verdict'.case = working
        /\ verdict'.pass = passed(timedOut) /\ verdict'.looked = found.tree
        /\ verdict'.sight = found.sight
    BY <1>2, <1>3, <2>1, <2>2, ConcludeTyped
  <2> QED
    BY <1>1, <1>2, <1>3, <2>2, <2>3 DEF Sound
<1> QED
  BY <1>4, <1>5

(* The invariant, action by action.                                        *)
LEMMA PrepareKeeps ==
  ASSUME EvalInv, NEW c \in Cases, Prepare(c)
  PROVE  Numbered' /\ AsPrepared' /\ Gathered' /\ Judged'
<1>1. /\ UNCHANGED <<tree, repository, state, found, verdict>>
      /\ prepares' = prepares + 1 /\ prepares \in Nat /\ pc = "idle"
      /\ \/ pc' = "files" /\ working' = c
         \/ pc' = pc /\ working' = working
  BY DEF Prepare, EvalInv, EvalTypeOK
<1>2. Numbered'
  BY <1>1 DEF EvalInv, Numbered, repository, StateFile
<1>3. AsPrepared'
  BY <1>1 DEF EvalInv, AsPrepared, repository
<1> QED
  BY <1>1, <1>2, <1>3 DEF EvalInv, Gathered, Judged

LEMMA PrepareStepKeeps ==
  ASSUME EvalInv, PrepareStep
  PROVE  Numbered' /\ AsPrepared' /\ Gathered' /\ Judged'
<1> USE DEF EvalInv
<1>1. CASE WriteSetup \/ DieInSetup \/ CommitFails
  <2>1. /\ UNCHANGED <<repository, state, working, found, verdict, prepares>>
        /\ pc' \in {"adding", "idle"}
        /\ pc' = "adding" => pc = "files" /\ tree' = Prepared(working)
    BY <1>1 DEF WriteSetup, DieInSetup, CommitFails, counters
  <2>2. Numbered'
    BY <2>1 DEF Numbered, repository
  <2>3. AsPrepared'
    BY <2>1 DEF AsPrepared, repository
  <2> QED
    BY <2>1, <2>2, <2>3 DEF Gathered, Judged
<1>2. CASE AddAll
  <2>1. /\ UNCHANGED <<tree, base, state, working, found, verdict, prepares>>
        /\ pc = "adding" /\ pc' = "committing" /\ repo' = prepares
        /\ index' \in {tree, Empty} /\ prepares \in Nat
    BY <1>2 DEF AddAll, counters, EvalTypeOK
  <2>2. Numbered'
    BY <2>1 DEF Numbered
  <2>3. AsPrepared'
    BY <2>1 DEF AsPrepared, Numbered, StateFile
  <2> QED
    BY <2>1, <2>2, <2>3 DEF Gathered, Judged
<1>3. CASE CommitBaseline
  <2>1. /\ UNCHANGED <<tree, repo, state, working, found, verdict, prepares>>
        /\ pc = "committing" /\ pc' = "saving" /\ base' = index
        /\ prepares \in Nat
    BY <1>3 DEF CommitBaseline, counters, EvalTypeOK
  <2>2. Numbered'
    BY <2>1 DEF Numbered
  <2>3. AsPrepared'
    BY <2>1 DEF AsPrepared, Numbered, StateFile
  <2> QED
    BY <2>1, <2>2, <2>3 DEF Gathered, Judged
<1>4. CASE SaveState
  <2>1. /\ UNCHANGED <<tree, repository, working, found, verdict, prepares>>
        /\ pc = "saving" /\ pc' = "idle" /\ prepares \in Nat
        /\ state' = [commit |-> repo, case |-> working]
    BY <1>4 DEF SaveState, counters, EvalTypeOK
  <2>2. state'.commit = repo /\ state'.case = working
    BY <2>1
  <2>3. Numbered'
    BY <2>1, <2>2 DEF Numbered, repository
  <2>4. AsPrepared'
    BY <2>1, <2>2 DEF AsPrepared, repository
  <2> QED
    BY <2>1, <2>3, <2>4 DEF Gathered, Judged
<1> QED
  BY <1>1, <1>2, <1>3, <1>4 DEF PrepareStep

LEMMA OtherStepKeeps ==
  ASSUME EvalInv, Kill \/ RemoveWorkspace \/ AgentStep
  PROVE  Numbered' /\ AsPrepared' /\ Gathered' /\ Judged'
<1> USE DEF EvalInv
<1>1. CASE Kill
  <2>1. /\ UNCHANGED <<repository, verdict, prepares>> /\ pc' = "idle"
        /\ state' = state \/ state' = Broken
    BY <1>1 DEF Kill, counters
  <2>2. state' \in StateFile => state' = state
    BY <2>1, HarnessInputs
  <2>3. Numbered'
    BY <2>1, <2>2 DEF Numbered, repository
  <2>4. AsPrepared'
    BY <2>1, <2>2 DEF AsPrepared, repository
  <2> QED
    BY <2>1, <2>3, <2>4 DEF Gathered, Judged
<1>2. CASE RemoveWorkspace
  <2>1. /\ UNCHANGED <<verdict, prepares, state>>
        /\ pc = "idle" /\ pc' = "idle" /\ repo' = None
    BY <1>2 DEF RemoveWorkspace, counters
  <2>2. repo' \notin Nat
    BY <2>1, HarnessInputs
  <2>3. Numbered'
    BY <2>1, <2>2 DEF Numbered
  <2>4. AsPrepared'
    BY <2>1, <2>2 DEF AsPrepared, StateFile
  <2> QED
    BY <2>1, <2>3, <2>4 DEF Gathered, Judged
<1>3. CASE AgentStep
  <2>1. /\ pc = "idle" /\ pc' = pc
        /\ UNCHANGED <<base, repo, state, verdict, prepares>>
    BY <1>3, EvalTypeAgent
  <2> QED
    BY <2>1 DEF Numbered, AsPrepared, Gathered, Judged
<1> QED
  BY <1>1, <1>2, <1>3

LEMMA ScoringKeeps ==
  ASSUME EvalInv, Verify \/ \E c \in Cases : Score(c)
  PROVE  EvalInv'
<1> USE DEF EvalInv
<1>1. ASSUME NEW c \in Cases, Score(c) PROVE EvalInv'
  <2>1. UNCHANGED <<tree, repository, state, report, prepares, edits>>
    BY <1>1, ScoreStep
  <2>2. pc' \in {"idle", "verifying"} /\ working' \in {working, c}
    BY <1>1, ScoreStep
  <2>3. EvalTypeOK'
    BY <1>1, ScoreStep DEF EvalTypeOK, repository
  <2>4. Numbered'
    BY <2>1, <2>2 DEF Numbered, repository
  <2>5. AsPrepared'
    BY <2>1, <2>2 DEF AsPrepared, repository
  <2>6. Gathered'
    BY <1>1, ScoreStep DEF Gathered, Finding
  <2>7. Judged'
    BY <1>1, ScoreStep DEF Judged, Sound
  <2> QED
    BY <2>3, <2>4, <2>5, <2>6, <2>7
<1>2. CASE Verify
  <2>1. UNCHANGED <<repository, state, working, prepares>> /\ pc' = "idle"
    BY <1>2, VerifyStep DEF counters
  <2>2. EvalTypeOK'
    BY <1>2, VerifyStep DEF EvalTypeOK, repository, counters
  <2>3. Numbered' /\ AsPrepared'
    BY <2>1 DEF Numbered, AsPrepared, repository
  <2>4. Judged'
    BY <1>2, VerifyStep DEF Judged, Sound
  <2> QED
    BY <2>1, <2>2, <2>3, <2>4 DEF Gathered
<1> QED
  BY <1>1, <1>2

LEMMA EvalStep == EvalInv /\ [Next]_vars => EvalInv'
<1> SUFFICES ASSUME EvalInv, [Next]_vars PROVE EvalInv'
  OBVIOUS
<1>1. CASE UNCHANGED vars
  <2> USE <1>1 DEF EvalInv, vars, repository, counters
  <2>1. EvalTypeOK'
    BY DEF EvalTypeOK
  <2>2. Numbered' /\ AsPrepared'
    BY DEF Numbered, AsPrepared
  <2>3. Gathered' /\ Judged'
    BY DEF Gathered, Judged
  <2> QED
    BY <2>1, <2>2, <2>3
<1>2. ASSUME NEW c \in Cases, Prepare(c) PROVE EvalInv'
  BY <1>2, EvalTypePrepare, PrepareKeeps DEF EvalInv
<1>3. CASE PrepareStep
  BY <1>3, EvalTypePrepare, PrepareStepKeeps DEF EvalInv
<1>4. CASE Kill \/ RemoveWorkspace \/ AgentStep
  BY <1>4, EvalTypeRest, EvalTypeAgent, OtherStepKeeps DEF EvalInv
<1>5. CASE Verify \/ \E c \in Cases : Score(c)
  BY <1>5, ScoringKeeps
<1> QED
  BY <1>1, <1>2, <1>3, <1>4, <1>5 DEF Next

(* The variables keep their types along every                              *)
(* sequence of preparations, kills, edits and scores.                      *)
THEOREM EvalTypeCorrect == Spec => []EvalTypeOK
<1>1. EvalInv => EvalTypeOK
  BY DEF EvalInv
<1> QED
  BY <1>1, EvalInitially, EvalStep, PTL DEF Spec

(* When every listing worked, a case passes only on its setup with the      *)
(* expected changes, but for what git was told not to look at (_score):     *)
(* PassMeansExpected, for every fixture, agent and schedule of kills.      *)
THEOREM PassIsSound == Spec => []PassMeansExpected
<1>1. EvalInv => PassMeansExpected
  BY DEF EvalInv, Judged, AsExpected, PassMeansExpected
<1> QED
  BY <1>1, EvalInitially, EvalStep, PTL DEF Spec

(* Under the same conditions a blocked case passes only on the setup as     *)
(* prepare wrote it (_score): BlockedPassMeansUntouched.                    *)
THEOREM BlockedPassIsSound == Spec => []BlockedPassMeansUntouched
<1>1. EvalInv => BlockedPassMeansUntouched
  BY DEF EvalInv, Judged, AsExpected, BlockedPassMeansUntouched
<1> QED
  BY <1>1, EvalInitially, EvalStep, PTL DEF Spec
-----------------------------------------------------------------------------
(* Scoring again.  As long as the agent does nothing, the workspace that    *)
(* the last verdict was given on is still there, but for what the           *)
(* verification command left in it, or its repository is gone.              *)
Readable == report # None /\ report.form # "unparsable"

FilesPass(c, t) ==
  ReportOk(c, report) /\ FilesOk(c, t, ChangedFiles(base, head, index, t, {}))

(* What score concludes on worktree t when no listing fails and the command *)
(* does not time out.                                                      *)
PassOn(c, t) ==
  /\ FilesPass(c, t)
  /\ Fixture[c].status = "completed" =>
       VerificationOk(c, t) /\ report.claim = "ok"

Ordered ==
  /\ pc \in {"files", "adding"} => repo = None
  /\ verdict # None =>
       /\ verdict.at <= edits /\ verdict.over <= prepares
       /\ pc \in {"files", "adding", "committing", "saving"} =>
            verdict.over < prepares

Pending ==
  pc = "verifying" =>
    /\ Readable /\ state.case = working /\ BaselineUsable
    /\ found.tree = tree
    /\ found.sight.listed => found.ok = FilesPass(working, tree)

SinceVerdict ==
  /\ verdict # None /\ verdict.at = edits
  /\ state \in StateFile /\ state.commit = verdict.over

StillThere(t) ==
  \/ tree = t
  \/ /\ Fixture[verdict.case].status = "completed"
     /\ tree = WithLeavings(t, verdict.case)

Reproducible ==
  SinceVerdict =>
    /\ state.case = verdict.case
    /\ ~Readable => ~verdict.pass
    /\ Readable /\ repo = verdict.over =>
         /\ StillThere(verdict.looked)
         /\ \/ verdict.timedOut \/ ~verdict.sight.listed
            \/ verdict.pass = PassOn(verdict.case, verdict.looked)

RescoreInv == Ordered /\ Pending /\ Reproducible

(* Running the command again leaves nothing new. *)
LEMMA LeavingsOnce ==
  ASSUME NEW c \in Cases, NEW t \in Tree
  PROVE  WithLeavings(WithLeavings(t, c), c) = WithLeavings(t, c)
  BY HarnessInputs DEF WithLeavings, Tree

(* Only the files it leaves can change their place in the listing. *)
LEMMA LeavingsListed ==
  ASSUME NEW c \in Cases, NEW t \in Tree, NEW b, NEW h, NEW i,
         NEW f \in Files, f \notin Fixture[c].leaves
  PROVE  f \in ChangedFiles(b, h, i, WithLeavings(t, c), {})
           <=> f \in ChangedFiles(b, h, i, t, {})
<1>1. WithLeavings(t, c)[f] = t[f]
  BY DEF WithLeavings
<1> HIDE DEF WithLeavings
<1> QED
  BY <1>1 DEF ChangedFiles, Committed, Listed, Hidden, Staged, Unstaged, Untracked,
     Differing

(* What the command leaves changes nothing in the verdict on a repeatable  *)
(* case whose allowlist names it.                                          *)
LEMMA LeavingsAreNeutral ==
  ASSUME NEW c \in Cases, NEW t \in Tree, Repeatable(c),
         Fixture[c].status = "completed", Fixture[c].leaves \subseteq Fixture[c].allow
  PROVE  PassOn(c, WithLeavings(t, c)) = PassOn(c, t)
<1> DEFINE after == WithLeavings(t, c)
           listed(x) == ChangedFiles(base, head, index, x, {})
<1>1. \A x : listed(x) \subseteq Files
  BY DEF ChangedFiles, Committed, Listed, Hidden, Staged, Unstaged, Untracked, Differing
<1>2. Visible(c, listed(after)) = Visible(c, listed(t))
  <2>1. \A f \in Files : f \notin Fixture[c].allow =>
          (f \in listed(after) <=> f \in listed(t))
    BY LeavingsListed
  <2> HIDE DEF after, listed
  <2> QED
    BY <1>1, <2>1 DEF Visible
<1>3. ASSUME NEW f \in Files
      PROVE  Fixture[c].want[f] \in {None, after[f]} <=> Fixture[c].want[f] \in {None, t[f]}
  <2>1. CASE f \in Fixture[c].leaves
    BY <2>1 DEF Repeatable
  <2>2. CASE f \notin Fixture[c].leaves
    BY <2>2 DEF WithLeavings
  <2> QED
    BY <2>1, <2>2
<1>4. VerificationOk(c, after) = VerificationOk(c, t)
  BY DEF Repeatable
<1>5. FilesOk(c, after, listed(after)) = FilesOk(c, t, listed(t))
  <2> HIDE DEF after, listed
  <2> QED
    BY <1>2, <1>3 DEF FilesOk
<1> QED
  BY <1>4, <1>5 DEF PassOn, FilesPass

(* The state a verdict is tied to survives every step that neither scores   *)
(* nor is the agent's: the worktree only gains what the verification left,  *)
(* unless the state file or the repository is replaced.                     *)
LEMMA QuietKeeps ==
  ASSUME EvalInv, RescoreInv, UNCHANGED <<verdict, edits, report>>,
         \/ state' = state
         \/ state' \notin StateFile
         \/ verdict # None /\ state'.commit # verdict.over,
         \/ /\ UNCHANGED <<repo, base, head, index, ignored, unwatched>>
            /\ tree' = tree \/ (pc = "verifying" /\ tree' = WithLeavings(tree, working))
         \/ verdict # None => repo' # verdict.over
  PROVE  Reproducible'
<1> SUFFICES ASSUME SinceVerdict'
             PROVE  /\ state'.case = verdict.case
                    /\ ~Readable' => ~verdict.pass
                    /\ Readable' /\ repo' = verdict.over =>
                         /\ StillThere(verdict.looked)'
                         /\ \/ verdict.timedOut \/ ~verdict.sight.listed
                            \/ verdict.pass = PassOn(verdict.case, verdict.looked)'
  BY DEF Reproducible
<1>1. state' = state /\ SinceVerdict
  BY DEF SinceVerdict
<1>2. /\ state.case = verdict.case
      /\ ~Readable => ~verdict.pass
      /\ Readable /\ repo = verdict.over =>
           /\ StillThere(verdict.looked)
           /\ \/ verdict.timedOut \/ ~verdict.sight.listed
              \/ verdict.pass = PassOn(verdict.case, verdict.looked)
  BY <1>1 DEF RescoreInv, Reproducible
<1>3. Readable' = Readable
  BY DEF Readable
<1>4. CASE repo' = verdict.over /\ Readable
  <2>1. /\ UNCHANGED <<repo, base, head, index, ignored, unwatched>>
        /\ tree' = tree \/ (pc = "verifying" /\ tree' = WithLeavings(tree, working))
    BY <1>1, <1>4 DEF SinceVerdict
  <2>2. \/ verdict.timedOut \/ ~verdict.sight.listed
        \/ verdict.pass = PassOn(verdict.case, verdict.looked)'
    BY <1>1, <1>2, <1>4, <2>1 DEF PassOn, FilesPass, ChangedFiles, Listed, Hidden, Unstaged
  <2>3. StillThere(verdict.looked)'
    <3>1. StillThere(verdict.looked)
      BY <1>2, <1>4, <2>1
    <3>2. CASE tree' = tree
      BY <3>1, <3>2 DEF StillThere
    <3>3. CASE pc = "verifying" /\ tree' = WithLeavings(tree, working)
      <4>1. working = verdict.case /\ Fixture[working].status = "completed"
        BY <1>2, <3>3 DEF RescoreInv, Pending, EvalInv, Gathered
      <4>2. verdict.looked \in Tree /\ verdict.case \in Cases
        BY <1>1 DEF SinceVerdict, EvalInv, EvalTypeOK, Verdict
      <4> QED
        BY <3>1, <3>3, <4>1, <4>2, LeavingsOnce DEF StillThere
    <3> QED
      BY <2>1, <3>2, <3>3
  <2> QED
    BY <1>1, <1>2, <1>3, <2>2, <2>3
<1> QED
  BY <1>1, <1>2, <1>3, <1>4

(* prepare, a kill and the removal of the workspace keep what ties the last *)
(* verdict to the workspace.                                               *)
LEMMA RescoreOther ==
  ASSUME EvalInv, RescoreInv,
         (\E c \in Cases : Prepare(c)) \/ PrepareStep \/ Kill \/ RemoveWorkspace
  PROVE  RescoreInv'
<1>0. /\ verdict # None => verdict.over \in Nat
      /\ prepares \in Nat /\ None \notin Nat
  BY HarnessInputs DEF EvalInv, EvalTypeOK, Verdict
<1>1. ASSUME NEW c \in Cases, Prepare(c) PROVE RescoreInv'
  <2>1. /\ UNCHANGED <<tree, repo, base, head, index, ignored, unwatched, state, report, verdict, edits>>
        /\ prepares' = prepares + 1 /\ pc = "idle"
        /\ pc' = "idle" \/ (pc' = "files" /\ repo = None)
    BY <1>1 DEF Prepare, repository
  <2>2. Reproducible'
    BY <2>1, QuietKeeps
  <2> QED
    BY <1>0, <2>1, <2>2 DEF RescoreInv, Ordered, Pending
<1>2. CASE WriteSetup \/ DieInSetup
  <2>1. /\ UNCHANGED <<repo, base, head, index, state, report, verdict, edits, prepares>>
        /\ pc = "files" /\ pc' \in {"adding", "idle"}
    BY <1>2 DEF WriteSetup, DieInSetup, repository, counters
  <2>2. repo' = None
    BY <2>1 DEF RescoreInv, Ordered
  <2>3. Reproducible'
    BY <1>0, <2>1, <2>2, QuietKeeps
  <2> QED
    BY <1>0, <2>1, <2>2, <2>3 DEF RescoreInv, Ordered, Pending
<1>3. CASE AddAll
  <2>1. /\ UNCHANGED <<tree, base, head, state, report, verdict, edits, prepares>>
        /\ pc = "adding" /\ pc' = "committing" /\ repo' = prepares
    BY <1>3 DEF AddAll, counters
  <2>2. verdict # None => repo' # verdict.over
    BY <1>0, <2>1 DEF RescoreInv, Ordered
  <2>3. Reproducible'
    BY <2>1, <2>2, QuietKeeps
  <2> QED
    BY <2>1, <2>3 DEF RescoreInv, Ordered, Pending
<1>4. CASE CommitBaseline \/ CommitFails
  <2>1. /\ UNCHANGED <<tree, index, repo, state, report, verdict, edits, prepares>>
        /\ pc = "committing" /\ pc' \in {"saving", "idle"}
    BY <1>4 DEF CommitBaseline, CommitFails, repository, counters
  <2>2. verdict # None => repo' # verdict.over
    BY <1>0, <2>1 DEF RescoreInv, Ordered, EvalInv, Numbered
  <2>3. Reproducible'
    BY <2>1, <2>2, QuietKeeps
  <2> QED
    BY <2>1, <2>3 DEF RescoreInv, Ordered, Pending
<1>5. CASE SaveState
  <2>1. /\ UNCHANGED <<tree, index, head, base, repo, ignored, unwatched, report, verdict, edits, prepares>>
        /\ pc = "saving" /\ pc' = "idle" /\ state' = [commit |-> repo, case |-> working]
    BY <1>5 DEF SaveState, repository, counters
  <2>2. verdict # None => state'.commit # verdict.over
    BY <1>0, <2>1 DEF RescoreInv, Ordered, EvalInv, Numbered
  <2>3. Reproducible'
    BY <2>1, <2>2, QuietKeeps DEF Reproducible, SinceVerdict
  <2> QED
    BY <2>1, <2>3 DEF RescoreInv, Ordered, Pending
<1>6. CASE Kill
  <2>1. /\ UNCHANGED <<index, head, base, repo, ignored, unwatched, report, verdict, edits, prepares>>
        /\ pc' = "idle" /\ state' \in {state, Broken}
        /\ tree' = tree \/ (pc = "verifying" /\ tree' = WithLeavings(tree, working))
    BY <1>6 DEF Kill, repository, counters
  <2>2. state' = state \/ state' \notin StateFile
    BY <2>1, HarnessInputs
  <2>3. Reproducible'
    BY <2>1, <2>2, QuietKeeps
  <2> QED
    BY <2>1, <2>3 DEF RescoreInv, Ordered, Pending
<1>7. CASE RemoveWorkspace
  <2>1. /\ UNCHANGED <<state, report, verdict, edits, prepares>>
        /\ pc = "idle" /\ pc' = "idle" /\ repo' = None
    BY <1>7 DEF RemoveWorkspace, counters
  <2>2. Reproducible'
    BY <1>0, <2>1, QuietKeeps
  <2> QED
    BY <2>1, <2>2 DEF RescoreInv, Ordered, Pending
<1> QED
  BY <1>1, <1>2, <1>3, <1>4, <1>5, <1>6, <1>7 DEF PrepareStep

(* A step of the agent makes every later verdict one on other work. *)
LEMMA RescoreAgent ==
  ASSUME EvalInv, RescoreInv, AgentStep
  PROVE  RescoreInv'
<1>1. edits' = edits + 1 /\ edits \in Nat
  BY DEF AgentStep, AgentWorks, Edit, Rename, Stage, Commit, Ignore, Unwatch, HandIn,
     EvalInv, EvalTypeOK
<1>2. pc' = "idle" /\ UNCHANGED <<repo, state, verdict, prepares>>
  BY EvalTypeAgent DEF EvalInv
<1>3. verdict # None => verdict.at \in Nat /\ verdict.at <= edits
  BY DEF EvalInv, EvalTypeOK, RescoreInv, Ordered, Verdict
<1>4. ~SinceVerdict'
  BY <1>1, <1>2, <1>3 DEF SinceVerdict
<1>5. Ordered' /\ Pending'
  BY <1>1, <1>2, <1>3 DEF RescoreInv, Ordered, Pending
<1> QED
  BY <1>4, <1>5 DEF RescoreInv, Reproducible

(* A new verdict is about the worktree as score found it, and is what       *)
(* PassOn says of it.                                                       *)
Given(c, looked) ==
  /\ verdict' \in Verdict /\ verdict'.case = c /\ verdict'.looked = looked
  /\ verdict'.over = state.commit /\ verdict'.at = edits
  /\ c \in Cases /\ state \in StateFile /\ state.case = c
  /\ ~Readable => ~verdict'.pass
  /\ Readable => /\ BaselineUsable
                 /\ \/ verdict'.timedOut \/ ~verdict'.sight.listed
                    \/ verdict'.pass = PassOn(c, looked)

LEMMA ScoreConcludes ==
  ASSUME EvalInv, NEW c \in Cases, Score(c)
  PROVE  /\ UNCHANGED <<tree, repository, state, report, prepares, edits>>
         /\ pc = "idle" /\ pc' \in {"idle", "verifying"}
         /\ \/ verdict' = verdict /\ Pending'
            \/ pc' = "idle" /\ Given(c, tree)
<1>1. UNCHANGED <<tree, repository, state, report, prepares, edits>> /\ pc = "idle"
  BY DEF Score
<1>2. tree \in Tree /\ edits \in Nat /\ EvalTypeOK
  BY DEF EvalInv, EvalTypeOK
<1>3. CASE \E how \in {"invalid_input", "internal_error"} : Refuse(how)
  BY <1>1, <1>3 DEF Refuse, Pending
<1>4. CASE ~ScoreRefused(c) /\ ~Readable
  <2>1. state \in StateFile /\ state.case = c
    BY <1>4 DEF ScoreRefused, StateOk
  <2>2. Conclude(c, FALSE, tree, Nothing, FALSE)
    BY <1>4 DEF Score, Readable
  <2> QED
    BY <1>1, <1>2, <1>4, <2>1, <2>2, ConcludeTyped, SightTyped DEF Given
<1>5. ASSUME ~ScoreRefused(c), Readable, BaselineUsable, NEW failed, Examine(c, failed)
      PROVE  \/ verdict' = verdict /\ pc' = "verifying" /\ Pending'
             \/ pc' = "idle" /\ Given(c, tree)
  <2> DEFINE ok == /\ ReportOk(c, report)
                   /\ FilesOk(c, tree, ChangedFiles(base, head, index, tree, failed))
             sight == Seen(failed)
  <2>1. state \in StateFile /\ state.case = c
    BY <1>5 DEF ScoreRefused, StateOk
  <2>2. sight.listed => ok = FilesPass(c, tree)
    BY DEF Seen, FilesPass
  <2>3. ok \in BOOLEAN /\ sight \in Sight
    BY <1>2, SightTyped DEF ReportOk, FilesOk
  <2>4. CASE Fixture[c].status = "blocked"
    <3>1. Conclude(c, ok, tree, sight, FALSE)
      BY <1>5, <2>4 DEF Examine
    <3>2. sight.listed => ok = PassOn(c, tree)
      BY <2>2, <2>4 DEF PassOn, FilesPass
    <3> HIDE DEF ok, sight
    <3> QED
      BY <1>2, <1>5, <2>1, <2>3, <3>1, <3>2, ConcludeTyped DEF Given
  <2>5. CASE Fixture[c].status # "blocked"
    <3>1. /\ found' = [case |-> c, tree |-> tree, ok |-> ok, sight |-> sight]
          /\ pc' = "verifying" /\ working' = c /\ verdict' = verdict
      BY <1>5, <2>5 DEF Examine
    <3> HIDE DEF ok, sight
    <3>2. /\ found'.tree = tree /\ found'.ok = ok /\ found'.sight = sight
      BY <3>1
    <3>3. FilesPass(working, tree)' = FilesPass(c, tree)
      BY <1>1, <3>1 DEF FilesPass, ChangedFiles, Listed, Hidden, Unstaged, repository
    <3>4. Pending'
      BY <1>1, <1>5, <2>1, <2>2, <3>1, <3>2, <3>3
      DEF Pending, Readable, BaselineUsable, repository
    <3> QED
      BY <3>1, <3>4
  <2> QED
    BY <2>4, <2>5
<1> QED
  BY <1>1, <1>3, <1>4, <1>5 DEF Score, Readable

(* The same when the verification command ends. *)
LEMMA VerifyConcludes ==
  ASSUME EvalInv, RescoreInv, Verify
  PROVE  /\ UNCHANGED <<repository, state, working, report, counters>>
         /\ pc = "verifying" /\ pc' = "idle" /\ tree' = WithLeavings(tree, working)
         /\ verdict' = verdict \/ Given(working, tree)
<1>1. /\ pc = "verifying" /\ tree' = WithLeavings(tree, working)
      /\ UNCHANGED <<repository, state, working, report, counters>>
  BY DEF Verify
<1>2. /\ working \in Cases /\ Fixture[working].status = "completed"
      /\ state \in StateFile /\ tree \in Tree /\ edits \in Nat
      /\ found.sight \in Sight
  BY <1>1 DEF EvalInv, Gathered, EvalTypeOK, Finding
<1>3. /\ Readable /\ state.case = working /\ BaselineUsable
      /\ found.tree = tree
      /\ found.sight.listed => found.ok = FilesPass(working, tree)
  BY <1>1 DEF RescoreInv, Pending
<1>4. CASE report.form = "text"
  BY <1>1, <1>4 DEF Verify, Refuse
<1>5. CASE report.form # "text"
  <2> DEFINE passed(timedOut) == /\ found.ok /\ ~timedOut
                                 /\ VerificationOk(working, tree)
                                 /\ report.claim = "ok"
  <2>1. PICK timedOut \in BOOLEAN :
          Conclude(working, passed(timedOut), found.tree, found.sight, timedOut)
    BY <1>5 DEF Verify
  <2>2. passed(timedOut) \in BOOLEAN
    OBVIOUS
  <2>3. ~timedOut /\ found.sight.listed => passed(timedOut) = PassOn(working, tree)
    BY <1>2, <1>3 DEF PassOn, FilesPass
  <2> HIDE DEF passed
  <2>4. Conclude(working, passed(timedOut), tree, found.sight, timedOut)
    BY <1>3, <2>1
  <2> QED
    BY <1>1, <1>2, <1>3, <2>2, <2>3, <2>4, ConcludeTyped DEF Given
<1> QED
  BY <1>4, <1>5

(* A new verdict is tied to the workspace it leaves behind. *)
LEMMA GivenIsReproducible ==
  ASSUME EvalInv, NEW c, Given(c, tree), UNCHANGED <<repository, state, report, edits>>,
         \/ tree' = tree
         \/ Fixture[c].status = "completed" /\ tree' = WithLeavings(tree, c)
  PROVE  Reproducible'
<1>1. Readable' = Readable
  BY DEF Readable
<1>2. verdict'.case = c /\ verdict'.looked = tree /\ state'.case = c
  BY DEF Given
<1>3. StillThere(verdict.looked)'
  BY <1>2 DEF StillThere
<1>4. Readable => \/ verdict'.timedOut \/ ~verdict'.sight.listed
                  \/ verdict'.pass = PassOn(verdict.case, verdict.looked)'
  BY <1>2 DEF Given, PassOn, FilesPass, ChangedFiles, Listed, Hidden, Unstaged, repository
<1> QED
  BY <1>1, <1>2, <1>3, <1>4 DEF Reproducible, Given

(* Whether score concludes, goes on or refuses, it keeps the invariant. *)
LEMMA RescoreScoring ==
  ASSUME EvalInv, RescoreInv, Verify \/ \E c \in Cases : Score(c)
  PROVE  RescoreInv'
<1>1. ASSUME NEW c, Given(c, tree), pc' = "idle",
             UNCHANGED <<repository, state, report, prepares, edits>>,
             \/ tree' = tree
             \/ Fixture[c].status = "completed" /\ tree' = WithLeavings(tree, c)
      PROVE  RescoreInv'
  <2>1. Reproducible'
    BY <1>1, GivenIsReproducible
  <2>2. verdict'.at <= edits /\ verdict'.over <= prepares
    BY <1>1 DEF Given, EvalInv, EvalTypeOK, Numbered
  <2> QED
    BY <1>1, <2>1, <2>2 DEF RescoreInv, Ordered, Pending
<1>2. ASSUME NEW c \in Cases, Score(c) PROVE RescoreInv'
  <2>1. /\ UNCHANGED <<tree, repository, state, report, prepares, edits>>
        /\ pc = "idle" /\ pc' \in {"idle", "verifying"}
        /\ \/ verdict' = verdict /\ Pending'
           \/ pc' = "idle" /\ Given(c, tree)
    BY <1>2, ScoreConcludes
  <2>2. CASE verdict' = verdict /\ Pending'
    <3>1. Reproducible'
      BY <2>1, <2>2, QuietKeeps DEF repository
    <3> QED
      BY <2>1, <2>2, <3>1 DEF RescoreInv, Ordered
  <2> QED
    BY <1>1, <2>1, <2>2
<1>3. CASE Verify
  <2>1. /\ UNCHANGED <<repository, state, working, report, counters>>
        /\ pc = "verifying" /\ pc' = "idle" /\ tree' = WithLeavings(tree, working)
        /\ verdict' = verdict \/ Given(working, tree)
    BY <1>3, VerifyConcludes
  <2>2. CASE verdict' = verdict
    <3>1. Reproducible'
      BY <2>1, <2>2, QuietKeeps DEF repository, counters
    <3> QED
      BY <2>1, <2>2, <3>1 DEF RescoreInv, Ordered, Pending, counters
  <2>3. Fixture[working].status = "completed"
    BY <2>1 DEF EvalInv, Gathered
  <2> QED
    BY <1>1, <2>1, <2>2, <2>3 DEF counters
<1> QED
  BY <1>2, <1>3

(* And so does every step. *)
LEMMA RescoreStep == EvalInv /\ RescoreInv /\ [Next]_vars => RescoreInv'
<1> SUFFICES ASSUME EvalInv, RescoreInv, [Next]_vars PROVE RescoreInv'
  OBVIOUS
<1>1. CASE UNCHANGED vars
  <2>1. Reproducible'
    BY <1>1, QuietKeeps DEF vars, repository, counters
  <2>2. Ordered' /\ Pending'
    BY <1>1 DEF vars, repository, counters, RescoreInv, Ordered, Pending, Readable,
       BaselineUsable, FilesPass, ChangedFiles, Listed, Hidden, Unstaged
  <2> QED
    BY <2>1, <2>2 DEF RescoreInv
<1> QED
  BY <1>1, RescoreOther, RescoreAgent, RescoreScoring DEF Next

(* Scoring the same work twice gives the same verdict, whatever is prepared *)
(* or killed in between, when the verification command can be run again.    *)
THEOREM RescoringAgrees ==
  ASSUME \A c \in Cases : Repeatable(c)
  PROVE  Spec => RescoreAgrees
<1>1. Init => RescoreInv
  BY DEF Init, RescoreInv, Ordered, Pending, Reproducible, SinceVerdict
<1>2. ASSUME EvalInv, RescoreInv, Next, verdict # None, verdict' # verdict,
             SameWork(verdict, verdict'), ~verdict.timedOut, ~verdict'.timedOut,
             verdict.sight.listed, verdict'.sight.listed,
             Fixture[verdict.case].leaves \subseteq Fixture[verdict.case].allow
      PROVE  verdict.pass = verdict'.pass
  <2>1. PICK c : Given(c, tree)
    <3>1. CASE Verify \/ \E c \in Cases : Score(c)
      BY <1>2, <3>1, ScoreConcludes, VerifyConcludes
    <3>2. ~((\E c \in Cases : Prepare(c)) \/ PrepareStep \/ Kill \/ RemoveWorkspace)
      BY <1>2 DEF Prepare, PrepareStep, WriteSetup, DieInSetup, AddAll, CommitBaseline,
         CommitFails, SaveState, Kill, RemoveWorkspace
    <3>3. ~AgentStep
      BY <1>2, EvalTypeAgent DEF EvalInv
    <3> QED
      BY <1>2, <3>1, <3>2, <3>3 DEF Next
  <2>2. /\ verdict.case = c /\ SinceVerdict /\ c \in Cases
        /\ verdict.looked \in Tree /\ verdict \in Verdict
    BY <1>2, <2>1 DEF Given, SameWork, SinceVerdict, EvalInv, EvalTypeOK, Verdict
  <2>3. CASE ~Readable
    <3>1. ~verdict.pass /\ ~verdict'.pass /\ verdict' \in Verdict
      BY <1>2, <2>1, <2>2, <2>3 DEF Given, RescoreInv, Reproducible
    <3> QED
      BY <2>2, <3>1 DEF Verdict
  <2>4. CASE Readable
    <3>1. repo = verdict.over /\ verdict'.pass = PassOn(c, tree)
      BY <1>2, <2>1, <2>2, <2>4 DEF Given, BaselineUsable, SinceVerdict
    <3>2. StillThere(verdict.looked) /\ verdict.pass = PassOn(c, verdict.looked)
      BY <1>2, <2>2, <2>4, <3>1 DEF RescoreInv, Reproducible
    <3> QED
      BY <1>2, <2>2, <3>1, <3>2, LeavingsAreNeutral DEF StillThere
  <2> QED
    BY <2>3, <2>4
<1>3. EvalInv /\ RescoreInv /\ [Next]_vars =>
        [verdict # None /\ verdict' # verdict /\ SameWork(verdict, verdict') =>
           \/ verdict.pass = verdict'.pass
           \/ verdict.timedOut \/ verdict'.timedOut
           \/ ~verdict.sight.listed \/ ~verdict'.sight.listed
           \/ ~(Fixture[verdict.case].leaves \subseteq Fixture[verdict.case].allow)]_vars
  BY <1>2
<1> QED
  BY <1>1, <1>3, EvalInitially, EvalStep, RescoreStep, PTL DEF Spec, RescoreAgrees
=============================================================================
