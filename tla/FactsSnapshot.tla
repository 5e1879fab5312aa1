--------------------------- MODULE FactsSnapshot ---------------------------
(***************************************************************************)
(* collect_facts of change_facts.py on a worktree that others may change   *)
(* while it reads: a snapshot, the facts, a second snapshot, and another   *)
(* attempt when the two snapshots differ.                                  *)
(*                                                                         *)
(* Every git call and every read of a file is a step.  A file is reduced   *)
(* to its content; 0 is the content at the base commit, for an untracked   *)
(* file its absence.  Line ranges and evidence stand for the content they  *)
(* were computed from.                                                     *)
(*                                                                         *)
(* used, mid and disturbed are history variables: the contents each file   *)
(* had during this attempt, the worktree when the first snapshot was       *)
(* complete, and the attempts during which the worktree changed.           *)
(***************************************************************************)
EXTENDS Naturals

CONSTANTS
  Files,     \* paths
  Tracked,   \* the paths git tracks
  Contents,  \* the contents of files, 0 among them
  Fresh,     \* TRUE when no edit brings back a content of the same attempt
  None       \* not read yet

ASSUME SnapshotInputs ==
  /\ Tracked \subseteq Files
  /\ 0 \in Contents
  /\ Fresh \in BOOLEAN
  /\ None \notin Contents /\ None \notin BOOLEAN
  /\ None \notin [Files -> Contents]

VARIABLES
  tree,       \* the worktree
  pc,         \* where collect_facts is
  attempt,    \* the number of the attempt
  before,     \* what the first snapshot has read: names and contents
  after,      \* what the second snapshot has read
  cache,      \* the _ReadCache of the attempt
  facts,      \* what _collect_facts_once has read
  used, mid, disturbed

vars == <<tree, pc, attempt, before, after, cache, facts, used, mid, disturbed>>

Attempts == 3
Tree     == [Files -> Contents]
Reading  == [Files -> Contents \union {None}]
Snapshot == [listed : SUBSET Files, content : Reading]
Facts    == [names : [Files -> {TRUE, FALSE, None}],
             ranges : Reading, evidence : Reading]

NothingRead == [f \in Files |-> None]
NoSnapshot  == [listed |-> {}, content |-> NothingRead]
NoFacts     == [names |-> NothingRead, ranges |-> NothingRead,
                evidence |-> NothingRead]

SnapshotTypeOK ==
  /\ tree \in Tree
  /\ pc \in {"status", "hash", "names", "untracked", "ranges", "scan",
             "status_again", "hash_again", "done", "failed"}
  /\ attempt \in 1..Attempts
  /\ before \in Snapshot /\ after \in Snapshot
  /\ cache \in Reading
  /\ facts \in Facts
  /\ used \in [Files -> SUBSET Contents]
  /\ mid \in Tree \union {None}
  /\ disturbed \subseteq 1..Attempts

Init ==
  /\ tree \in Tree
  /\ pc = "status"
  /\ attempt = 1
  /\ before = NoSnapshot /\ after = NoSnapshot
  /\ cache = NothingRead
  /\ facts = NoFacts
  /\ used = [f \in Files |-> {tree[f]}]
  /\ mid = None
  /\ disturbed = {}
-----------------------------------------------------------------------------
Present == {f \in Files : tree[f] # 0}

\* git status: names only; an untracked file it does not list has no hash.
StatusOf(present) ==
  [listed  |-> present,
   content |-> [f \in Files |-> IF f \in Tracked \union present THEN None ELSE 0]]

\* git diff reads the tracked files, then each listed file is hashed.
Unread(snapshot) == {f \in Files : snapshot.content[f] = None}
NextToHash(snapshot, f) ==
  f \in Unread(snapshot) /\ (f \in Tracked \/ Unread(snapshot) \cap Tracked = {})

\* _ReadCache.raw_for: a path is read once in an attempt.
Raw(f) == IF cache[f] # None THEN cache[f] ELSE tree[f]

ReadStatus ==
  /\ pc = "status"
  /\ before' = StatusOf(Present)
  /\ pc' = "hash"
  /\ UNCHANGED <<tree, attempt, after, cache, facts, used, mid, disturbed>>

HashFile(f) ==
  /\ pc = "hash" /\ NextToHash(before, f)
  /\ IF f \in Tracked
       THEN before' = [before EXCEPT !.content[f] = tree[f]] /\ UNCHANGED cache
       ELSE /\ before' = [before EXCEPT !.content[f] = Raw(f)]
            /\ cache' = [cache EXCEPT ![f] = Raw(f)]
  /\ UNCHANGED <<tree, pc, attempt, after, facts, used, mid, disturbed>>

FirstSnapshot ==
  /\ pc = "hash" /\ Unread(before) = {}
  /\ pc' = "names"
  /\ mid' = tree
  /\ UNCHANGED <<tree, attempt, before, after, cache, facts, used, disturbed>>

\* git diff --name-status, then git status for the untracked files.
ReadNames ==
  /\ pc = "names"
  /\ facts' = [facts EXCEPT !.names =
                 [f \in Files |-> IF f \in Tracked THEN tree[f] # 0 ELSE None]]
  /\ pc' = "untracked"
  /\ UNCHANGED <<tree, attempt, before, after, cache, used, mid, disturbed>>

ReadUntracked ==
  /\ pc = "untracked"
  /\ facts' = [facts EXCEPT !.names =
                 [f \in Files |-> IF f \in Tracked THEN @[f] ELSE tree[f] # 0]]
  /\ pc' = "ranges"
  /\ UNCHANGED <<tree, attempt, before, after, cache, used, mid, disturbed>>

Named(reading) == {f \in Files : facts.names[f] = TRUE /\ reading[f] = None}

\* git diff of one changed file, or the lines of an untracked one.
ReadRange(f) ==
  /\ pc = "ranges" /\ f \in Named(facts.ranges)
  /\ IF f \in Tracked
       THEN facts' = [facts EXCEPT !.ranges[f] = tree[f]] /\ UNCHANGED cache
       ELSE /\ facts' = [facts EXCEPT !.ranges[f] = Raw(f)]
            /\ cache' = [cache EXCEPT ![f] = Raw(f)]
  /\ UNCHANGED <<tree, pc, attempt, before, after, used, mid, disturbed>>

RangesRead ==
  /\ pc = "ranges" /\ Named(facts.ranges) = {}
  /\ pc' = "scan"
  /\ UNCHANGED <<tree, attempt, before, after, cache, facts, used, mid, disturbed>>

\* The candidate scan of one file, through the cache.
ScanFile(f) ==
  /\ pc = "scan" /\ f \in Named(facts.evidence)
  /\ facts' = [facts EXCEPT !.evidence[f] = Raw(f)]
  /\ cache' = [cache EXCEPT ![f] = Raw(f)]
  /\ UNCHANGED <<tree, pc, attempt, before, after, used, mid, disturbed>>

Scanned ==
  /\ pc = "scan" /\ Named(facts.evidence) = {}
  /\ pc' = "status_again"
  /\ UNCHANGED <<tree, attempt, before, after, cache, facts, used, mid, disturbed>>

ReadStatusAgain ==
  /\ pc = "status_again"
  /\ after' = StatusOf(Present)
  /\ pc' = "hash_again"
  /\ UNCHANGED <<tree, attempt, before, cache, facts, used, mid, disturbed>>

\* Mutant: the second snapshot reads through the cache of the first.
HashCached(f) ==
  /\ pc = "hash_again" /\ NextToHash(after, f)
  /\ after' = [after EXCEPT !.content[f] = IF f \in Tracked THEN tree[f] ELSE Raw(f)]
  /\ UNCHANGED <<tree, pc, attempt, before, cache, facts, used, mid, disturbed>>

\* The second snapshot has a _ReadCache of its own.
HashAgain(f) ==
  /\ pc = "hash_again" /\ NextToHash(after, f)
  /\ after' = [after EXCEPT !.content[f] = tree[f]]
  /\ UNCHANGED <<tree, pc, attempt, before, cache, facts, used, mid, disturbed>>

\* Mutants: a new attempt keeps the cache; attempts are not counted.
NewAttemptOldCache ==
  /\ attempt' = attempt + 1
  /\ pc' = "status"
  /\ before' = NoSnapshot /\ after' = NoSnapshot
  /\ facts' = NoFacts
  /\ mid' = None
  /\ used' = [f \in Files |-> {tree[f]}]
  /\ UNCHANGED cache
NewAttemptUncounted ==
  /\ pc' = "status"
  /\ before' = NoSnapshot /\ after' = NoSnapshot
  /\ cache' = NothingRead
  /\ facts' = NoFacts
  /\ mid' = None
  /\ used' = [f \in Files |-> {tree[f]}]
  /\ UNCHANGED attempt

NewAttempt ==
  /\ attempt' = attempt + 1
  /\ pc' = "status"
  /\ before' = NoSnapshot /\ after' = NoSnapshot
  /\ cache' = NothingRead
  /\ facts' = NoFacts
  /\ mid' = None
  /\ used' = [f \in Files |-> {tree[f]}]

Compare ==
  /\ pc = "hash_again" /\ Unread(after) = {}
  /\ UNCHANGED <<tree, disturbed>>
  /\ IF before = after
       THEN pc' = "done"
            /\ UNCHANGED <<attempt, before, after, cache, facts, used, mid>>
       ELSE IF attempt < Attempts
              THEN NewAttempt
              ELSE pc' = "failed"
                   /\ UNCHANGED <<attempt, before, after, cache, facts, used, mid>>

Collect ==
  \/ ReadStatus
  \/ \E f \in Files : HashFile(f)
  \/ FirstSnapshot
  \/ ReadNames
  \/ ReadUntracked
  \/ \E f \in Files : ReadRange(f)
  \/ RangesRead
  \/ \E f \in Files : ScanFile(f)
  \/ Scanned
  \/ ReadStatusAgain
  \/ \E f \in Files : HashAgain(f)
  \/ Compare

\* Anybody changes the worktree while the command runs.
Edit(f, c) ==
  /\ pc \notin {"done", "failed"}
  /\ c # tree[f]
  /\ Fresh => c \notin used[f]
  /\ tree' = [tree EXCEPT ![f] = c]
  /\ used' = [used EXCEPT ![f] = @ \union {c}]
  /\ disturbed' = disturbed \union {attempt}
  /\ UNCHANGED <<pc, attempt, before, after, cache, facts, mid>>

Next == Collect \/ \E f \in Files, c \in Contents : Edit(f, c)

Spec == Init /\ [][Next]_vars

\* The operating system keeps running the command.
FairSpec == Spec /\ WF_vars(Collect)
-----------------------------------------------------------------------------
FactsOf(t) ==
  [names    |-> [f \in Files |-> t[f] # 0],
   ranges   |-> [f \in Files |-> IF t[f] # 0 THEN t[f] ELSE None],
   evidence |-> [f \in Files |-> IF t[f] # 0 THEN t[f] ELSE None]]

(* The facts a command returns are those of one worktree, the one there    *)
(* was when the first snapshot was complete, although they were read file  *)
(* by file: the two snapshots of collect_facts detect every edit that does *)
(* not bring an earlier content back.                                      *)
FactsOfOneTree == pc = "done" => mid # None /\ facts = FactsOf(mid)

(* What was read of a file whose content is still, or again was, the one   *)
(* the first snapshot saw: the inductive core of FactsOfOneTree.           *)
Agrees(f, c) ==
  /\ mid # None => mid[f] = c
  /\ cache[f] \in {None, c}
  /\ facts.names[f] \in {None, c # 0}
  /\ facts.ranges[f] \in {None, c}
  /\ facts.evidence[f] \in {None, c}
SnapshotsVouch ==
  \A f \in Files : before.content[f] # None =>
    /\ before.content[f] \in used[f]
    /\ tree[f] = before.content[f] => Agrees(f, tree[f])
    /\ after.content[f] = before.content[f] => Agrees(f, after.content[f])

(* How far the reading is at each stage of an attempt.                     *)
Reached(stages) == pc \in stages \union {"done", "failed"}
Stages ==
  /\ \A f \in Files : tree[f] \in used[f]
  /\ pc = "status" => before = NoSnapshot /\ cache = NothingRead
  /\ pc = "hash" =>
       \A f \in Files : cache[f] # None => before.content[f] # None
  /\ pc \in {"status", "hash"} => mid = None
  /\ pc \in {"status", "hash", "names"} => facts = NoFacts
  /\ pc \notin {"status", "hash"} => mid # None /\ Unread(before) = {}
  /\ Reached({"hash_again"}) \/ after = NoSnapshot
  /\ pc = "untracked" =>
       /\ facts.ranges = NothingRead /\ facts.evidence = NothingRead
       /\ \A f \in Tracked : facts.names[f] # None
  /\ Reached({"ranges", "scan", "status_again", "hash_again"}) =>
       \A f \in Files : facts.names[f] # None
  /\ \A f \in Files : facts.names[f] # TRUE =>
       facts.ranges[f] = None /\ facts.evidence[f] = None
  /\ Reached({"scan", "status_again", "hash_again"}) => Named(facts.ranges) = {}
  /\ Reached({"status_again", "hash_again"}) => Named(facts.evidence) = {}
  /\ pc = "done" => before = after

(* The command gives up with snapshot_changed only when the worktree       *)
(* really changed during each of the three attempts: nothing an earlier    *)
(* attempt has read makes a later one fail.                                *)
FailsOnlyWhenDisturbed == pc = "failed" => disturbed = 1..Attempts

(* During an attempt nobody disturbed, all that was read is the worktree.  *)
QuietReading ==
  attempt \notin disturbed =>
    /\ \A f \in Files : /\ before.content[f] \in {None, tree[f]}
                        /\ after.content[f] \in {None, tree[f]}
                        /\ cache[f] \in {None, tree[f]}
    /\ pc # "status" => before.listed = Present
    /\ pc = "hash_again" => after.listed = Present

Attempted ==
  /\ \A i \in 1..(attempt - 1) : i \in disturbed
  /\ pc = "failed" => attempt = Attempts /\ attempt \in disturbed

(* The command ends, however often the worktree changes: attempts are      *)
(* bounded.                                                                *)
CollectionEnds == <>(pc \in {"done", "failed"})
=============================================================================
