------------------------ MODULE FactsSnapshotProofs -------------------------
(***************************************************************************)
(* Proofs about FactsSnapshot, for any files and contents.  Stages and     *)
(* SnapshotsVouch are inductive together when edits are fresh, and give    *)
(* FactsOfOneTree; QuietReading and Attempted are inductive with Stages    *)
(* for any edits, and give FailsOnlyWhenDisturbed.                         *)
(***************************************************************************)
EXTENDS FactsSnapshot, TLAPS

(* Nothing read yet is a value of each kind of reading.                    *)
LEMMA EmptyReadings ==
  /\ NothingRead \in Reading
  /\ NoSnapshot \in Snapshot
  /\ NoFacts \in Facts
  BY DEF NothingRead, Reading, NoSnapshot, Snapshot, NoFacts, Facts

(* A git status is a snapshot that has read no tracked file yet.           *)
LEMMA StatusType ==
  ASSUME NEW present \in SUBSET Files
  PROVE  StatusOf(present) \in Snapshot
  BY SnapshotInputs DEF StatusOf, Snapshot, Reading

(* What the cache gives for a file is a content.                           *)
LEMMA RawType ==
  ASSUME SnapshotTypeOK, NEW f \in Files
  PROVE  Raw(f) \in Contents
  BY DEF SnapshotTypeOK, Raw, Reading, Tree

(* The initial state has the types.                                        *)
LEMMA TypeInit == Init => SnapshotTypeOK
  BY EmptyReadings, SnapshotInputs DEF Init, SnapshotTypeOK, Tree, Attempts

(* Every step keeps the types: one step of the proof for each action.      *)
LEMMA TypeNext == SnapshotTypeOK /\ [Next]_vars => SnapshotTypeOK'
<1> SUFFICES ASSUME SnapshotTypeOK, [Next]_vars PROVE SnapshotTypeOK'
  OBVIOUS
<1> USE DEF SnapshotTypeOK
<1>1. CASE ReadStatus
  BY <1>1, StatusType DEF ReadStatus, Present
<1>2. ASSUME NEW f \in Files, HashFile(f) PROVE SnapshotTypeOK'
  <2>1. tree[f] \in Contents /\ Raw(f) \in Contents
    BY RawType DEF Tree
  <2> QED
    BY <1>2, <2>1 DEF HashFile, Snapshot, Reading
<1>3. CASE FirstSnapshot
  BY <1>3 DEF FirstSnapshot
<1>4. CASE ReadNames
  BY <1>4 DEF ReadNames, Facts
<1>5. CASE ReadUntracked
  <2>1. \A f \in Files : facts.names[f] \in {TRUE, FALSE, None}
    BY DEF Facts
  <2> QED
    BY <1>5, <2>1 DEF ReadUntracked, Facts
<1>6. ASSUME NEW f \in Files, ReadRange(f) PROVE SnapshotTypeOK'
  <2>1. tree[f] \in Contents /\ Raw(f) \in Contents
    BY RawType DEF Tree
  <2>2. facts' \in Facts
    <3>1. \A c \in Contents : [facts EXCEPT !.ranges[f] = c] \in Facts
      BY DEF Facts, Reading
    <3> QED
      BY <1>6, <2>1, <3>1 DEF ReadRange
  <2>3. cache' \in Reading
    BY <1>6, <2>1 DEF ReadRange, Reading
  <2> QED
    BY <1>6, <2>2, <2>3 DEF ReadRange
<1>7. CASE RangesRead
  BY <1>7 DEF RangesRead
<1>8. ASSUME NEW f \in Files, ScanFile(f) PROVE SnapshotTypeOK'
  <2>1. Raw(f) \in Contents
    BY RawType
  <2> QED
    BY <1>8, <2>1 DEF ScanFile, Facts, Reading
<1>9. CASE Scanned
  BY <1>9 DEF Scanned
<1>10. CASE ReadStatusAgain
  BY <1>10, StatusType DEF ReadStatusAgain, Present
<1>11. ASSUME NEW f \in Files, HashAgain(f) PROVE SnapshotTypeOK'
  BY <1>11 DEF HashAgain, Snapshot, Reading, Tree
<1>12. CASE Compare
  <2>1. CASE NewAttempt /\ attempt < Attempts
    BY <1>12, <2>1, EmptyReadings DEF Compare, NewAttempt, Attempts, Tree
  <2>2. CASE UNCHANGED <<attempt, before, after, cache, facts, used, mid>>
             /\ pc' \in {"done", "failed"}
    BY <1>12, <2>2 DEF Compare
  <2> QED
    BY <1>12, <2>1, <2>2 DEF Compare
<1>13. ASSUME NEW f \in Files, NEW c \in Contents, Edit(f, c) PROVE SnapshotTypeOK'
  BY <1>13 DEF Edit, Tree
<1>14. CASE UNCHANGED vars
  BY <1>14 DEF vars
<1> QED
  BY <1>1, <1>2, <1>3, <1>4, <1>5, <1>6, <1>7, <1>8, <1>9, <1>10, <1>11,
     <1>12, <1>13, <1>14 DEF Next, Collect

(* SnapshotTypeOK holds in every reachable state: collect_facts makes at   *)
(* most three attempts and keeps what it reads apart.                      *)
THEOREM SnapshotTypeCorrect == Spec => []SnapshotTypeOK
  BY TypeInit, TypeNext, PTL DEF Spec
-----------------------------------------------------------------------------
(* Initially nothing is read, as the first stage says.                     *)
LEMMA StagesInit == Init => Stages
  BY SnapshotInputs DEF Init, Stages, Reached, NoFacts, NothingRead

(* Every step keeps the stages.                                            *)
LEMMA StagesNext ==
  SnapshotTypeOK /\ Stages /\ [Next]_vars => Stages'
<1> SUFFICES ASSUME SnapshotTypeOK, Stages, [Next]_vars PROVE Stages'
  OBVIOUS
<1> USE DEF Stages, Reached
<1>1. CASE ReadStatus
  BY <1>1 DEF ReadStatus, NoFacts, NothingRead
<1>2. ASSUME NEW f \in Files, HashFile(f) PROVE Stages'
  <2>1. tree[f] \in Contents /\ Raw(f) \in Contents
    BY RawType DEF Tree, SnapshotTypeOK
  <2>2. before'.content[f] # None
    BY <1>2, <2>1, SnapshotInputs DEF HashFile, SnapshotTypeOK, Snapshot, Reading
  <2>3. \A g \in Files \ {f} : before'.content[g] = before.content[g] /\ cache'[g] = cache[g]
    BY <1>2 DEF HashFile, SnapshotTypeOK, Snapshot, Reading
  <2> QED
    BY <1>2, <2>2, <2>3 DEF HashFile
<1>3. CASE FirstSnapshot
  BY <1>3, SnapshotInputs DEF FirstSnapshot, SnapshotTypeOK, Tree
<1>4. CASE ReadNames
  <2>1. \A f \in Files : /\ facts'.names[f] = IF f \in Tracked THEN tree[f] # 0 ELSE None
                         /\ facts'.ranges[f] = None /\ facts'.evidence[f] = None
    BY <1>4 DEF ReadNames, NoFacts, NothingRead
  <2>2. facts'.ranges = NothingRead /\ facts'.evidence = NothingRead
    BY <1>4 DEF ReadNames, NoFacts
  <2> QED
    BY <1>4, <2>1, <2>2, SnapshotInputs DEF ReadNames, Unread
<1>5. CASE ReadUntracked
  <2>1. \A f \in Files : /\ facts'.names[f] = IF f \in Tracked THEN facts.names[f] ELSE tree[f] # 0
                         /\ facts'.ranges[f] = None /\ facts'.evidence[f] = None
    <3>1. facts'.names = [f \in Files |-> IF f \in Tracked THEN facts.names[f] ELSE tree[f] # 0]
      BY <1>5 DEF ReadUntracked, SnapshotTypeOK, Facts
    <3>2. facts'.ranges = NothingRead /\ facts'.evidence = NothingRead
      BY <1>5 DEF ReadUntracked, SnapshotTypeOK, Facts
    <3> QED
      BY <3>1, <3>2 DEF NothingRead
  <2>2. \A f \in Files : facts'.names[f] # None
    BY <1>5, <2>1, SnapshotInputs DEF ReadUntracked
  <2> QED
    BY <1>5, <2>1, <2>2 DEF ReadUntracked, Unread
<1>6. ASSUME NEW f \in Files, ReadRange(f) PROVE Stages'
  <2>1. facts'.names = facts.names /\ facts'.evidence = facts.evidence /\ facts.names[f] = TRUE
    BY <1>6 DEF ReadRange, Named, SnapshotTypeOK, Facts
  <2>2. \A g \in Files \ {f} : facts'.ranges[g] = facts.ranges[g]
    BY <1>6 DEF ReadRange, SnapshotTypeOK, Facts, Reading
  <2> QED
    BY <1>6, <2>1, <2>2 DEF ReadRange, Unread
<1>7. CASE RangesRead
  BY <1>7 DEF RangesRead, Unread, Named
<1>8. ASSUME NEW f \in Files, ScanFile(f) PROVE Stages'
  <2>1. facts'.names = facts.names /\ facts'.ranges = facts.ranges /\ facts.names[f] = TRUE
    BY <1>8 DEF ScanFile, Named, SnapshotTypeOK, Facts
  <2>2. \A g \in Files \ {f} : facts'.evidence[g] = facts.evidence[g]
    BY <1>8 DEF ScanFile, SnapshotTypeOK, Facts, Reading
  <2>3. Named(facts.ranges)' = Named(facts.ranges)
    BY <2>1 DEF Named
  <2> QED
    BY <1>8, <2>1, <2>2, <2>3 DEF ScanFile, Unread
<1>9. CASE Scanned
  BY <1>9 DEF Scanned, Unread, Named
<1>10. CASE ReadStatusAgain
  BY <1>10 DEF ReadStatusAgain, Unread, Named
<1>11. ASSUME NEW f \in Files, HashAgain(f) PROVE Stages'
  BY <1>11 DEF HashAgain, Unread, Named
<1>12. CASE Compare
  <2>1. CASE NewAttempt
    BY <1>12, <2>1 DEF Compare, NewAttempt, NoFacts, NothingRead
  <2>2. CASE /\ UNCHANGED <<attempt, before, after, cache, facts, used, mid>>
             /\ pc' = "failed" \/ (pc' = "done" /\ before = after)
    BY <1>12, <2>2 DEF Compare, Unread, Named
  <2> QED
    BY <1>12, <2>1, <2>2 DEF Compare
<1>13. ASSUME NEW f \in Files, NEW c \in Contents, Edit(f, c) PROVE Stages'
  <2>1. \A g \in Files : tree'[g] \in used'[g]
    BY <1>13 DEF Edit, SnapshotTypeOK, Tree
  <2> QED
    BY <1>13, <2>1 DEF Edit, Unread, Named
<1>14. CASE UNCHANGED vars
  BY <1>14 DEF vars, Unread, Named
<1> QED
  BY <1>1, <1>2, <1>3, <1>4, <1>5, <1>6, <1>7, <1>8, <1>9, <1>10, <1>11,
     <1>12, <1>13, <1>14 DEF Next, Collect
-----------------------------------------------------------------------------
(* SnapshotsVouch for one file.                                            *)
VouchFor(f) ==
  before.content[f] # None =>
    /\ before.content[f] \in used[f]
    /\ tree[f] = before.content[f] => Agrees(f, before.content[f])
    /\ after.content[f] = before.content[f] => Agrees(f, before.content[f])

(* SnapshotsVouch is VouchFor of every file.                               *)
LEMMA VouchForEach == SnapshotsVouch <=> \A f \in Files : VouchFor(f)
  BY DEF SnapshotsVouch, VouchFor

(* Initially nothing is read, so there is nothing to vouch for.            *)
LEMMA VouchInit == Init => SnapshotsVouch
  BY DEF Init, SnapshotsVouch, NoSnapshot, NothingRead

(* A step that leaves what was read of a file, and its content, alone.     *)
LEMMA VouchUnread ==
  ASSUME NEW f \in Files, VouchFor(f),
         before'.content[f] = before.content[f],
         after'.content[f] = after.content[f],
         used'[f] = used[f], tree'[f] = tree[f], mid' = mid,
         cache'[f] = cache[f],
         facts'.names[f] = facts.names[f],
         facts'.ranges[f] = facts.ranges[f],
         facts'.evidence[f] = facts.evidence[f]
  PROVE  VouchFor(f)'
  BY DEF VouchFor, Agrees

(* Every step of a worktree whose edits are fresh keeps SnapshotsVouch.    *)
LEMMA VouchNext ==
  ASSUME Fresh, SnapshotTypeOK, Stages, SnapshotsVouch, [Next]_vars
  PROVE  SnapshotsVouch'
<1> SUFFICES ASSUME NEW f \in Files PROVE VouchFor(f)'
  BY DEF SnapshotsVouch, VouchFor
<1>0. VouchFor(f)
  BY VouchForEach
<1>1. CASE ReadStatus
  <2>1. cache[f] = None /\ mid = None /\ facts = NoFacts /\ after = NoSnapshot
    BY <1>1 DEF ReadStatus, Stages, Reached, NothingRead
  <2>2. before'.content[f] \in {None, tree[f]}
    BY <1>1 DEF ReadStatus, StatusOf, Present
  <2> QED
    BY <1>1, <2>1, <2>2 DEF ReadStatus, VouchFor, Agrees, Stages, NoFacts,
       NothingRead, NoSnapshot
<1>2. ASSUME NEW g \in Files, HashFile(g) PROVE VouchFor(f)'
  <2>1. CASE g = f
    <3>1. cache[f] = None /\ mid = None /\ facts = NoFacts /\ after = NoSnapshot
      BY <1>2, <2>1 DEF HashFile, NextToHash, Unread, Stages, Reached
    <3>2. before'.content[f] = tree[f] /\ cache'[f] \in {None, tree[f]}
      BY <1>2, <2>1, <3>1 DEF HashFile, Raw, SnapshotTypeOK, Snapshot, Reading
    <3> QED
      BY <1>2, <3>1, <3>2 DEF HashFile, VouchFor, Agrees, Stages, NoFacts,
         NothingRead, NoSnapshot
  <2>2. CASE g # f
    <3>1. before'.content[f] = before.content[f] /\ cache'[f] = cache[f]
      BY <1>2, <2>2 DEF HashFile, SnapshotTypeOK, Snapshot, Reading
    <3> QED
      BY <1>0, <1>2, <3>1, VouchUnread DEF HashFile
  <2> QED
    BY <2>1, <2>2
<1>3. CASE FirstSnapshot
  <2>1. after = NoSnapshot
    BY <1>3 DEF FirstSnapshot, Stages, Reached
  <2> QED
    BY <1>0, <1>3, <2>1 DEF FirstSnapshot, VouchFor, Agrees, NoSnapshot, NothingRead
<1>4. CASE ReadNames
  <2>1. after = NoSnapshot
    BY <1>4 DEF ReadNames, Stages, Reached
  <2>2. facts'.names[f] \in {None, tree[f] # 0}
    BY <1>4 DEF ReadNames, SnapshotTypeOK, Facts
  <2>3. facts'.ranges = facts.ranges /\ facts'.evidence = facts.evidence
    BY <1>4 DEF ReadNames, SnapshotTypeOK, Facts
  <2> QED
    BY <1>0, <1>4, <2>1, <2>2, <2>3
    DEF ReadNames, VouchFor, Agrees, NoSnapshot, NothingRead
<1>5. CASE ReadUntracked
  <2>1. after = NoSnapshot
    BY <1>5 DEF ReadUntracked, Stages, Reached
  <2>2. facts'.names[f] \in {facts.names[f], tree[f] # 0}
    BY <1>5 DEF ReadUntracked, SnapshotTypeOK, Facts
  <2>3. facts'.ranges = facts.ranges /\ facts'.evidence = facts.evidence
    BY <1>5 DEF ReadUntracked, SnapshotTypeOK, Facts
  <2> QED
    BY <1>0, <1>5, <2>1, <2>2, <2>3
    DEF ReadUntracked, VouchFor, Agrees, NoSnapshot, NothingRead
<1>6. ASSUME NEW g \in Files, ReadRange(g) PROVE VouchFor(f)'
  <2>0. facts'.names = facts.names /\ facts'.evidence = facts.evidence
    BY <1>6 DEF ReadRange, SnapshotTypeOK, Facts
  <2>1. CASE g = f
    <3>1. after = NoSnapshot
      BY <1>6 DEF ReadRange, Stages, Reached
    <3>2. facts'.ranges[f] \in {tree[f], Raw(f)} /\ cache'[f] \in {cache[f], Raw(f)}
      BY <1>6, <2>1 DEF ReadRange, SnapshotTypeOK, Facts, Reading
    <3>3. cache[f] \in {None, tree[f]} => Raw(f) = tree[f]
      BY DEF Raw
    <3> QED
      BY <1>0, <1>6, <2>0, <3>1, <3>2, <3>3
      DEF ReadRange, VouchFor, Agrees, NoSnapshot, NothingRead
  <2>2. CASE g # f
    <3>1. facts'.ranges[f] = facts.ranges[f] /\ cache'[f] = cache[f]
      BY <1>6, <2>2 DEF ReadRange, SnapshotTypeOK, Facts, Reading
    <3> QED
      BY <1>0, <1>6, <2>0, <3>1, VouchUnread DEF ReadRange
  <2> QED
    BY <2>1, <2>2
<1>7. CASE RangesRead
  BY <1>0, <1>7, VouchUnread DEF RangesRead
<1>8. ASSUME NEW g \in Files, ScanFile(g) PROVE VouchFor(f)'
  <2>0. facts'.names = facts.names /\ facts'.ranges = facts.ranges
    BY <1>8 DEF ScanFile, SnapshotTypeOK, Facts
  <2>1. CASE g = f
    <3>1. after = NoSnapshot
      BY <1>8 DEF ScanFile, Stages, Reached
    <3>2. facts'.evidence[f] = Raw(f) /\ cache'[f] = Raw(f)
      BY <1>8, <2>1 DEF ScanFile, SnapshotTypeOK, Facts, Reading
    <3>3. cache[f] \in {None, tree[f]} => Raw(f) = tree[f]
      BY DEF Raw
    <3> QED
      BY <1>0, <1>8, <2>0, <3>1, <3>2, <3>3
      DEF ScanFile, VouchFor, Agrees, NoSnapshot, NothingRead
  <2>2. CASE g # f
    <3>1. facts'.evidence[f] = facts.evidence[f] /\ cache'[f] = cache[f]
      BY <1>8, <2>2 DEF ScanFile, SnapshotTypeOK, Facts, Reading
    <3> QED
      BY <1>0, <1>8, <2>0, <3>1, VouchUnread DEF ScanFile
  <2> QED
    BY <2>1, <2>2
<1>9. CASE Scanned
  BY <1>0, <1>9, VouchUnread DEF Scanned
<1>10. CASE ReadStatusAgain
  <2>1. after'.content[f] \in {None, tree[f]}
    BY <1>10 DEF ReadStatusAgain, StatusOf, Present
  <2> QED
    BY <1>0, <1>10, <2>1 DEF ReadStatusAgain, VouchFor, Agrees
<1>11. ASSUME NEW g \in Files, HashAgain(g) PROVE VouchFor(f)'
  <2>1. after'.content[f] \in {after.content[f], tree[f]}
    BY <1>11 DEF HashAgain, SnapshotTypeOK, Snapshot, Reading
  <2> QED
    BY <1>0, <1>11, <2>1 DEF HashAgain, VouchFor, Agrees
<1>12. CASE Compare
  <2>1. CASE NewAttempt
    BY <2>1 DEF NewAttempt, VouchFor, NoSnapshot, NothingRead
  <2>2. CASE UNCHANGED <<attempt, before, after, cache, facts, used, mid>>
    BY <1>0, <1>12, <2>2, VouchUnread DEF Compare
  <2> QED
    BY <1>12, <2>1, <2>2 DEF Compare
<1>13. ASSUME NEW g \in Files, NEW c \in Contents, Edit(g, c) PROVE VouchFor(f)'
  <2>1. CASE g = f
    <3>1. c \notin used[f] /\ tree'[f] = c /\ used[f] \subseteq used'[f]
      BY <1>13, <2>1 DEF Edit, SnapshotTypeOK, Tree
    <3> QED
      BY <1>0, <1>13, <3>1 DEF Edit, VouchFor, Agrees
  <2>2. CASE g # f
    <3>1. tree'[f] = tree[f] /\ used'[f] = used[f]
      BY <1>13, <2>2 DEF Edit, SnapshotTypeOK, Tree
    <3> QED
      BY <1>0, <1>13, <3>1, VouchUnread DEF Edit
  <2> QED
    BY <2>1, <2>2
<1>14. CASE UNCHANGED vars
  BY <1>0, <1>14, VouchUnread DEF vars
<1> QED
  BY <1>1, <1>2, <1>3, <1>4, <1>5, <1>6, <1>7, <1>8, <1>9, <1>10, <1>11,
     <1>12, <1>13, <1>14 DEF Next, Collect

(* When the snapshots are equal they are complete, and vouch for each file.*)
LEMMA VouchedFacts ==
  SnapshotTypeOK /\ Stages /\ SnapshotsVouch => FactsOfOneTree
<1> SUFFICES ASSUME SnapshotTypeOK, Stages, SnapshotsVouch, pc = "done"
             PROVE  mid # None /\ facts = FactsOf(mid)
  BY DEF FactsOfOneTree
<1>1. mid # None /\ before = after /\ Unread(before) = {}
  BY DEF Stages
<1>2. \A f \in Files : Agrees(f, mid[f])
  <2> TAKE f \in Files
  <2>1. before.content[f] # None /\ after.content[f] = before.content[f]
    BY <1>1 DEF Unread
  <2>2. Agrees(f, before.content[f])
    BY <2>1, VouchForEach DEF VouchFor
  <2> QED
    BY <1>1, <2>2 DEF Agrees
<1>3. \A f \in Files : facts.names[f] = (mid[f] # 0)
  BY <1>2 DEF Agrees, Stages, Reached
<1>4. \A f \in Files :
        /\ facts.ranges[f] = IF mid[f] # 0 THEN mid[f] ELSE None
        /\ facts.evidence[f] = IF mid[f] # 0 THEN mid[f] ELSE None
  BY <1>2, <1>3 DEF Agrees, Stages, Reached, Named
<1>5. facts.names = [f \in Files |-> mid[f] # 0]
  BY <1>3 DEF SnapshotTypeOK, Facts
<1>6. /\ facts.ranges = [f \in Files |-> IF mid[f] # 0 THEN mid[f] ELSE None]
      /\ facts.evidence = [f \in Files |-> IF mid[f] # 0 THEN mid[f] ELSE None]
  BY <1>4 DEF SnapshotTypeOK, Facts, Reading
<1> QED
  BY <1>1, <1>5, <1>6 DEF FactsOf, SnapshotTypeOK, Facts

(* With fresh edits, the facts returned are those of one worktree: the two *)
(* snapshots of collect_facts catch every edit that makes them wrong.      *)
THEOREM FactsAreOfOneTree ==
  ASSUME Fresh
  PROVE  Spec => []FactsOfOneTree
<1> DEFINE IInv == SnapshotTypeOK /\ Stages /\ SnapshotsVouch
<1>1. Init => IInv
  BY TypeInit, StagesInit, VouchInit
<1>2. IInv /\ [Next]_vars => IInv'
  BY TypeNext, StagesNext, VouchNext
<1>3. IInv => FactsOfOneTree
  BY VouchedFacts
<1> QED
  BY <1>1, <1>2, <1>3, PTL DEF Spec
-----------------------------------------------------------------------------
(* Initially nothing is read.                                              *)
LEMMA QuietInit == Init => QuietReading
  BY SnapshotInputs DEF Init, QuietReading, NoSnapshot, NothingRead

(* A status read from an undisturbed worktree shows it.                    *)
LEMMA StatusShows ==
  /\ StatusOf(Present).listed = Present
  /\ \A f \in Files : StatusOf(Present).content[f] \in {None, tree[f]}
  BY DEF StatusOf, Present

(* Every step keeps QuietReading, whatever the edits.                      *)
LEMMA QuietNext ==
  ASSUME SnapshotTypeOK, Stages, QuietReading, [Next]_vars
  PROVE  QuietReading'
<1> SUFFICES ASSUME attempt' \notin disturbed'
             PROVE  QuietReading'
  BY DEF QuietReading
<1>0. UNCHANGED tree => Present' = Present
  BY DEF Present
<1> USE DEF QuietReading
<1>1. CASE ReadStatus
  BY <1>0, <1>1, StatusShows DEF ReadStatus
<1>2. ASSUME NEW g \in Files, HashFile(g) PROVE QuietReading'
  <2>1. attempt \notin disturbed /\ Raw(g) = tree[g]
    BY <1>2 DEF HashFile, Raw
  <2>2. before'.listed = before.listed
    BY <1>2 DEF HashFile, SnapshotTypeOK, Snapshot
  <2>3. \A f \in Files : /\ before'.content[f] \in {before.content[f], tree[f]}
                         /\ cache'[f] \in {cache[f], tree[f]}
    BY <1>2, <2>1 DEF HashFile, SnapshotTypeOK, Snapshot, Reading
  <2> QED
    BY <1>0, <1>2, <2>1, <2>2, <2>3 DEF HashFile
<1>3. CASE FirstSnapshot
  BY <1>0, <1>3 DEF FirstSnapshot
<1>4. CASE ReadNames
  BY <1>0, <1>4 DEF ReadNames
<1>5. CASE ReadUntracked
  BY <1>0, <1>5 DEF ReadUntracked
<1>6. ASSUME NEW g \in Files, ReadRange(g) PROVE QuietReading'
  <2>1. attempt \notin disturbed /\ Raw(g) = tree[g]
    BY <1>6 DEF ReadRange, Raw
  <2>2. \A f \in Files : cache'[f] \in {cache[f], tree[f]}
    BY <1>6, <2>1 DEF ReadRange, SnapshotTypeOK, Reading
  <2> QED
    BY <1>0, <1>6, <2>1, <2>2 DEF ReadRange
<1>7. CASE RangesRead
  BY <1>0, <1>7 DEF RangesRead
<1>8. ASSUME NEW g \in Files, ScanFile(g) PROVE QuietReading'
  <2>1. attempt \notin disturbed /\ Raw(g) = tree[g]
    BY <1>8 DEF ScanFile, Raw
  <2>2. \A f \in Files : cache'[f] \in {cache[f], tree[f]}
    BY <1>8, <2>1 DEF ScanFile, SnapshotTypeOK, Reading
  <2> QED
    BY <1>0, <1>8, <2>1, <2>2 DEF ScanFile
<1>9. CASE Scanned
  BY <1>0, <1>9 DEF Scanned
<1>10. CASE ReadStatusAgain
  BY <1>0, <1>10, StatusShows DEF ReadStatusAgain
<1>11. ASSUME NEW g \in Files, HashAgain(g) PROVE QuietReading'
  <2>1. after'.listed = after.listed
    BY <1>11 DEF HashAgain, SnapshotTypeOK, Snapshot
  <2>2. \A f \in Files : after'.content[f] \in {after.content[f], tree[f]}
    BY <1>11 DEF HashAgain, SnapshotTypeOK, Snapshot, Reading
  <2> QED
    BY <1>0, <1>11, <2>1, <2>2 DEF HashAgain
<1>12. CASE Compare
  <2>1. CASE NewAttempt
    BY <2>1 DEF NewAttempt, NoSnapshot, NothingRead
  <2>2. CASE /\ UNCHANGED <<attempt, before, after, cache, facts, used, mid>>
             /\ pc' \in {"done", "failed"}
    BY <1>0, <1>12, <2>2 DEF Compare
  <2> QED
    BY <1>12, <2>1, <2>2 DEF Compare
<1>13. ASSUME NEW g \in Files, NEW c \in Contents, Edit(g, c) PROVE QuietReading'
  BY <1>13 DEF Edit
<1>14. CASE UNCHANGED vars
  BY <1>0, <1>14 DEF vars
<1> QED
  BY <1>1, <1>2, <1>3, <1>4, <1>5, <1>6, <1>7, <1>8, <1>9, <1>10, <1>11,
     <1>12, <1>13, <1>14 DEF Next, Collect

(* Two complete readings of an undisturbed worktree are equal, so an       *)
(* attempt whose snapshots differ was disturbed.                           *)
LEMMA QuietSnapshotsAgree ==
  ASSUME SnapshotTypeOK, Stages, QuietReading,
         pc = "hash_again", Unread(after) = {}, attempt \notin disturbed
  PROVE  before = after
<1>1. before.listed = after.listed
  BY DEF QuietReading
<1>2. Unread(before) = {}
  BY DEF Stages
<1>3. \A f \in Files : before.content[f] = tree[f] /\ after.content[f] = tree[f]
  BY <1>2 DEF QuietReading, Unread
<1>4. before.content = after.content
  BY <1>3 DEF SnapshotTypeOK, Snapshot, Reading
<1> QED
  BY <1>1, <1>4 DEF SnapshotTypeOK, Snapshot

(* Initially no attempt is over.                                           *)
LEMMA AttemptedInit == Init => Attempted
  BY DEF Init, Attempted

(* Only Compare ends an attempt, and only after a disturbance.             *)
LEMMA AttemptedNext ==
  ASSUME SnapshotTypeOK, Stages, QuietReading, Attempted, [Next]_vars
  PROVE  Attempted'
<1>1. CASE Compare
  <2>1. attempt \in Nat
    BY DEF SnapshotTypeOK, Attempts
  <2>2. before # after => attempt \in disturbed
    BY <1>1, QuietSnapshotsAgree DEF Compare
  <2>3. CASE before # after /\ NewAttempt /\ pc' = "status"
    BY <1>1, <2>1, <2>2, <2>3 DEF Compare, NewAttempt, Attempted
  <2>4. CASE before # after /\ pc' = "failed" /\ attempt' = attempt /\ attempt = Attempts
    BY <1>1, <2>1, <2>2, <2>4 DEF Compare, Attempted
  <2>5. CASE pc' = "done" /\ attempt' = attempt
    BY <1>1, <2>5 DEF Compare, Attempted
  <2>6. before # after /\ ~(attempt < Attempts) => attempt = Attempts
    BY DEF SnapshotTypeOK, Attempts
  <2> QED
    BY <1>1, <2>3, <2>4, <2>5, <2>6 DEF Compare, NewAttempt
<1>2. ASSUME NEW f \in Files, NEW c \in Contents, Edit(f, c) PROVE Attempted'
  BY <1>2 DEF Edit, Attempted
<1>3. CASE UNCHANGED <<attempt, disturbed>> /\ pc' # "failed"
  BY <1>3 DEF Attempted
<1>4. CASE UNCHANGED vars
  BY <1>4 DEF vars, Attempted
<1> QED
  BY <1>1, <1>2, <1>3, <1>4 DEF Next, Collect, ReadStatus, HashFile,
     FirstSnapshot, ReadNames, ReadUntracked, ReadRange, RangesRead, ScanFile,
     Scanned, ReadStatusAgain, HashAgain

(* collect_facts gives up only after a change of the worktree during each  *)
(* of its three attempts, whatever the edits are.                          *)
THEOREM FailureIsJustified == Spec => []FailsOnlyWhenDisturbed
<1> DEFINE IInv == SnapshotTypeOK /\ Stages /\ QuietReading /\ Attempted
<1>1. Init => IInv
  BY TypeInit, StagesInit, QuietInit, AttemptedInit
<1>2. IInv /\ [Next]_vars => IInv'
  BY TypeNext, StagesNext, QuietNext, AttemptedNext
<1>3. IInv => FailsOnlyWhenDisturbed
  <2> SUFFICES ASSUME IInv, pc = "failed" PROVE disturbed = 1..Attempts
    BY DEF FailsOnlyWhenDisturbed
  <2>1. attempt = 3 /\ 3 \in disturbed
    BY DEF Attempted, Attempts
  <2>2. 1 \in disturbed /\ 2 \in disturbed
    BY <2>1 DEF Attempted
  <2>3. disturbed \subseteq 1..3
    BY DEF SnapshotTypeOK, Attempts
  <2>4. 1..Attempts = {1, 2, 3}
    BY DEF Attempts
  <2>5. 1..3 = {1, 2, 3}
    OBVIOUS
  <2> QED
    BY <2>1, <2>2, <2>3, <2>4, <2>5
<1> QED
  BY <1>1, <1>2, <1>3, PTL DEF Spec
=============================================================================
