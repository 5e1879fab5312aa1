-------------------------- MODULE RunLedgerProofs --------------------------
(***************************************************************************)
(* Proofs about RunLedger for any number of processes, keys, entries and   *)
(* changes files: types, the validity of the published file, the origin of *)
(* malformed entries, the implementation of LedgerStore and what the store *)
(* itself promises, and, from the history of commits, which events and     *)
(* entries an update may lose.                                             *)
(***************************************************************************)
EXTENDS RunLedger, TLAPS

-----------------------------------------------------------------------------
(* A merged section is a section again. *)
LEMMA MergeSectionType ==
  ASSUME NEW old \in SectionValue, NEW new \in SectionValue \union {None}
  PROVE  MergeSection(old, new) \in SectionValue
<1>1. CASE new = None
  BY <1>1 DEF MergeSection
<1>2. CASE new # None /\ Wrong \in {old, new}
  BY <1>2 DEF MergeSection
<1>3. CASE new # None /\ Wrong \notin {old, new}
  <2>1. old \in [Keys -> Entry] /\ new \in [Keys -> Entry]
    BY <1>3 DEF SectionValue
  <2>2. MergeSection(old, new)
          = [k \in Keys |-> IF new[k] = None THEN old[k] ELSE new[k]]
    BY <1>3 DEF MergeSection
  <2> QED
    BY <2>1, <2>2 DEF SectionValue
<1> QED
  BY <1>1, <1>2, <1>3

(* The fresh document of new_ledger has the shape of a document. *)
LEMMA NewLedgerType ==
  ASSUME NEW header \in Headers
  PROVE  NewLedger(header) \in Document
<1>1. [k \in Keys |-> None] \in SectionValue
  BY DEF SectionValue, Entry
<1>2. << >> \in Seq(EventIds)
  OBVIOUS
<1> QED
  BY <1>1, <1>2 DEF NewLedger, Document

(* HardValid accepts a fresh document only with a valid header. *)
LEMMA NewLedgerValid ==
  ASSUME NEW header, HardValid(NewLedger(header))
  PROVE  header = "valid"
BY DEF HardValid, NewLedger

(* The merge of a valid document and a changes file is a document. *)
LEMMA ApplyChangesType ==
  ASSUME NEW doc \in Document, HardValid(doc),
         NEW change \in Change, NEW id \in EventIds
  PROVE  ApplyChanges(doc, change, id) \in Document
<1>1. [s \in Sections |-> MergeSection(doc.sections[s], change.sections[s])]
        \in [Sections -> SectionValue]
  <2> SUFFICES ASSUME NEW s \in Sections
               PROVE  MergeSection(doc.sections[s], change.sections[s])
                        \in SectionValue
    OBVIOUS
  <2>1. doc.sections[s] \in SectionValue
    BY DEF Document
  <2>2. change.sections[s] \in SectionValue \union {None}
    BY DEF Change
  <2> QED
    BY <2>1, <2>2, MergeSectionType
<1>2. MergeEvents(doc.events, change.events, id) \in Seq(EventIds) \union {Wrong}
  <2>1. doc.events \in Seq(EventIds)
    BY DEF Document, HardValid
  <2> QED
    BY <2>1 DEF MergeEvents
<1>3. (IF change.header = "keep" THEN doc.header ELSE change.header) \in Headers
  BY DEF Document, Change
<1>4. (IF change.notes = "keep" THEN doc.notes ELSE change.notes)
        \in {"list", "null", "missing", "wrong"}
  BY DEF Document, Change
<1> QED
  BY <1>1, <1>2, <1>3, <1>4 DEF ApplyChanges, Document

(* update_ledger writes only what _validate_ledger accepts. *)
LEMMA AcceptedUpdate ==
  ASSUME NEW doc \in Document, NEW change \in Change, NEW id \in EventIds,
         UpdateOutcome(doc, change, id) = "ok"
  PROVE  /\ HardValid(doc)
         /\ IntegrationWriteOk(change)
         /\ ApplyChanges(doc, change, id) \in Document
         /\ HardValid(ApplyChanges(doc, change, id))
         /\ SoftViolations(ApplyChanges(doc, change, id))
              \intersect WrittenSections(change) = {}
<1>1. /\ HardValid(doc)
      /\ IntegrationWriteOk(change)
      /\ HardValid(ApplyChanges(doc, change, id))
      /\ SoftViolations(ApplyChanges(doc, change, id))
           \intersect WrittenSections(change) = {}
  BY Zenon DEF UpdateOutcome
<1> QED
  BY <1>1, ApplyChangesType

(* A migrated document is a valid document with the sections of its source. *)
LEMMA MigratedType ==
  ASSUME NEW doc \in Document, HardValid(doc), NEW id \in EventIds
  PROVE  /\ Migrated(doc, id) \in Document
         /\ HardValid(Migrated(doc, id))
         /\ Migrated(doc, id).sections = doc.sections
<1>1. doc.events \in Seq(EventIds)
  BY DEF Document, HardValid
<1>2. Append(doc.events, id) \in Seq(EventIds)
  BY <1>1
<1>3. Append(doc.events, id) # Wrong
  BY <1>2, MarkersAreDistinct
<1> QED
  BY <1>1, <1>2, <1>3 DEF Migrated, Document, HardValid
-----------------------------------------------------------------------------
(* The part of the inductive invariant about types and validity: what a    *)
(* process is about to write is valid, and the temporary file it renames   *)
(* is whole.                                                               *)
Safe == TypeOK /\ FileAlwaysValid /\ WritesAreValid

(* The initial store is absent and nothing is being written. *)
LEMMA SafeInit == Init => Safe
<1> SUFFICES ASSUME Init PROVE Safe
  OBVIOUS
<1>1. NoChange \in Change
  BY DEF NoChange, Change
<1>2. TypeOK
  BY <1>1, InputsAreTyped DEF Init, TypeOK, AllCommands
<1> QED
  BY <1>2 DEF Init, Safe, FileAlwaysValid, WritesAreValid, InWrite

(* Ending without a write keeps Safe. *)
LEMMA SafeFinish ==
  ASSUME Safe, NEW p \in Procs, NEW how \in Outcomes, Finish(p, how),
         base' \in [Procs -> Nat]
  PROVE  Safe'
<1>1. TypeOK'
  BY DEF Safe, TypeOK, Finish
<1>2. WritesAreValid'
  BY DEF Safe, TypeOK, Finish, WritesAreValid, InWrite
<1> QED
  BY <1>1, <1>2 DEF Safe, Finish, FileAlwaysValid

(* Preparing a valid document for writing keeps Safe. *)
LEMMA SafePrepare ==
  ASSUME Safe, NEW p \in Procs, NEW doc \in Document, HardValid(doc),
         Prepare(p, doc), base' \in [Procs -> Nat]
  PROVE  Safe'
<1>1. TypeOK'
  BY DEF Safe, TypeOK, Prepare
<1>2. WritesAreValid'
  BY DEF Safe, TypeOK, Prepare, WritesAreValid, InWrite
<1> QED
  BY <1>1, <1>2 DEF Safe, Prepare, FileAlwaysValid

(* Reading sets base to a natural number. *)
LEMMA ReadType ==
  ASSUME Safe, NEW p \in Procs, Read(p)
  PROVE  base' \in [Procs -> Nat]
<1>1. Len(history) \in Nat
  BY DEF Safe, TypeOK
<1> QED
  BY <1>1 DEF Safe, TypeOK, Read

(* Every command line is a typed one. *)
LEMMA SafeInvoke ==
  ASSUME Safe, NEW p \in Procs, Invoke(p)
  PROVE  Safe'
<1>1. PICK name \in Commands, input \in Change :
             Start(p, name, input) /\ (name = "update" => input \in Changes)
  <2>1. NoChange \in Change
    BY DEF NoChange, Change
  <2>2. ASSUME NEW header \in Headers
        PROVE  [NoChange EXCEPT !.header = header] \in Change
    BY <2>1 DEF Change
  <2>3. Changes \subseteq Change
    BY InputsAreTyped
  <2>4. ASSUME NEW header \in Headers,
               Start(p, "init", [NoChange EXCEPT !.header = header])
        PROVE  \E name \in Commands, input \in Change :
                 Start(p, name, input) /\ (name = "update" => input \in Changes)
    BY <2>2, <2>4 DEF Start
  <2>5. ASSUME NEW change \in Changes, Start(p, "update", change)
        PROVE  \E name \in Commands, input \in Change :
                 Start(p, name, input) /\ (name = "update" => input \in Changes)
    BY <2>3, <2>5 DEF Start
  <2>6. ASSUME NEW command \in {"load", "migrate"},
               Start(p, command, NoChange)
        PROVE  \E name \in Commands, input \in Change :
                 Start(p, name, input) /\ (name = "update" => input \in Changes)
    BY <2>1, <2>6 DEF Start
  <2> QED
    BY <2>4, <2>5, <2>6, Zenon DEF Invoke
<1>2. TypeOK'
  BY <1>1 DEF Safe, TypeOK, Start
<1>3. WritesAreValid'
  BY <1>1 DEF Safe, TypeOK, Start, WritesAreValid, InWrite
<1> QED
  BY <1>1, <1>2, <1>3 DEF Safe, Start, FileAlwaysValid

(* init prepares a new ledger, which is valid. *)
LEMMA SafeBuildInit ==
  ASSUME Safe, NEW p \in Procs, BuildInit(p)
  PROVE  Safe'
<1>1. base' \in [Procs -> Nat]
  BY DEF Safe, TypeOK, BuildInit
<1>2. CASE HardValid(NewLedger(arg[p].header))
  <2>1. NewLedger(arg[p].header) \in Document
    <3>1. arg[p].header = "valid"
      BY <1>2, NewLedgerValid
    <3> QED
      BY <3>1, NewLedgerType DEF Headers
  <2>2. Prepare(p, NewLedger(arg[p].header))
    BY <1>2 DEF BuildInit
  <2> QED
    BY <1>1, <1>2, <2>1, <2>2, SafePrepare
<1>3. CASE ~HardValid(NewLedger(arg[p].header))
  BY <1>1, <1>3, SafeFinish DEF BuildInit, Outcomes
<1> QED
  BY <1>2, <1>3

(* An update is accepted, or ends with one of the outcomes of main. *)
LEMMA UpdateOutcomeType ==
  ASSUME NEW doc, NEW change, NEW id
  PROVE  UpdateOutcome(doc, change, id) \in {"ok"} \union Outcomes
BY Zenon DEF UpdateOutcome, Outcomes

(* update prepares the merged document only when it is valid. *)
LEMMA SafeReadAndMerge ==
  ASSUME Safe, NEW p \in Procs, ReadAndMerge(p)
  PROVE  Safe'
<1>1. base' \in [Procs -> Nat]
  BY ReadType DEF ReadAndMerge
<1>2. CASE file \in {None, Wrong}
  BY <1>1, <1>2, SafeFinish DEF ReadAndMerge, Outcomes
<1>3. CASE file \notin {None, Wrong} /\ UpdateOutcome(file, arg[p], p) = "ok"
  <2>1. file \in Document /\ arg[p] \in Change /\ p \in EventIds
    BY <1>3, InputsAreTyped DEF Safe, TypeOK
  <2>2. Prepare(p, ApplyChanges(file, arg[p], p))
    BY <1>3 DEF ReadAndMerge
  <2> QED
    BY <1>1, <1>3, <2>1, <2>2, AcceptedUpdate, SafePrepare
<1>4. CASE file \notin {None, Wrong} /\ UpdateOutcome(file, arg[p], p) # "ok"
  <2>1. Finish(p, UpdateOutcome(file, arg[p], p))
    BY <1>4 DEF ReadAndMerge
  <2>2. UpdateOutcome(file, arg[p], p) \in Outcomes
    BY <1>4, UpdateOutcomeType
  <2> QED
    BY <1>1, <2>1, <2>2, SafeFinish
<1> QED
  BY <1>2, <1>3, <1>4

(* load ends without a write. *)
LEMMA SafeReadOnly ==
  ASSUME Safe, NEW p \in Procs, ReadOnly(p)
  PROVE  Safe'
<1>1. base' \in [Procs -> Nat]
  BY ReadType DEF ReadOnly
<1>2. PICK how \in {"ok", "invalid_input"} : Finish(p, how)
  BY Zenon DEF ReadOnly
<1> QED
  BY <1>1, <1>2, SafeFinish DEF Outcomes

(* migrate prepares the legacy document only when it is valid. *)
LEMMA SafeCheckAndCopy ==
  ASSUME Safe, NEW p \in Procs, CheckAndCopy(p)
  PROVE  Safe'
<1>1. base' \in [Procs -> Nat]
  BY ReadType DEF CheckAndCopy
<1>2. CASE \E how \in {"noop", "skipped", "corrupt"} : Finish(p, how)
  BY <1>1, <1>2, SafeFinish DEF Outcomes
<1>3. CASE /\ legacy \in Legacies /\ HardValid(legacy)
           /\ Prepare(p, Migrated(legacy, p))
  <2>1. legacy \in Document /\ p \in EventIds
    BY <1>3, InputsAreTyped
  <2> QED
    BY <1>1, <1>3, <2>1, MigratedType, SafePrepare
<1> QED
  BY <1>2, <1>3, Zenon DEF CheckAndCopy

(* Opening and filling the temporary file, and failing, leave the target alone. *)
LEMMA SafeWrite ==
  ASSUME Safe, NEW p \in Procs,
         OpenTemp(p) \/ WriteTemp(p) \/ WriteFails(p) \/ Kill(p)
  PROVE  Safe'
<1>1. pc[p] \in {"opening", "writing", "renaming"} => pending[p] \in Document
  BY DEF Safe, WritesAreValid, InWrite
<1>2. CASE OpenTemp(p)
  BY <1>1, <1>2 DEF OpenTemp, local, Safe, TypeOK, FileAlwaysValid,
     WritesAreValid, InWrite
<1>3. CASE WriteTemp(p)
  BY <1>1, <1>3 DEF WriteTemp, local, Safe, TypeOK, FileAlwaysValid,
     WritesAreValid, InWrite
<1>4. CASE WriteFails(p)
  BY <1>1, <1>4 DEF WriteFails, local, Safe, TypeOK, FileAlwaysValid,
     WritesAreValid, InWrite, Outcomes
<1>5. CASE Kill(p)
  BY <1>1, <1>5 DEF Kill, local, Safe, TypeOK, FileAlwaysValid,
     WritesAreValid, InWrite, Outcomes
<1> QED
  BY <1>2, <1>3, <1>4, <1>5

(* A rename publishes the whole of a valid document. *)
LEMMA SafeRename ==
  ASSUME Safe, NEW p \in Procs, Rename(p)
  PROVE  Safe'
<1>1. /\ pending[p] \in Document
      /\ HardValid(pending[p])
      /\ tmp[p] = pending[p]
  BY DEF Safe, WritesAreValid, InWrite, Rename
<1>2. FileAlwaysValid'
  BY <1>1 DEF Rename, FileAlwaysValid
<1>3. [by |-> p, doc |-> pending[p]] \in Commit
  BY <1>1 DEF Commit
<1>4. history' \in Seq(Commit)
  BY <1>3 DEF Safe, TypeOK, Rename
<1>5. TypeOK'
  BY <1>1, <1>4 DEF Safe, TypeOK, Rename, local, Outcomes
<1>6. WritesAreValid'
  BY DEF Safe, TypeOK, Rename, local, WritesAreValid, InWrite
<1> QED
  BY <1>2, <1>5, <1>6 DEF Safe

(* Every step of every process keeps Safe. *)
LEMMA SafeNext == Safe /\ [Next]_vars => Safe'
<1> SUFFICES ASSUME Safe, [Next]_vars PROVE Safe'
  OBVIOUS
<1>1. CASE UNCHANGED vars
  BY <1>1 DEF vars, Safe, TypeOK, FileAlwaysValid, WritesAreValid, InWrite
<1>2. ASSUME NEW p \in Procs,
             Invoke(p) \/ Step(p) \/ WriteFails(p) \/ Kill(p)
      PROVE  Safe'
  BY <1>2, SafeInvoke, SafeBuildInit, SafeReadAndMerge, SafeReadOnly,
     SafeCheckAndCopy, SafeWrite, SafeRename DEF Step
<1> QED
  BY <1>1, <1>2 DEF Next

(* Safe holds in every reachable state. *)
LEMMA AlwaysSafe == Spec => []Safe
<1> QED
  BY SafeInit, SafeNext, PTL DEF Spec

(* Every variable keeps its type, for any number of processes. *)
THEOREM TypeCorrect == Spec => []TypeOK
<1>1. Safe => TypeOK
  BY DEF Safe
<1> QED
  BY <1>1, AlwaysSafe, PTL

(* The published ledger is always absent or whole and valid. *)
THEOREM PublishedLedgerValid == Spec => []FileAlwaysValid
<1>1. Safe => FileAlwaysValid
  BY DEF Safe
<1> QED
  BY <1>1, AlwaysSafe, PTL
-----------------------------------------------------------------------------
(* What one step may do to the file and to the documents about to be       *)
(* written: only a rename publishes, and a process that enters the write   *)
(* holds what its command built.                                           *)
Built(p) ==
  \/ cmd[p] = "init" /\ pending'[p] = NewLedger("valid")
  \/ /\ cmd[p] = "update" /\ file \in Document
     /\ UpdateOutcome(file, arg[p], p) = "ok"
     /\ pending'[p] = ApplyChanges(file, arg[p], p)
     /\ base'[p] = Len(history)
  \/ /\ cmd[p] = "migrate" /\ legacy \in Legacies /\ HardValid(legacy)
     /\ pending'[p] = Migrated(legacy, p)

Carried(q) ==
  /\ cmd'[q] = cmd[q] /\ arg'[q] = arg[q]
  /\ (InWrite(q) /\ pending'[q] = pending[q] /\ base'[q] = base[q]) \/ Built(q)

WritersCarried == \A q \in Procs : InWrite(q)' => Carried(q)

OnlyReads(p) == \A q \in Procs \ {p} : base'[q] = base[q]

(* A command notes the position of its own read only. *)
LEMMA ReadIsOwn ==
  ASSUME Safe, NEW p \in Procs, Read(p) \/ UNCHANGED base
  PROVE  OnlyReads(p)
BY DEF Safe, TypeOK, Read, OnlyReads

(* Ending without a write carries nothing on towards the target. *)
LEMMA FinishCarries ==
  ASSUME Safe, NEW p \in Procs, NEW how, Finish(p, how), OnlyReads(p)
  PROVE  WritersCarried
BY DEF Safe, TypeOK, Finish, OnlyReads, WritersCarried, Carried, InWrite

(* Preparing carries the prepared document, read as base says, towards a rename. *)
LEMMA PrepareCarries ==
  ASSUME Safe, NEW p \in Procs, NEW doc, Prepare(p, doc), OnlyReads(p),
         pending'[p] = doc => Built(p)
  PROVE  WritersCarried
BY DEF Safe, TypeOK, Prepare, OnlyReads, WritersCarried, Carried, InWrite

(* What one step may do to a process, and to the target. *)
LEMMA StepShape ==
  ASSUME Safe, [Next]_vars
  PROVE  /\ legacy' = legacy
         /\ UNCHANGED <<file, history>> \/ \E p \in Procs : Rename(p)
         /\ WritersCarried
<1>1. CASE UNCHANGED vars
  BY <1>1 DEF vars, WritersCarried, Carried, InWrite
<1>2. CASE \E p \in Procs : Invoke(p)
  BY <1>2 DEF Safe, TypeOK, Invoke, Start, WritersCarried, Carried, InWrite
<1>3. CASE \E p \in Procs : OpenTemp(p) \/ WriteTemp(p) \/ WriteFails(p) \/ Kill(p)
  BY <1>3 DEF Safe, TypeOK, OpenTemp, WriteTemp, WriteFails, Kill, local,
     WritersCarried, Carried, InWrite
<1>4. CASE \E p \in Procs : Rename(p)
  BY <1>4 DEF Safe, TypeOK, Rename, local, WritersCarried, Carried, InWrite
<1>5. ASSUME NEW p \in Procs, BuildInit(p)
      PROVE  WritersCarried /\ UNCHANGED <<file, history, legacy>>
  <2>0. OnlyReads(p)
    BY <1>5, ReadIsOwn DEF BuildInit
  <2>1. CASE HardValid(NewLedger(arg[p].header))
    <3>1. arg[p].header = "valid"
      BY <2>1, NewLedgerValid
    <3>2. Prepare(p, NewLedger("valid")) /\ cmd[p] = "init"
      BY <1>5, <2>1, <3>1 DEF BuildInit
    <3> QED
      BY <2>0, <3>2, PrepareCarries DEF Built, Prepare
  <2>2. CASE ~HardValid(NewLedger(arg[p].header))
    <3>1. Finish(p, "invalid_input")
      BY <1>5, <2>2 DEF BuildInit
    <3> QED
      BY <2>0, <3>1, FinishCarries DEF Finish
  <2> QED
    BY <2>1, <2>2
<1>6. ASSUME NEW p \in Procs, ReadAndMerge(p)
      PROVE  WritersCarried /\ UNCHANGED <<file, history, legacy>>
  <2>0. OnlyReads(p)
    BY <1>6, ReadIsOwn DEF ReadAndMerge
  <2>1. CASE file \notin {None, Wrong} /\ UpdateOutcome(file, arg[p], p) = "ok"
    <3>1. Prepare(p, ApplyChanges(file, arg[p], p)) /\ cmd[p] = "update"
      BY <1>6, <2>1 DEF ReadAndMerge
    <3>2. file \in Document
      BY <2>1 DEF Safe, TypeOK
    <3>3. base'[p] = Len(history)
      BY <1>6 DEF Safe, TypeOK, ReadAndMerge, Read
    <3> QED
      BY <2>0, <2>1, <3>1, <3>2, <3>3, PrepareCarries DEF Built, Prepare
  <2>2. CASE ~(file \notin {None, Wrong} /\ UpdateOutcome(file, arg[p], p) = "ok")
    <3>1. \E how \in {"invalid_input", UpdateOutcome(file, arg[p], p)} :
            Finish(p, how)
      BY <1>6, <2>2 DEF ReadAndMerge
    <3> QED
      BY <2>0, <3>1, FinishCarries DEF Finish
  <2> QED
    BY <2>1, <2>2
<1>7. ASSUME NEW p \in Procs, ReadOnly(p)
      PROVE  WritersCarried /\ UNCHANGED <<file, history, legacy>>
  <2>0. OnlyReads(p)
    BY <1>7, ReadIsOwn DEF ReadOnly
  <2>1. \E how \in {"ok", "invalid_input"} : Finish(p, how)
    BY <1>7, Zenon DEF ReadOnly
  <2> QED
    BY <2>0, <2>1, FinishCarries DEF Finish
<1>8. ASSUME NEW p \in Procs, CheckAndCopy(p)
      PROVE  WritersCarried /\ UNCHANGED <<file, history, legacy>>
  <2>0. OnlyReads(p)
    BY <1>8, ReadIsOwn DEF CheckAndCopy
  <2>1. CASE \E how \in {"noop", "skipped", "corrupt"} : Finish(p, how)
    BY <2>0, <2>1, FinishCarries DEF Finish
  <2>2. CASE /\ legacy \in Legacies /\ HardValid(legacy)
             /\ Prepare(p, Migrated(legacy, p))
    <3>1. cmd[p] = "migrate"
      BY <1>8 DEF CheckAndCopy
    <3> QED
      BY <2>0, <2>2, <3>1, PrepareCarries DEF Built, Prepare
  <2> QED
    BY <1>8, <2>1, <2>2, Zenon DEF CheckAndCopy
<1> QED
  BY <1>1, <1>2, <1>3, <1>4, <1>5, <1>6, <1>7, <1>8
  DEF Next, Step, Invoke, Start, OpenTemp, WriteTemp, WriteFails, Kill,
      Rename, vars
-----------------------------------------------------------------------------
(* The write gates keep malformed entries out: what an accepted update     *)
(* produces has only the malformed entries of the document it read.        *)
LEMMA UpdateKeepsOrigin ==
  ASSUME NEW doc \in Document, NEW change \in Change, NEW id \in EventIds,
         NEW source, UpdateOutcome(doc, change, id) = "ok",
         MalformedOnlyAsIn(source, doc)
  PROVE  MalformedOnlyAsIn(source, ApplyChanges(doc, change, id))
<1> DEFINE merged == ApplyChanges(doc, change, id)
<1>1. /\ HardValid(doc) /\ IntegrationWriteOk(change)
      /\ merged \in Document /\ HardValid(merged)
      /\ SoftViolations(merged) \intersect WrittenSections(change) = {}
  BY AcceptedUpdate
<1> SUFFICES ASSUME NEW s \in Sections, NEW k \in Keys,
                    merged.sections[s][k] = Wrong
             PROVE  doc.sections[s] # Wrong /\ doc.sections[s][k] = Wrong
  BY DEF MalformedOnlyAsIn
<1>2. doc.sections[s] # Wrong
  BY <1>1 DEF HardValid
<1>3. merged.sections[s] = MergeSection(doc.sections[s], change.sections[s])
  BY DEF ApplyChanges
<1>4. CASE change.sections[s] = None
  BY <1>2, <1>3, <1>4 DEF MergeSection
<1>5. CASE change.sections[s] # None /\ s \in SoftSections
  BY <1>1, <1>5 DEF SoftViolations, WrittenSections
<1>6. CASE change.sections[s] # None /\ s = "integration"
  <2>1. change.sections[s] # Wrong
    BY <1>1, <1>2, <1>3, <1>6 DEF MergeSection, HardValid
  <2>2. change.sections[s][k] # Wrong
    BY <1>1, <1>6, <2>1 DEF IntegrationWriteOk
  <2>3. merged.sections[s][k] = IF change.sections[s][k] = None
                                  THEN doc.sections[s][k]
                                  ELSE change.sections[s][k]
    BY <1>2, <1>3, <1>6, <2>1 DEF MergeSection
  <2> QED
    BY <1>2, <2>2, <2>3
<1> QED
  BY <1>4, <1>5, <1>6 DEF Sections

(* A fresh ledger has no malformed entry. *)
LEMMA NewLedgerClean ==
  ASSUME NEW source
  PROVE  MalformedOnlyAsIn(source, NewLedger("valid"))
BY MarkersAreDistinct DEF MalformedOnlyAsIn, NewLedger

PendingOrigin ==
  \A p \in Procs : InWrite(p) => MalformedOnlyAsIn(legacy, pending[p])

(* The strengthening of MalformedOnlyFromLegacy: it holds as well of what  *)
(* every process is about to write.                                        *)
Origin == MalformedOnlyFromLegacy /\ PendingOrigin

(* Every step keeps the origin of malformed entries. *)
LEMMA OriginNext == Safe /\ Safe' /\ Origin /\ [Next]_vars => Origin'
<1> SUFFICES ASSUME Safe, Safe', Origin, [Next]_vars PROVE Origin'
  OBVIOUS
<1>1. legacy' = legacy /\ WritersCarried
  BY StepShape
<1>2. MalformedOnlyFromLegacy'
  <2>1. CASE UNCHANGED <<file, history>>
    BY <1>1, <2>1 DEF Origin, MalformedOnlyFromLegacy, MalformedOnlyAsIn
  <2>2. ASSUME NEW p \in Procs, Rename(p)
        PROVE  MalformedOnlyFromLegacy'
    <3>1. file' = pending[p] /\ InWrite(p)
      BY <2>2 DEF Rename, Safe, WritesAreValid, InWrite
    <3>2. MalformedOnlyAsIn(legacy, pending[p])
      BY <3>1 DEF Origin, PendingOrigin
    <3> QED
      BY <1>1, <3>1, <3>2 DEF MalformedOnlyFromLegacy, MalformedOnlyAsIn
  <2> QED
    BY <2>1, <2>2, StepShape
<1>3. PendingOrigin'
  <2> SUFFICES ASSUME NEW q \in Procs, InWrite(q)'
               PROVE  MalformedOnlyAsIn(legacy, pending'[q])
    BY <1>1 DEF PendingOrigin, MalformedOnlyAsIn
  <2>1. Carried(q)
    BY <1>1 DEF WritersCarried
  <2>2. CASE InWrite(q) /\ pending'[q] = pending[q]
    BY <2>2 DEF Origin, PendingOrigin
  <2>3. CASE cmd[q] = "init" /\ pending'[q] = NewLedger("valid")
    BY <2>3, NewLedgerClean
  <2>4. CASE /\ file \in Document /\ UpdateOutcome(file, arg[q], q) = "ok"
             /\ pending'[q] = ApplyChanges(file, arg[q], q)
    <3>1. arg[q] \in Change /\ q \in EventIds
      BY InputsAreTyped DEF Safe, TypeOK
    <3>2. MalformedOnlyAsIn(legacy, file)
      BY <2>4 DEF Origin, MalformedOnlyFromLegacy
    <3> QED
      BY <2>4, <3>1, <3>2, UpdateKeepsOrigin
  <2>5. CASE /\ legacy \in Legacies /\ HardValid(legacy)
             /\ pending'[q] = Migrated(legacy, q)
    <3>1. legacy \in Document /\ q \in EventIds
      BY <2>5, InputsAreTyped
    <3>2. pending'[q].sections = legacy.sections
      BY <2>5, <3>1, MigratedType
    <3> QED
      BY <2>5, <3>2 DEF MalformedOnlyAsIn
  <2> QED
    BY <2>1, <2>2, <2>3, <2>4, <2>5 DEF Carried, Built
<1> QED
  BY <1>2, <1>3 DEF Origin

(* A malformed entry of the published ledger was in the legacy document.   *)
THEOREM MalformedEntriesComeFromLegacy == Spec => []MalformedOnlyFromLegacy
<1>1. Init => Origin
  BY DocumentsAreNotMarkers
  DEF Init, Origin, MalformedOnlyFromLegacy, PendingOrigin, InWrite
<1>2. Origin => MalformedOnlyFromLegacy
  BY DEF Origin
<1> QED
  BY <1>1, <1>2, OriginNext, AlwaysSafe, PTL DEF Spec
-----------------------------------------------------------------------------
(* What a rename appends to the history. *)
LEMMA RenameAppends ==
  ASSUME Safe, NEW p \in Procs, Rename(p)
  PROVE  /\ Len(history) \in Nat
         /\ DOMAIN history = 1..Len(history)
         /\ DOMAIN history' = 1..(Len(history) + 1)
         /\ Len(history') = Len(history) + 1
         /\ history' # << >>
         /\ \A i \in 1..Len(history) : history'[i] = history[i]
         /\ history'[Len(history) + 1].by = p
         /\ history'[Len(history) + 1].doc = pending[p]
         /\ file' = pending[p]
<1>1. file' = pending[p] /\ pending[p] \in Document
  BY DEF Rename, Safe, WritesAreValid, InWrite
<1> DEFINE commit == [by |-> p, doc |-> pending[p]]
<1>2. commit \in Commit /\ history \in Seq(Commit)
  BY <1>1 DEF Commit, Safe, TypeOK
<1>3. history' = Append(history, commit)
  BY DEF Rename
<1>4. commit.by = p /\ commit.doc = pending[p]
  OBVIOUS
<1> HIDE DEF commit
<1> QED
  BY <1>1, <1>2, <1>3, <1>4

(* A rename adds exactly the written document to the published ones. *)
LEMMA RenamePublishes ==
  ASSUME Safe, NEW p \in Procs, Rename(p)
  PROVE  Published' = Published \union {pending[p]} /\ file' = pending[p]
<1>1. ASSUME NEW doc
      PROVE  (\E i \in DOMAIN history' : doc = history'[i].doc)
               <=> doc = pending[p] \/ \E i \in DOMAIN history : doc = history[i].doc
  BY RenameAppends
<1> QED
  BY <1>1, RenameAppends DEF Published

(* Every step keeps the explanation of what is about to be published. *)
LEMMA ExplainedNext ==
  Safe /\ WritesAreExplained /\ [Next]_vars => WritesAreExplained'
<1> SUFFICES ASSUME Safe, WritesAreExplained, [Next]_vars
             PROVE  WritesAreExplained'
  OBVIOUS
<1>1. legacy' = legacy /\ WritersCarried
  BY StepShape
<1>2. Published \subseteq Published'
  BY StepShape, RenamePublishes DEF Published
<1>3. file' # None => file' \in Published'
  <2>1. CASE UNCHANGED <<file, history>>
    BY <2>1 DEF WritesAreExplained, Published
  <2>2. CASE \E p \in Procs : Rename(p)
    BY <2>2, RenamePublishes
  <2> QED
    BY <2>1, <2>2, StepShape
<1>4. ASSUME NEW q \in Procs, InWrite(q)'
      PROVE  Explained(q)'
  <2>1. Carried(q)
    BY <1>1, <1>4 DEF WritersCarried
  <2>2. CASE InWrite(q) /\ pending'[q] = pending[q]
    BY <1>1, <1>2, <2>1, <2>2 DEF Carried, Explained, WritesAreExplained
  <2>3. CASE cmd[q] = "init" /\ pending'[q] = NewLedger("valid")
    BY <2>1, <2>3 DEF Carried, Explained
  <2>4. CASE /\ cmd[q] = "update" /\ file \in Document
             /\ UpdateOutcome(file, arg[q], q) = "ok"
             /\ pending'[q] = ApplyChanges(file, arg[q], q)
    <3>1. file \in Published'
      BY <1>2, <2>4, DocumentsAreNotMarkers DEF WritesAreExplained
    <3> QED
      BY <2>1, <2>4, <3>1 DEF Carried, Explained
  <2>5. CASE /\ cmd[q] = "migrate" /\ legacy \in Legacies
             /\ HardValid(legacy) /\ pending'[q] = Migrated(legacy, q)
    BY <1>1, <2>1, <2>5 DEF Carried, Explained
  <2> QED
    BY <2>1, <2>2, <2>3, <2>4, <2>5 DEF Carried, Built
<1> QED
  BY <1>3, <1>4 DEF WritesAreExplained

(* The store is stated over the same document functions. *)
LEMMA StoreSharesShape ==
  ASSUME NEW doc, NEW change, NEW id
  PROVE  /\ Store!HardValid(doc) = HardValid(doc)
         /\ Store!ApplyChanges(doc, change, id) = ApplyChanges(doc, change, id)
         /\ Store!UpdateOutcome(doc, change, id) = UpdateOutcome(doc, change, id)
         /\ Store!Migrated(doc, id) = Migrated(doc, id)
<1> USE DEF Store!Sections, Sections, Store!SoftSections, SoftSections
<1>1. ASSUME NEW d
      PROVE  Store!HardValid(d) = HardValid(d)
  BY DEF Store!HardValid, HardValid
<1>2. Store!ApplyChanges(doc, change, id) = ApplyChanges(doc, change, id)
  BY DEF Store!ApplyChanges, ApplyChanges, Store!MergeSection, MergeSection,
     Store!MergeEvents, MergeEvents
<1>3. /\ Store!IntegrationWriteOk(change) = IntegrationWriteOk(change)
      /\ Store!ExtendsNull(doc, change) = ExtendsNull(doc, change)
      /\ Store!WrittenSections(change) = WrittenSections(change)
  BY DEF Store!IntegrationWriteOk, IntegrationWriteOk, Store!ExtendsNull,
     ExtendsNull, Store!WrittenSections, WrittenSections
<1>4. ASSUME NEW d
      PROVE  Store!SoftViolations(d) = SoftViolations(d)
  BY DEF Store!SoftViolations, SoftViolations
<1>5. Store!UpdateOutcome(doc, change, id) = UpdateOutcome(doc, change, id)
  BY <1>1, <1>2, <1>3, <1>4 DEF Store!UpdateOutcome, UpdateOutcome
<1>6. Store!Migrated(doc, id) = Migrated(doc, id)
  BY DEF Store!Migrated, Migrated
<1> QED
  BY <1>1, <1>2, <1>5, <1>6

(* Every step of a process is a step of the store or leaves it as it is. *)
LEMMA StepRefines ==
  Safe /\ WritesAreExplained /\ [Next]_vars => [Store!StoreNext]_Store!storeVars
<1> SUFFICES ASSUME Safe, WritesAreExplained, [Next]_vars
             PROVE  Store!StoreNext \/ UNCHANGED Store!storeVars
  OBVIOUS
<1>1. legacy' = legacy
  BY StepShape
<1>2. CASE UNCHANGED <<file, history>>
  BY <1>1, <1>2 DEF Store!storeVars, Published
<1>3. ASSUME NEW p \in Procs, Rename(p)
      PROVE  Store!StoreNext
  <2>1. file' = pending[p] /\ Published' = Published \union {pending[p]}
    BY <1>3, RenamePublishes
  <2>2. Explained(p) /\ p \in EventIds
    BY <1>3, InputsAreTyped DEF WritesAreExplained, InWrite, Rename
  <2>3. ASSUME NEW doc, pending[p] = doc
        PROVE  Store!Publish(doc)
    BY <1>1, <2>1, <2>3 DEF Store!Publish
  <2>4. CASE cmd[p] = "init" /\ pending[p] = NewLedger("valid")
    <3>1. HardValid(NewLedger("valid"))
      BY <1>3, <2>4 DEF Safe, WritesAreValid, InWrite, Rename
    <3>2. Store!CreateLedger
      BY <2>3, <2>4, <3>1 DEF Store!CreateLedger, Store!HardValid,
         Store!NewLedger, HardValid, NewLedger, Sections, Store!Sections,
         SoftSections, Store!SoftSections
    <3> QED
      BY <3>2 DEF Store!StoreNext
  <2>5. ASSUME NEW doc \in Published, cmd[p] = "update",
               UpdateOutcome(doc, arg[p], p) = "ok",
               pending[p] = ApplyChanges(doc, arg[p], p)
        PROVE  Store!StoreNext
    <3>1. Store!UpdateLedger(doc, arg[p], p)
      BY <2>3, <2>5, StoreSharesShape DEF Store!UpdateLedger
    <3>2. arg[p] \in Changes
      BY <2>5 DEF Safe, TypeOK
    <3> QED
      BY <2>2, <2>5, <3>1, <3>2 DEF Store!StoreNext
  <2>6. CASE /\ legacy \in Legacies /\ HardValid(legacy)
             /\ pending[p] = Migrated(legacy, p)
    <3>1. Store!MigrateLedger(p)
      BY <2>3, <2>6, StoreSharesShape DEF Store!MigrateLedger
    <3> QED
      BY <2>2, <3>1 DEF Store!StoreNext
  <2> QED
    BY <2>2, <2>4, <2>5, <2>6 DEF Explained
<1> QED
  BY <1>2, <1>3, StepShape

(* The processes implement the store: whatever interleaves, the published  *)
(* ledger is always the whole effect of one valid command on a document    *)
(* that was published before it, on a fresh one or on the legacy one.      *)
THEOREM LedgerImplementsStore == Spec => StoreRefined
<1>1. Init => WritesAreExplained
  BY DEF Init, WritesAreExplained, InWrite
<1>2. Init => Store!StoreInit
  BY DEF Init, Store!StoreInit, Published
<1> QED
  BY <1>1, <1>2, ExplainedNext, StepRefines, AlwaysSafe, PTL
  DEF Spec, StoreRefined, Store!StoreSpec
-----------------------------------------------------------------------------
(* What the store promises by itself: every document that was published is *)
(* valid and has no malformed entry of its own, and the current one is     *)
(* among them.                                                             *)
StorePromise ==
  /\ file \in Published \union {None}
  /\ \A doc \in Published : HardValid(doc) /\ MalformedOnlyAsIn(legacy, doc)

(* The store is stated over the same set of documents.                     *)
LEMMA StoreSharesDocuments == Store!Document = Document
BY DEF Store!Document, Document, Store!Headers, Headers, Store!Sections, Sections,
   Store!SoftSections, SoftSections, Store!SectionValue, SectionValue,
   Store!Entry, Entry

(* Publishing a document that is valid and clean keeps the promise.        *)
LEMMA PublishKeepsPromise ==
  ASSUME Store!StoreTypeOK, StorePromise, NEW doc \in Document, HardValid(doc),
         MalformedOnlyAsIn(legacy, doc), Store!Publish(doc)
  PROVE  Store!StoreTypeOK' /\ StorePromise'
<1>1. file' = doc /\ Published' = Published \union {doc} /\ legacy' = legacy
  BY DEF Store!Publish
<1>2. StorePromise'
  BY <1>1 DEF StorePromise, MalformedOnlyAsIn
<1> QED
  BY <1>1, <1>2, StoreSharesDocuments DEF Store!StoreTypeOK

(* The promises of the abstract store hold in every behavior of it, hence  *)
(* of whatever implements it: they need no process, file or history.       *)
THEOREM StoreKeepsItsPromise ==
  Store!StoreSpec => [](Store!StoreTypeOK /\ StorePromise)
<1>1. Store!StoreInit => Store!StoreTypeOK /\ StorePromise
  BY DEF Store!StoreInit, Store!StoreTypeOK, StorePromise
<1>2. Store!StoreTypeOK /\ StorePromise /\ [Store!StoreNext]_Store!storeVars
        => Store!StoreTypeOK' /\ StorePromise'
  <2> SUFFICES ASSUME Store!StoreTypeOK, StorePromise,
                      [Store!StoreNext]_Store!storeVars
               PROVE  Store!StoreTypeOK' /\ StorePromise'
    OBVIOUS
  <2>1. CASE Store!CreateLedger
    <3>1. Store!NewLedger("valid") = NewLedger("valid")
      BY DEF Store!NewLedger, NewLedger, Store!Sections, Sections,
         Store!SoftSections, SoftSections
    <3>2. HardValid(NewLedger("valid")) /\ Store!Publish(NewLedger("valid"))
      BY <2>1, <3>1, StoreSharesShape DEF Store!CreateLedger
    <3>3. NewLedger("valid") \in Document
      BY NewLedgerType DEF Headers
    <3> QED
      BY <3>2, <3>3, NewLedgerClean, PublishKeepsPromise
  <2>2. ASSUME NEW doc \in Published, NEW change \in Changes, NEW id \in EventIds,
               Store!UpdateLedger(doc, change, id)
        PROVE  Store!StoreTypeOK' /\ StorePromise'
    <3>1. /\ UpdateOutcome(doc, change, id) = "ok"
          /\ Store!Publish(ApplyChanges(doc, change, id))
      BY <2>2, StoreSharesShape DEF Store!UpdateLedger
    <3>2. doc \in Document /\ change \in Change
      BY StoreSharesDocuments, InputsAreTyped DEF Store!StoreTypeOK
    <3>3. MalformedOnlyAsIn(legacy, doc)
      BY DEF StorePromise
    <3>4. /\ ApplyChanges(doc, change, id) \in Document
          /\ HardValid(ApplyChanges(doc, change, id))
      BY <3>1, <3>2, AcceptedUpdate
    <3>5. MalformedOnlyAsIn(legacy, ApplyChanges(doc, change, id))
      BY <3>1, <3>2, <3>3, UpdateKeepsOrigin
    <3> QED
      BY <3>1, <3>4, <3>5, PublishKeepsPromise
  <2>3. ASSUME NEW id \in EventIds, Store!MigrateLedger(id)
        PROVE  Store!StoreTypeOK' /\ StorePromise'
    <3>1. /\ legacy \in Legacies /\ HardValid(legacy)
          /\ Store!Publish(Migrated(legacy, id))
      BY <2>3, StoreSharesShape DEF Store!MigrateLedger
    <3>2. legacy \in Document
      BY <3>1, InputsAreTyped
    <3>3. /\ Migrated(legacy, id) \in Document /\ HardValid(Migrated(legacy, id))
          /\ Migrated(legacy, id).sections = legacy.sections
      BY <3>1, <3>2, MigratedType
    <3>4. MalformedOnlyAsIn(legacy, Migrated(legacy, id))
      BY <3>1, <3>3 DEF MalformedOnlyAsIn
    <3> QED
      BY <3>1, <3>3, <3>4, PublishKeepsPromise
  <2>4. CASE UNCHANGED Store!storeVars
    <3>1. file' = file /\ Published' = Published /\ legacy' = legacy
      BY <2>4 DEF Store!storeVars
    <3>2. StorePromise'
      BY <3>1 DEF StorePromise, MalformedOnlyAsIn
    <3> QED
      BY <3>1, <3>2 DEF Store!StoreTypeOK
  <2> QED
    BY <2>1, <2>2, <2>3, <2>4 DEF Store!StoreNext
<1> QED
  BY <1>1, <1>2, PTL DEF Store!StoreSpec
-----------------------------------------------------------------------------
(* The history as a chain: every commit by an update is the merge of its   *)
(* changes into the document at the position its process read, and a later *)
(* commit that read after another one keeps the event of that one.         *)
LatestIsFile ==
  IF history = << >> THEN file = None ELSE file = history[Len(history)].doc

UpdateOn(p, doc) ==
  /\ base[p] \in DOMAIN history
  /\ doc = ApplyChanges(history[base[p]].doc, arg[p], p)

CommitsAreLinked ==
  \A i \in DOMAIN history :
    /\ history[i].doc \in Document /\ HardValid(history[i].doc)
    /\ pc[history[i].by] = "done"
    /\ cmd[history[i].by] = "update" =>
         base[history[i].by] < i /\ UpdateOn(history[i].by, history[i].doc)

WritesAreLinked ==
  \A p \in Procs : InWrite(p) /\ cmd[p] = "update" => UpdateOn(p, pending[p])

Appends(i) == cmd[history[i].by] = "update" /\ arg[history[i].by].events = "append"
Keeps(i, k) == cmd[history[k].by] = "update" /\ base[history[k].by] >= i

EventsKept ==
  \A i, j \in DOMAIN history :
    i <= j /\ Appends(i) /\ (\A k \in (i + 1)..j : Keeps(i, k))
      => HasEvent(history[j].doc, history[i].by)

Lineage == LatestIsFile /\ CommitsAreLinked /\ WritesAreLinked /\ EventsKept

(* A merge keeps every event of a document it was applied to, and adds its *)
(* own when the changes file appends one.                                  *)
LEMMA MergeKeepsEvents ==
  ASSUME NEW doc \in Document, HardValid(doc), NEW change \in Change,
         NEW id \in EventIds, HardValid(ApplyChanges(doc, change, id))
  PROVE  /\ \A e : HasEvent(doc, e) => HasEvent(ApplyChanges(doc, change, id), e)
         /\ change.events = "append" =>
              HasEvent(ApplyChanges(doc, change, id), id)
<1> DEFINE merged == ApplyChanges(doc, change, id)
<1>1. doc.events \in Seq(EventIds)
  BY DEF Document, HardValid
<1>2. merged.events = MergeEvents(doc.events, change.events, id)
  BY DEF ApplyChanges
<1>3. change.events \in {"append", "keep"}
  BY <1>2 DEF Change, HardValid, MergeEvents
<1>4. CASE change.events = "keep"
  BY <1>2, <1>4 DEF MergeEvents, HasEvent
<1>5. CASE change.events = "append"
  <2>1. merged.events = Append(doc.events, id)
    BY <1>2, <1>5 DEF MergeEvents
  <2>2. /\ DOMAIN doc.events = 1..Len(doc.events)
        /\ DOMAIN merged.events = 1..(Len(doc.events) + 1)
        /\ \A i \in 1..Len(doc.events) : merged.events[i] = doc.events[i]
        /\ merged.events[Len(doc.events) + 1] = id
        /\ Len(doc.events) \in Nat
    BY <1>1, <2>1
  <2>3. (\A e : HasEvent(doc, e) => HasEvent(merged, e)) /\ HasEvent(merged, id)
    <3> HIDE DEF merged
    <3> QED
      BY <2>2 DEF HasEvent
  <2> QED
    BY <2>3
<1> QED
  BY <1>3, <1>4, <1>5

(* A command that has ended stays as it ended. *)
LEMMA DoneStays ==
  ASSUME Safe, [Next]_vars, NEW q \in Procs, pc[q] = "done"
  PROVE  pc'[q] = "done" /\ cmd'[q] = cmd[q] /\ arg'[q] = arg[q] /\ base'[q] = base[q]
<1>1. CASE UNCHANGED vars
  BY <1>1 DEF vars
<1>2. CASE \E p \in Procs : Invoke(p)
  BY <1>2 DEF Safe, TypeOK, Invoke, Start
<1>3. CASE \E p \in Procs :
             OpenTemp(p) \/ WriteTemp(p) \/ Rename(p) \/ WriteFails(p) \/ Kill(p)
  BY <1>3 DEF Safe, TypeOK, OpenTemp, WriteTemp, Rename, WriteFails, Kill, local
<1>4. ASSUME NEW p \in Procs,
             BuildInit(p) \/ ReadAndMerge(p) \/ ReadOnly(p) \/ CheckAndCopy(p)
      PROVE  /\ pc'[q] = "done" /\ cmd'[q] = cmd[q] /\ arg'[q] = arg[q]
             /\ base'[q] = base[q]
  <2>1. pc[p] = "started" /\ OnlyReads(p)
    BY <1>4, ReadIsOwn DEF BuildInit, ReadAndMerge, ReadOnly, CheckAndCopy
  <2>2. (\E how : Finish(p, how)) \/ (\E doc : Prepare(p, doc))
    BY <1>4, Zenon DEF BuildInit, ReadAndMerge, ReadOnly, CheckAndCopy
  <2> QED
    BY <2>1, <2>2 DEF Safe, TypeOK, Finish, Prepare, OnlyReads
<1> QED
  BY <1>1, <1>2, <1>3, <1>4 DEF Next, Step

(* A position in the history, and what was read there, stays as it was. *)
LEMMA LinksStay ==
  ASSUME Safe, [Next]_vars, NEW q \in Procs, NEW doc, UpdateOn(q, doc),
         arg'[q] = arg[q], base'[q] = base[q]
  PROVE  /\ base'[q] = base[q] /\ base[q] \in DOMAIN history'
         /\ doc = ApplyChanges(history'[base[q]].doc, arg[q], q)
<1>1. CASE UNCHANGED <<file, history>>
  BY <1>1 DEF UpdateOn
<1>2. CASE \E p \in Procs : Rename(p)
  BY <1>2, RenameAppends DEF UpdateOn
<1> QED
  BY <1>1, <1>2, StepShape

(* The target is always the last commit. *)
LEMMA LatestNext ==
  ASSUME Safe, [Next]_vars, LatestIsFile
  PROVE  LatestIsFile'
<1>1. CASE UNCHANGED <<file, history>>
  BY <1>1 DEF LatestIsFile
<1>2. CASE \E p \in Procs : Rename(p)
  BY <1>2, RenameAppends DEF LatestIsFile
<1> QED
  BY <1>1, <1>2, StepShape

(* An update that enters the write was merged into the last commit. *)
LEMMA WritesLinkedNext ==
  ASSUME Safe, [Next]_vars, LatestIsFile, WritesAreLinked
  PROVE  WritesAreLinked'
<1> SUFFICES ASSUME NEW q \in Procs, InWrite(q)', cmd'[q] = "update"
             PROVE  UpdateOn(q, pending[q])'
  BY DEF WritesAreLinked
<1>1. Carried(q)
  BY StepShape DEF WritersCarried
<1>2. CASE InWrite(q) /\ pending'[q] = pending[q] /\ base'[q] = base[q]
  <2>1. UpdateOn(q, pending[q]) /\ arg'[q] = arg[q]
    BY <1>1, <1>2 DEF Carried, WritesAreLinked
  <2> QED
    BY <1>2, <2>1, LinksStay DEF UpdateOn
<1>3. CASE Built(q)
  <2>1. /\ file \in Document /\ base'[q] = Len(history)
        /\ pending'[q] = ApplyChanges(file, arg[q], q) /\ arg'[q] = arg[q]
    BY <1>1, <1>3 DEF Carried, Built
  <2>2. history \in Seq(Commit) /\ history # << >> /\ file = history[Len(history)].doc
    BY <2>1, DocumentsAreNotMarkers DEF LatestIsFile, Safe, TypeOK
  <2>3. Len(history) \in DOMAIN history
    BY <2>2
  <2>4. CASE UNCHANGED <<file, history>>
    BY <2>1, <2>2, <2>3, <2>4 DEF UpdateOn
  <2>5. CASE \E p \in Procs : Rename(p)
    BY <2>1, <2>2, <2>3, <2>5, RenameAppends DEF UpdateOn
  <2> QED
    BY <2>4, <2>5, StepShape
<1> QED
  BY <1>1, <1>2, <1>3 DEF Carried

(* A rename adds a link: an update's document is the merge into an earlier *)
(* commit; the links before it stay.                                       *)
LEMMA CommitsLinkedNext ==
  ASSUME Safe, [Next]_vars, CommitsAreLinked, WritesAreLinked
  PROVE  CommitsAreLinked'
<1> DEFINE Linked(i) ==
             /\ history[i].doc \in Document /\ HardValid(history[i].doc)
             /\ pc[history[i].by] = "done"
             /\ cmd[history[i].by] = "update" =>
                  base[history[i].by] < i /\ UpdateOn(history[i].by, history[i].doc)
<1>1. ASSUME NEW i \in DOMAIN history, history'[i] = history[i]
      PROVE  Linked(i)'
  <2>0. PICK q, doc : q = history[i].by /\ doc = history[i].doc
    OBVIOUS
  <2>1. Linked(i) /\ q \in Procs
    <3>1. history[i] \in Commit
      BY DEF Safe, TypeOK
    <3>2. Linked(i)
      BY DEF CommitsAreLinked
    <3>3. history[i].by \in Procs
      BY <3>1 DEF Commit
    <3> HIDE DEF Linked
    <3> QED
      BY <2>0, <3>2, <3>3
  <2>2. pc'[q] = "done" /\ cmd'[q] = cmd[q] /\ arg'[q] = arg[q] /\ base'[q] = base[q]
    BY <2>0, <2>1, DoneStays
  <2>3. cmd[q] = "update" =>
          /\ base[q] < i /\ base[q] \in DOMAIN history'
          /\ doc = ApplyChanges(history'[base[q]].doc, arg[q], q)
    BY <2>0, <2>1, <2>2, LinksStay
  <2> QED
    BY <1>1, <2>0, <2>1, <2>2, <2>3 DEF UpdateOn
<1>2. CASE UNCHANGED <<file, history>>
  BY <1>1, <1>2 DEF CommitsAreLinked
<1>3. ASSUME NEW p \in Procs, Rename(p)
      PROVE  CommitsAreLinked'
  <2>0. PICK n, doc : n = Len(history) /\ doc = pending[p]
    OBVIOUS
  <2>1. /\ n \in Nat /\ DOMAIN history = 1..n /\ DOMAIN history' = 1..(n + 1)
        /\ \A i \in 1..n : history'[i] = history[i]
        /\ history'[n + 1].by = p /\ history'[n + 1].doc = doc
    BY <1>3, <2>0, RenameAppends
  <2>2. pc'[p] = "done" /\ UNCHANGED <<cmd, arg, base>>
    BY <1>3 DEF Rename, local, Safe, TypeOK
  <2>3. doc \in Document /\ HardValid(doc) /\ InWrite(p)
    BY <1>3, <2>0 DEF Rename, Safe, WritesAreValid, InWrite
  <2>4. cmd[p] = "update" => UpdateOn(p, doc) /\ base[p] < n + 1
    BY <2>0, <2>1, <2>3 DEF WritesAreLinked, UpdateOn
  <2>5. cmd[p] = "update" =>
          /\ base[p] \in DOMAIN history'
          /\ doc = ApplyChanges(history'[base[p]].doc, arg[p], p)
    BY <2>2, <2>4, LinksStay
  <2>6. Linked(n + 1)'
    BY <2>1, <2>2, <2>3, <2>4, <2>5 DEF UpdateOn
  <2>7. ASSUME NEW i \in 1..n
        PROVE  Linked(i)'
    BY <1>1, <2>1
  <2>8. \A i \in 1..(n + 1) : i = n + 1 \/ i \in 1..n
    BY <2>1
  <2> QED
    BY <2>1, <2>6, <2>7, <2>8 DEF CommitsAreLinked
<1> QED
  BY <1>2, <1>3, StepShape

(* The commit of a rename keeps every event that was at its base, so the   *)
(* events kept up to there are kept up to the new commit.                  *)
LEMMA EventsKeptNext ==
  ASSUME Safe, Safe', [Next]_vars, Lineage, CommitsAreLinked'
  PROVE  EventsKept'
<1>1. ASSUME NEW i \in DOMAIN history, history'[i] = history[i]
      PROVE  /\ pc[history[i].by] = "done" /\ history[i].by \in Procs
             /\ cmd'[history[i].by] = cmd[history[i].by]
             /\ arg'[history[i].by] = arg[history[i].by]
             /\ base'[history[i].by] = base[history[i].by]
  <2>1. pc[history[i].by] = "done" /\ history[i] \in Commit
    BY DEF Lineage, CommitsAreLinked, Safe, TypeOK
  <2> QED
    BY <2>1, DoneStays DEF Commit
<1>2. CASE UNCHANGED <<file, history>>
  <2>1. DOMAIN history = 1..Len(history) /\ Len(history) \in Nat
    BY DEF Safe, TypeOK
  <2>2. ASSUME NEW i \in DOMAIN history, NEW j \in DOMAIN history, i <= j,
               Appends(i)', \A k \in (i + 1)..j : Keeps(i, k)'
        PROVE  HasEvent(history[j].doc, history[i].by)
    <3>1. Appends(i)
      BY <1>1, <1>2, <2>2 DEF Appends
    <3>2. \A k \in (i + 1)..j : k \in DOMAIN history
      BY <2>1
    <3>3. \A k \in (i + 1)..j : Keeps(i, k)
      BY <1>1, <1>2, <2>2, <3>2 DEF Keeps
    <3> QED
      BY <2>2, <3>1, <3>3 DEF Lineage, EventsKept
  <2> QED
    BY <1>2, <2>2 DEF EventsKept
<1>3. ASSUME NEW p \in Procs, Rename(p)
      PROVE  EventsKept'
  <2> DEFINE Unbroken(i, j) == \A k \in (i + 1)..j : Keeps(i, k)
  <2>1. PICK n :
        /\ n = Len(history)
        /\ n \in Nat /\ DOMAIN history = 1..n /\ DOMAIN history' = 1..(n + 1)
        /\ \A i \in 1..n : history'[i] = history[i]
        /\ history'[n + 1].by = p /\ history'[n + 1].doc = pending[p]
    BY <1>3, RenameAppends
  <2>2. UNCHANGED <<cmd, arg, base>> /\ InWrite(p)
    BY <1>3 DEF Rename, local, InWrite
  <2>3. ASSUME NEW i \in 1..(n + 1), NEW j \in i..(n + 1),
               Appends(i)', Unbroken(i, j)'
        PROVE  HasEvent(history'[j].doc, history'[i].by)
    <3>1. CASE j \in 1..n
      <4>1. i \in 1..n /\ i <= j
        BY <2>1, <3>1
      <4>2. Appends(i)
        BY <2>1, <2>2, <2>3, <4>1 DEF Appends
      <4>3. \A k \in (i + 1)..j : k \in 1..n
        BY <2>1, <3>1
      <4>4. Unbroken(i, j)
        BY <2>1, <2>2, <2>3, <4>3 DEF Keeps
      <4> QED
        BY <2>1, <3>1, <4>1, <4>2, <4>4 DEF Lineage, EventsKept
    <3>2. CASE j = n + 1 /\ cmd[p] = "update"
      <4> DEFINE b == base[p]
                 doc == history[b].doc
      <4>1. b \in 1..n /\ pending[p] = ApplyChanges(doc, arg[p], p)
        BY <2>1, <2>2, <3>2 DEF Lineage, WritesAreLinked, UpdateOn
      <4>2. doc \in Document /\ HardValid(doc)
        BY <2>1, <4>1 DEF Lineage, CommitsAreLinked
      <4>3. arg[p] \in Change /\ p \in EventIds
        BY InputsAreTyped DEF Safe, TypeOK
      <4>4. HardValid(pending[p])
        BY <2>2 DEF Safe, WritesAreValid
      <4>5. /\ \A e : HasEvent(doc, e) => HasEvent(pending[p], e)
            /\ arg[p].events = "append" => HasEvent(pending[p], p)
        BY <4>1, <4>2, <4>3, <4>4, MergeKeepsEvents
      <4>6. CASE i = n + 1
        BY <2>1, <2>2, <2>3, <3>2, <4>5, <4>6 DEF Appends
      <4>7. CASE i \in 1..n
        <5>1. Keeps(i, n + 1)'
          BY <2>1, <2>3, <3>2, <4>7
        <5>2. i <= b
          BY <2>1, <2>2, <5>1 DEF Keeps
        <5>3. Appends(i)
          BY <2>1, <2>2, <2>3, <4>7 DEF Appends
        <5>4. \A k \in (i + 1)..b : k \in 1..n /\ k \in (i + 1)..j
          BY <2>1, <3>2, <4>1, <4>7
        <5>5. Unbroken(i, b)
          BY <2>1, <2>2, <2>3, <5>4 DEF Keeps
        <5>6. HasEvent(doc, history[i].by)
          BY <2>1, <4>1, <4>7, <5>2, <5>3, <5>5 DEF Lineage, EventsKept
        <5> QED
          BY <2>1, <3>2, <4>5, <4>7, <5>6
      <4> QED
        BY <2>1, <4>6, <4>7
    <3>3. CASE j = n + 1 /\ cmd[p] # "update"
      <4>1. i # n + 1
        BY <2>1, <2>2, <2>3, <3>3 DEF Appends
      <4>2. Keeps(i, n + 1)'
        BY <2>1, <2>3, <3>3, <4>1
      <4> QED
        BY <2>1, <2>2, <3>3, <4>2 DEF Keeps
    <3> QED
      BY <2>1, <3>1, <3>2, <3>3
  <2>4. \A i, j \in 1..(n + 1) : i <= j => j \in i..(n + 1)
    BY <2>1
  <2> QED
    BY <2>1, <2>3, <2>4 DEF EventsKept
<1> QED
  BY <1>2, <1>3, StepShape

-----------------------------------------------------------------------------
(* An accepted update keeps, in every section, the entries its changes     *)
(* file does not name.                                                     *)
LEMMA MergeKeepsUnnamed ==
  ASSUME NEW doc \in Document, NEW change \in Change, NEW id \in EventIds,
         UpdateOutcome(doc, change, id) = "ok",
         NEW s \in Sections, NEW k \in Keys,
         change.sections[s] = None \/ change.sections[s][k] = None
  PROVE  ApplyChanges(doc, change, id).sections[s][k] = doc.sections[s][k]
<1> DEFINE merged == ApplyChanges(doc, change, id)
<1>1. HardValid(doc) /\ HardValid(merged)
  BY AcceptedUpdate
<1>2. merged.sections[s] = MergeSection(doc.sections[s], change.sections[s])
  BY DEF ApplyChanges
<1>3. doc.sections[s] # Wrong /\ merged.sections[s] # Wrong
  BY <1>1 DEF HardValid
<1>4. CASE change.sections[s] = None
  BY <1>2, <1>4 DEF MergeSection
<1>5. CASE change.sections[s] # None
  <2>1. change.sections[s] # Wrong
    BY <1>2, <1>3, <1>5 DEF MergeSection
  <2>2. merged.sections[s] = [x \in Keys |-> IF change.sections[s][x] = None
                                THEN doc.sections[s][x] ELSE change.sections[s][x]]
    BY <1>2, <1>3, <1>5, <2>1 DEF MergeSection
  <2> HIDE DEF merged
  <2>3. merged.sections[s][k] = doc.sections[s][k]
    BY <1>5, <2>2
  <2> QED
    BY <2>3 DEF merged
<1> QED
  BY <1>4, <1>5

(* An update that no commit overtook since its read keeps every entry of   *)
(* the target that its changes file does not name.                         *)
UndisturbedUpdateMerges(p) ==
  Rename(p) /\ cmd[p] = "update" /\ base[p] = Len(history) =>
    \A s \in Sections, k \in Keys :
      arg[p].sections[s] = None \/ arg[p].sections[s][k] = None =>
        file'.sections[s][k] = file.sections[s][k]

(* Every update writes an accepted merge. *)
UpdatesAccepted ==
  \A p \in Procs : InWrite(p) /\ cmd[p] = "update" =>
    UpdateOutcome(history[base[p]].doc, arg[p], p) = "ok"

(* An accepted merge is what a process carries up to its rename. *)
LEMMA UpdatesAcceptedNext ==
  ASSUME Safe, [Next]_vars, LatestIsFile, WritesAreLinked, UpdatesAccepted
  PROVE  UpdatesAccepted'
<1> SUFFICES ASSUME NEW q \in Procs, InWrite(q)', cmd'[q] = "update"
             PROVE  UpdateOutcome(history'[base'[q]].doc, arg'[q], q) = "ok"
  BY DEF UpdatesAccepted
<1>1. Carried(q)
  BY StepShape DEF WritersCarried
<1>2. \A i \in DOMAIN history : history'[i] = history[i]
  <2>1. CASE \E p \in Procs : Rename(p)
    BY <2>1, RenameAppends
  <2> QED
    BY <2>1, StepShape
<1>3. CASE InWrite(q) /\ pending'[q] = pending[q] /\ base'[q] = base[q]
  BY <1>1, <1>2, <1>3 DEF Carried, WritesAreLinked, UpdateOn, UpdatesAccepted
<1>4. CASE Built(q)
  <2>1. /\ file \in Document /\ base'[q] = Len(history)
        /\ UpdateOutcome(file, arg[q], q) = "ok" /\ arg'[q] = arg[q]
    BY <1>1, <1>4 DEF Carried, Built
  <2>2. history \in Seq(Commit) /\ history # << >> /\ file = history[Len(history)].doc
    BY <2>1, DocumentsAreNotMarkers DEF LatestIsFile, Safe, TypeOK
  <2>3. Len(history) \in DOMAIN history
    BY <2>2
  <2> QED
    BY <1>2, <2>1, <2>2, <2>3
<1> QED
  BY <1>1, <1>3, <1>4 DEF Carried

(* The lineage holds in every reachable state. *)
LEMMA AlwaysLinked == Spec => [](Lineage /\ UpdatesAccepted)
<1>1. Init => Lineage /\ UpdatesAccepted
  BY DEF Init, Lineage, LatestIsFile, CommitsAreLinked, WritesAreLinked, InWrite,
     EventsKept, UpdatesAccepted
<1>2. Safe /\ Safe' /\ Lineage /\ UpdatesAccepted /\ [Next]_vars
        => Lineage' /\ UpdatesAccepted'
  <2> SUFFICES ASSUME Safe, Safe', Lineage, UpdatesAccepted, [Next]_vars
               PROVE  Lineage' /\ UpdatesAccepted'
    OBVIOUS
  <2>1. CommitsAreLinked'
    BY CommitsLinkedNext DEF Lineage
  <2> QED
    BY <2>1, LatestNext, WritesLinkedNext, EventsKeptNext, UpdatesAcceptedNext
    DEF Lineage
<1> QED
  BY <1>1, <1>2, AlwaysSafe, PTL DEF Spec

(* The event of a committed update stays in the published ledger until a   *)
(* later init or migrate, or a later update that read before that commit.  *)
THEOREM CommittedEventsStay == Spec => []OnlyOverlapLosesEvents
<1>1. Safe /\ Lineage => OnlyOverlapLosesEvents
  <2> SUFFICES ASSUME Safe, Lineage, NEW i \in DOMAIN history, Appends(i),
                      \A k \in (i + 1)..Len(history) : Keeps(i, k)
               PROVE  file # None /\ HasEvent(file, history[i].by)
    BY DEF OnlyOverlapLosesEvents, Appends, Keeps
  <2> DEFINE n == Len(history)
  <2>1. history \in Seq(Commit)
    BY DEF Safe, TypeOK
  <2>2. history # << >> /\ n \in DOMAIN history /\ i <= n
    BY <2>1
  <2>3. file = history[n].doc /\ file \in Document
    BY <2>2 DEF Lineage, LatestIsFile, CommitsAreLinked
  <2>4. HasEvent(history[n].doc, history[i].by)
    BY <2>2 DEF Lineage, EventsKept
  <2> QED
    BY <2>3, <2>4, DocumentsAreNotMarkers
<1> QED
  BY <1>1, AlwaysSafe, AlwaysLinked, PTL

(* An update that nothing overtook between its read and its rename touches *)
(* only the keys it names, also when other commands run at the same time.  *)
LEMMA UndisturbedStep ==
  ASSUME Safe, Lineage, UpdatesAccepted, NEW p \in Procs
  PROVE  UndisturbedUpdateMerges(p)
<1> SUFFICES ASSUME Rename(p), cmd[p] = "update", base[p] = Len(history),
                    NEW s \in Sections, NEW k \in Keys,
                    arg[p].sections[s] = None \/ arg[p].sections[s][k] = None
             PROVE  file'.sections[s][k] = file.sections[s][k]
  BY DEF UndisturbedUpdateMerges
<1> DEFINE n == Len(history)
<1>1. InWrite(p) /\ file' = pending[p]
  BY RenameAppends DEF Rename, InWrite
<1>2. n \in DOMAIN history /\ pending[p] = ApplyChanges(history[n].doc, arg[p], p)
  BY <1>1 DEF Lineage, WritesAreLinked, UpdateOn
<1>3. UpdateOutcome(history[n].doc, arg[p], p) = "ok"
  BY <1>1 DEF UpdatesAccepted
<1>4. history[n].doc \in Document /\ history # << >>
  BY <1>2 DEF Lineage, CommitsAreLinked
<1>5. file = history[n].doc
  BY <1>4 DEF Lineage, LatestIsFile
<1>6. arg[p] \in Change /\ p \in EventIds
  BY InputsAreTyped DEF Safe, TypeOK
<1> QED
  BY <1>1, <1>2, <1>3, <1>4, <1>5, <1>6, MergeKeepsUnnamed

(* An update that no other commit overtook changes only the keys it names. *)
THEOREM UndisturbedUpdates == Spec => [][\A p \in Procs : UndisturbedUpdateMerges(p)]_vars
<1>1. Safe /\ Lineage /\ UpdatesAccepted /\ [Next]_vars
        => [\A p \in Procs : UndisturbedUpdateMerges(p)]_vars
  BY UndisturbedStep
<1> QED
  BY <1>1, AlwaysSafe, AlwaysLinked, PTL DEF Spec

(* With one command at a time, nothing is committed between the read of an *)
(* update and its rename.                                                  *)
Alone ==
  /\ \A p, q \in Procs : Running(p) /\ Running(q) => p = q
  /\ \A p \in Procs : InWrite(p) /\ cmd[p] = "update" => base[p] = Len(history)

(* A caller that waits for each command keeps every command alone. *)
LEMMA AloneNext ==
  ASSUME Exclusive, Safe, Alone, [Next]_vars
  PROVE  Alone'
<1>1. \A p, q \in Procs : Running(p)' /\ Running(q)' => p = q
  <2>1. CASE UNCHANGED vars
    BY <2>1 DEF vars, Alone, Running
  <2>2. ASSUME NEW p \in Procs, Invoke(p)
        PROVE  /\ \A q \in Procs : ~Running(q)
               /\ \A q \in Procs \ {p} : pc'[q] = pc[q]
    BY <2>2 DEF Safe, TypeOK, Invoke, Start
  <2>3. ASSUME NEW p \in Procs, Step(p) \/ WriteFails(p) \/ Kill(p)
        PROVE  Running(p) /\ \A q \in Procs \ {p} : pc'[q] = pc[q]
    <3>1. CASE OpenTemp(p) \/ WriteTemp(p) \/ Rename(p) \/ WriteFails(p) \/ Kill(p)
      BY <3>1 DEF Safe, TypeOK, OpenTemp, WriteTemp, Rename, WriteFails, Kill,
         InWrite, Running
    <3>2. CASE BuildInit(p) \/ ReadAndMerge(p) \/ ReadOnly(p) \/ CheckAndCopy(p)
      <4>1. pc[p] = "started"
        BY <3>2 DEF BuildInit, ReadAndMerge, ReadOnly, CheckAndCopy
      <4>2. (\E how : Finish(p, how)) \/ (\E doc : Prepare(p, doc))
        BY <3>2, Zenon DEF BuildInit, ReadAndMerge, ReadOnly, CheckAndCopy
      <4> QED
        BY <4>1, <4>2 DEF Safe, TypeOK, Finish, Prepare, Running
    <3> QED
      BY <2>3, <3>1, <3>2 DEF Step
  <2> QED
    BY <2>1, <2>2, <2>3 DEF Next, Alone, Running
<1>2. ASSUME NEW q \in Procs, InWrite(q)', cmd'[q] = "update"
      PROVE  base'[q] = Len(history')
  <2>1. Carried(q)
    BY <1>2, StepShape DEF WritersCarried
  <2>2. CASE UNCHANGED <<file, history>>
    BY <1>2, <2>1, <2>2 DEF Carried, Built, Alone
  <2>3. ASSUME NEW p \in Procs, Rename(p)
        PROVE  FALSE
    <3>1. Running(p) /\ pc' = [pc EXCEPT ![p] = "done"]
      BY <2>3 DEF Rename, Running
    <3>2. pc'[q] \in {"opening", "writing", "renaming"}
      BY <1>2 DEF InWrite
    <3>3. q # p /\ Running(q)
      BY <3>1, <3>2 DEF Safe, TypeOK, Running
    <3> QED
      BY <3>1, <3>3 DEF Alone
  <2> QED
    BY <2>2, <2>3, StepShape
<1> QED
  BY <1>1, <1>2 DEF Alone

(* When the caller runs one command at a time, an update changes only the  *)
(* entries its changes file names.                                         *)
THEOREM UpdatesTouchOnlyTheirKeys ==
  ASSUME Exclusive
  PROVE  Spec => UpdateTouchesOnlyItsKeys
<1>1. Init => Alone
  BY DEF Init, Alone, Running, InWrite
<1>2. Safe /\ Alone /\ [Next]_vars => Alone'
  BY AloneNext
<1>3. Safe /\ Lineage /\ UpdatesAccepted /\ Alone /\ [Next]_vars =>
        [\A p \in Procs :
           Rename(p) /\ cmd[p] = "update" =>
             \A s \in Sections, k \in Keys :
               arg[p].sections[s] = None \/ arg[p].sections[s][k] = None =>
                 file'.sections[s][k] = file.sections[s][k]]_vars
  <2> SUFFICES ASSUME Safe, Lineage, UpdatesAccepted, Alone,
                      NEW p \in Procs, Rename(p), cmd[p] = "update"
               PROVE  \A s \in Sections, k \in Keys :
                        arg[p].sections[s] = None \/ arg[p].sections[s][k] = None =>
                          file'.sections[s][k] = file.sections[s][k]
    OBVIOUS
  <2>1. base[p] = Len(history)
    BY DEF Alone, Rename, InWrite
  <2> QED
    BY <2>1, UndisturbedStep DEF UndisturbedUpdateMerges
<1> QED
  BY <1>1, <1>2, <1>3, AlwaysSafe, AlwaysLinked, PTL
  DEF Spec, UpdateTouchesOnlyItsKeys
=============================================================================
