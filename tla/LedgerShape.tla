---------------------------- MODULE LedgerShape ----------------------------
(***************************************************************************)
(* The ledger document of run_ledger.py and the pure functions over it:    *)
(* what _validate_ledger accepts, how _apply_changes merges a changes      *)
(* file, and what update_ledger decides about the result.                  *)
(*                                                                         *)
(* A document keeps what those functions tell apart.  "header" stands for  *)
(* schema_version, run_id, repo_root, plan, baseline and models, all of    *)
(* them replaced as a whole by an update; a section is an object whose     *)
(* keys map to entries; an event is the identity of the command that       *)
(* appended it; of analysis_notes only the JSON kind is kept.              *)
(***************************************************************************)
EXTENDS Sequences

CONSTANTS
  Keys,      \* the keys used inside tasks, agents, decisions and integration
  Values,    \* well-formed entries: an object, or a string in integration
  EventIds,  \* identities of events
  None,      \* nothing there: no file, no such key, no change
  Wrong      \* a value of the wrong JSON kind, or text that is not JSON

Entry        == Values \union {None, Wrong}
SoftSections == {"tasks", "agents", "decisions"}
Sections     == SoftSections \union {"integration"}
SectionValue == [Keys -> Entry] \union {Wrong}

ASSUME MarkersAreDistinct ==
  /\ None # Wrong
  /\ {None, Wrong} \intersect Values = {}
  /\ {None, Wrong} \intersect [Keys -> Entry] = {}
  /\ {None, Wrong} \intersect Seq(EventIds) = {}

Headers == {"valid", "bad_baseline", "bad"}

Document ==
  [header   : Headers,
   sections : [Sections -> SectionValue],
   notes    : {"list", "null", "missing", "wrong"},
   events   : Seq(EventIds) \union {Wrong}]

\* A changes file; "keep" and None stand for a key the file does not carry.
Change ==
  [header   : Headers \union {"keep"},
   sections : [Sections -> SectionValue \union {None}],
   notes    : {"list", "null", "wrong", "keep"},
   events   : {"append", "wrong", "keep"}]

NoChange == [header   |-> "keep",
             sections |-> [s \in Sections |-> None],
             notes    |-> "keep",
             events   |-> "keep"]

ASSUME DocumentsAreNotMarkers == {None, Wrong} \intersect Document = {}
-----------------------------------------------------------------------------
NewLedger(header) ==
  [header   |-> header,
   sections |-> [s \in Sections |-> [k \in Keys |-> None]],
   notes    |-> "list",
   events   |-> << >>]

\* _validate_ledger: a null analysis_notes passes, malformed entries pass.
HardValid(doc) ==
  /\ doc.header = "valid"
  /\ \A s \in Sections : doc.sections[s] # Wrong
  /\ doc.notes \in {"list", "null"}
  /\ doc.events # Wrong

\* Mutant: nothing looks for malformed entries.
SoftViolationsNone(doc) == {}

SoftViolations(doc) ==
  {s \in SoftSections : \E k \in Keys : doc.sections[s][k] = Wrong}

\* _validate_integration_write looks at the changes, before any merge.
IntegrationWriteOk(change) ==
  LET written == change.sections["integration"]
  IN  written \in {None, Wrong} \/ \A k \in Keys : written[k] # Wrong

WrittenSections(change) == {s \in SoftSections : change.sections[s] # None}

\* Mutant: a section of the changes file replaces the whole section.
MergeSectionReplaces(old, new) == IF new = None THEN old ELSE new

MergeSection(old, new) ==
  IF new = None
    THEN old
    ELSE IF Wrong \in {old, new}
           THEN new
           ELSE [k \in Keys |-> IF new[k] = None THEN old[k] ELSE new[k]]

\* Mutant: the new events replace the stream.
MergeEventsReplaces(old, how, id) == IF how = "keep" THEN old ELSE <<id>>

MergeEvents(old, how, id) ==
  CASE how = "keep"   -> old
    [] how = "append" -> Append(old, id)
    [] OTHER          -> Wrong

\* _apply_changes on a document that passed HardValid.
ApplyChanges(doc, change, id) ==
  [header   |-> IF change.header = "keep" THEN doc.header ELSE change.header,
   sections |-> [s \in Sections |->
                   MergeSection(doc.sections[s], change.sections[s])],
   notes    |-> IF change.notes = "keep" THEN doc.notes ELSE change.notes,
   events   |-> MergeEvents(doc.events, change.events, id)]

\* setdefault(...) returns the stored null, which has no extend method.
ExtendsNull(doc, change) == change.notes = "list" /\ doc.notes = "null"

\* What update_ledger does with a loaded document: the outcome of the command.
UpdateOutcome(doc, change, id) ==
  LET merged == ApplyChanges(doc, change, id)
  IN  IF ~HardValid(doc) \/ ~IntegrationWriteOk(change)
        THEN "invalid_input"
        ELSE IF ExtendsNull(doc, change)
               THEN "internal_error"
               ELSE IF /\ HardValid(merged)
                       /\ SoftViolations(merged) \intersect
                            WrittenSections(change) = {}
                      THEN "ok"
                      ELSE "invalid_input"

\* migrate_runs appends its own event to the copied document.
Migrated(doc, id) == [doc EXCEPT !.events = Append(@, id)]
=============================================================================
