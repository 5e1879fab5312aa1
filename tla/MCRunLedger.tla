---------------------------- MODULE MCRunLedger ----------------------------
(***************************************************************************)
(* Small instances of RunLedger for TLC: the changes files and the legacy  *)
(* documents that exercise every outcome of update_ledger and migrate_runs.*)
(***************************************************************************)
EXTENDS RunLedger, TLC

CONSTANTS k1, k2, v, old

Writing(section, k, entry) ==
  [NoChange.sections EXCEPT ![section] = [x \in Keys |-> IF x = k THEN entry
                                                                 ELSE None]]

WriteTask(k)    == [NoChange EXCEPT !.sections = Writing("tasks", k, v),
                                   !.events = "append"]
MalformedTask   == [NoChange EXCEPT !.sections = Writing("tasks", k1, Wrong)]
WriteVerdict(e) == [NoChange EXCEPT !.sections = Writing("integration", k1, e),
                                   !.events = "append"]
TasksNotObject  == [NoChange EXCEPT !.sections["tasks"] = Wrong]
EventsNotList   == [NoChange EXCEPT !.events = "wrong"]
NullNotes       == [NoChange EXCEPT !.notes = "null"]
ListNotes       == [NoChange EXCEPT !.notes = "list", !.events = "append"]
OtherRunId      == [NoChange EXCEPT !.header = "bad"]

RejectedChanges == {MalformedTask, WriteVerdict(Wrong), TasksNotObject,
                    EventsNotList, OtherRunId}
AllChanges   == RejectedChanges \union
                {WriteTask(k1), WriteTask(k2), WriteVerdict(v), NullNotes,
                 ListNotes}
SequenceChanges == {WriteTask(k1), WriteTask(k2), WriteVerdict(v), MalformedTask,
                    NullNotes, ListNotes}
PlainChanges == RejectedChanges \union
                {WriteTask(k1), WriteTask(k2), WriteVerdict(v)}

LegacyWith(tasks, notes) ==
  [header   |-> "valid",
   sections |-> [s \in Sections |->
                   IF s = "tasks" THEN tasks ELSE [k \in Keys |-> None]],
   notes    |-> notes,
   events   |-> <<old>>]
CleanLegacy == LegacyWith([k \in Keys |-> IF k = k1 THEN v ELSE None], "list")
DirtyLegacy == LegacyWith([k \in Keys |-> IF k = k1 THEN Wrong ELSE None], "null")
EarlyLegacy == LegacyWith([k \in Keys |-> None], "missing")
AllLegacies == {CleanLegacy, DirtyLegacy, EarlyLegacy}

Symmetry == Permutations(Procs)
=============================================================================
