----------------------------- MODULE RunLedger -----------------------------
(***************************************************************************)
(* The ledger commands of run_ledger.py as processes on one ledger.json.   *)
(* Every process is one invocation of the command line: it reads, decides  *)
(* in memory, writes a sibling temporary file and renames it over the      *)
(* target.  Nothing locks the file, so the steps of several invocations    *)
(* interleave; an invocation can be killed between any two of them, and a  *)
(* write can fail.                                                         *)
(*                                                                         *)
(* history and base are history variables: the commits in order, and for   *)
(* each process how many commits preceded its read.                        *)
(***************************************************************************)
EXTENDS LedgerShape, Naturals, FiniteSets

CONSTANTS
  Procs,      \* invocations of the command line, each identifying its event
  Changes,    \* the changes files an update may be given
  Legacies,   \* the documents an older version may have left under .git
  Commands,   \* the commands that are used: init, update, load, migrate
  Exclusive,  \* TRUE when the caller runs one command at a time
  WritesFail  \* TRUE when mkstemp, write or os.replace may raise OSError

AllCommands == {"init", "update", "load", "migrate"}

ASSUME InputsAreTyped ==
  /\ Procs \subseteq EventIds
  /\ Changes \subseteq Change
  /\ Legacies \subseteq Document
  /\ Commands \subseteq AllCommands
  /\ None \notin AllCommands
  /\ {Exclusive, WritesFail} \subseteq BOOLEAN

VARIABLES
  file,     \* the target ledger.json
  legacy,   \* ledger.json of the same run under the .git directory
  tmp,      \* the temporary file of each process
  pc,       \* where each process is
  cmd,      \* the command of each process
  arg,      \* its input: the changes of update; init uses only the header
  pending,  \* the document it holds in memory and is about to write
  outcome,  \* how it ended
  history,  \* the commits so far: who wrote which document
  base      \* the number of commits before the read of each process

vars == <<file, legacy, tmp, pc, cmd, arg, pending, outcome, history, base>>
local == <<cmd, arg, base>>

Outcomes == {"ok", "skipped", "corrupt", "noop", "invalid_input",
             "internal_error", "killed"}
Commit   == [by : Procs, doc : Document]

TypeOK ==
  /\ file \in Document \union {None, Wrong}
  /\ legacy \in Legacies \union {None, Wrong}
  /\ tmp \in [Procs -> Document \union {None, Wrong}]
  /\ pc \in [Procs -> {"idle", "started", "opening", "writing", "renaming",
                       "done"}]
  /\ cmd \in [Procs -> Commands \union {None}]
  /\ arg \in [Procs -> Change]
  /\ \A p \in Procs : cmd[p] = "update" => arg[p] \in Changes
  /\ pending \in [Procs -> Document \union {None}]
  /\ outcome \in [Procs -> Outcomes \union {None}]
  /\ history \in Seq(Commit)
  /\ base \in [Procs -> Nat]

Init ==
  /\ file = None
  /\ legacy \in Legacies \union {None, Wrong}
  /\ tmp = [p \in Procs |-> None]
  /\ pc = [p \in Procs |-> "idle"]
  /\ cmd = [p \in Procs |-> None]
  /\ arg = [p \in Procs |-> NoChange]
  /\ pending = [p \in Procs |-> None]
  /\ outcome = [p \in Procs |-> None]
  /\ history = << >>
  /\ base = [p \in Procs |-> 0]
-----------------------------------------------------------------------------
InWrite(p) == pc[p] \in {"opening", "writing", "renaming"}
Running(p) == pc[p] \notin {"idle", "done"}

Start(p, command, input) ==
  /\ pc[p] = "idle"
  /\ Exclusive => \A q \in Procs : ~Running(q)
  /\ command \in Commands
  /\ pc' = [pc EXCEPT ![p] = "started"]
  /\ cmd' = [cmd EXCEPT ![p] = command]
  /\ arg' = [arg EXCEPT ![p] = input]
  /\ UNCHANGED <<file, legacy, tmp, pending, outcome, history, base>>

\* The command ends without having touched the file.
Finish(p, how) ==
  /\ pc' = [pc EXCEPT ![p] = "done"]
  /\ outcome' = [outcome EXCEPT ![p] = how]
  /\ UNCHANGED <<file, legacy, tmp, cmd, arg, pending, history>>

\* It holds a validated document and enters atomic_json_write.
Prepare(p, doc) ==
  /\ pc' = [pc EXCEPT ![p] = "opening"]
  /\ pending' = [pending EXCEPT ![p] = doc]
  /\ UNCHANGED <<file, legacy, tmp, cmd, arg, outcome, history>>

Read(p) == base' = [base EXCEPT ![p] = Len(history)]

\* Mutant: init writes without validating.
BuildInitUnchecked(p) ==
  /\ pc[p] = "started" /\ cmd[p] = "init"
  /\ UNCHANGED base
  /\ Prepare(p, NewLedger(arg[p].header))

\* new_ledger and the validation of write_ledger: no look at the target.
BuildInit(p) ==
  /\ pc[p] = "started" /\ cmd[p] = "init"
  /\ UNCHANGED base
  /\ IF HardValid(NewLedger(arg[p].header))
       THEN Prepare(p, NewLedger(arg[p].header))
       ELSE Finish(p, "invalid_input")

\* update_ledger: load, merge and validate, all in memory after one read.
ReadAndMerge(p) ==
  /\ pc[p] = "started" /\ cmd[p] = "update"
  /\ Read(p)
  /\ IF file \in {None, Wrong}
       THEN Finish(p, "invalid_input")
       ELSE LET verdict == UpdateOutcome(file, arg[p], p)
            IN  IF verdict = "ok"
                  THEN Prepare(p, ApplyChanges(file, arg[p], p))
                  ELSE Finish(p, verdict)

ReadOnly(p) ==
  /\ pc[p] = "started" /\ cmd[p] = "load"
  /\ Read(p)
  /\ IF file \in {None, Wrong}
       THEN Finish(p, "invalid_input")
       ELSE Finish(p, IF HardValid(file) THEN "ok" ELSE "invalid_input")

\* migrate_runs for this run: target.exists(), then the legacy document,
\* which no command ever writes.
CheckAndCopy(p) ==
  /\ pc[p] = "started" /\ cmd[p] = "migrate"
  /\ Read(p)
  /\ IF legacy = None
       THEN Finish(p, "noop")
       ELSE IF file # None
              THEN Finish(p, "skipped")
              ELSE IF legacy \in Legacies /\ HardValid(legacy)
                     THEN Prepare(p, Migrated(legacy, p))
                     ELSE Finish(p, "corrupt")
-----------------------------------------------------------------------------
\* Mutants: the target is opened and truncated in place; the temporary file
\* has a fixed name that is opened exclusively.
OpenInPlace(p) ==
  /\ pc[p] = "opening"
  /\ pc' = [pc EXCEPT ![p] = "writing"]
  /\ file' = Wrong
  /\ UNCHANGED <<legacy, tmp, pending, outcome, history, local>>
OpenExclusive(p) ==
  /\ pc[p] = "opening"
  /\ \A q \in Procs : tmp[q] = None
  /\ pc' = [pc EXCEPT ![p] = "writing"]
  /\ tmp' = [tmp EXCEPT ![p] = Wrong]
  /\ UNCHANGED <<file, legacy, pending, outcome, history, local>>

\* atomic_json_write: the temporary file appears, fills up, is renamed.
OpenTemp(p) ==
  /\ pc[p] = "opening"
  /\ pc' = [pc EXCEPT ![p] = "writing"]
  /\ tmp' = [tmp EXCEPT ![p] = Wrong]
  /\ UNCHANGED <<file, legacy, pending, outcome, history, local>>

WriteTemp(p) ==
  /\ pc[p] = "writing"
  /\ pc' = [pc EXCEPT ![p] = "renaming"]
  /\ tmp' = [tmp EXCEPT ![p] = pending[p]]
  /\ UNCHANGED <<file, legacy, pending, outcome, history, local>>

Rename(p) ==
  /\ pc[p] = "renaming"
  /\ file' = tmp[p]
  /\ tmp' = [tmp EXCEPT ![p] = None]
  /\ pc' = [pc EXCEPT ![p] = "done"]
  /\ outcome' = [outcome EXCEPT ![p] = "ok"]
  /\ history' = Append(history, [by |-> p, doc |-> pending[p]])
  /\ UNCHANGED <<legacy, pending, local>>

\* An exception inside atomic_json_write unlinks the temporary file; when
\* that raises OSError too, the file stays and the first exception goes on.
WriteFails(p) ==
  /\ WritesFail
  /\ InWrite(p)
  /\ pc' = [pc EXCEPT ![p] = "done"]
  /\ tmp' \in {tmp, [tmp EXCEPT ![p] = None]}
  /\ outcome' = [outcome EXCEPT ![p] = "internal_error"]
  /\ UNCHANGED <<file, legacy, pending, history, local>>

\* The process dies: nothing cleans up after it.
Kill(p) ==
  /\ Running(p)
  /\ pc' = [pc EXCEPT ![p] = "done"]
  /\ outcome' = [outcome EXCEPT ![p] = "killed"]
  /\ UNCHANGED <<file, legacy, tmp, pending, history, local>>

Step(p) ==
  \/ BuildInit(p)
  \/ ReadAndMerge(p)
  \/ ReadOnly(p)
  \/ CheckAndCopy(p)
  \/ OpenTemp(p)
  \/ WriteTemp(p)
  \/ Rename(p)

Invoke(p) ==
  \/ \E header \in Headers : Start(p, "init", [NoChange EXCEPT !.header = header])
  \/ \E change \in Changes : Start(p, "update", change)
  \/ Start(p, "load", NoChange)
  \/ Start(p, "migrate", NoChange)

Next == \E p \in Procs : Invoke(p) \/ Step(p) \/ WriteFails(p) \/ Kill(p)

Spec == Init /\ [][Next]_vars

\* The operating system keeps running a process that was not killed.
FairSpec == Spec /\ \A p \in Procs : WF_vars(Step(p))
-----------------------------------------------------------------------------

HasEvent(doc, id) == \E i \in DOMAIN doc.events : doc.events[i] = id

(* The target is absent or a complete document that _validate_ledger       *)
(* accepts, whatever interleaves, fails or is killed: atomic_json_write    *)
(* renames only whole, validated documents.                                *)
FileAlwaysValid == file = None \/ (file \in Document /\ HardValid(file))

(* What a process is about to write is a valid document, and the temporary *)
(* file it renames holds all of it: the inductive core of FileAlwaysValid. *)
WritesAreValid ==
  \A p \in Procs : InWrite(p) =>
    /\ pending[p] \in Document /\ HardValid(pending[p])
    /\ pc[p] = "renaming" => tmp[p] = pending[p]

MalformedOnlyAsIn(source, doc) ==
  \A s \in Sections, k \in Keys :
    doc.sections[s] # Wrong /\ doc.sections[s][k] = Wrong =>
      /\ source \in Legacies
      /\ source.sections[s] # Wrong
      /\ source.sections[s][k] = Wrong

(* What a process is about to write comes from one command: the inductive   *)
(* core of StoreRefined.                                                   *)
Published == {history[i].doc : i \in DOMAIN history}
Explained(p) ==
  \/ cmd[p] = "init" /\ pending[p] = NewLedger("valid")
  \/ /\ cmd[p] = "update"
     /\ \E doc \in Published :
          /\ UpdateOutcome(doc, arg[p], p) = "ok"
          /\ pending[p] = ApplyChanges(doc, arg[p], p)
  \/ /\ cmd[p] = "migrate"
     /\ legacy \in Legacies /\ HardValid(legacy)
     /\ pending[p] = Migrated(legacy, p)
WritesAreExplained ==
  /\ file # None => file \in Published
  /\ \A p \in Procs : InWrite(p) => Explained(p)

(* A malformed entry of tasks, agents, decisions or integration in the     *)
(* published ledger was already in the migrated document: the write gates  *)
(* of update_ledger let none in, even from a stale read.                   *)
MalformedOnlyFromLegacy ==
  file \in Document => MalformedOnlyAsIn(legacy, file)

(* The event of a committed update stays published until a later init or   *)
(* migrate, or a later update whose read came before that commit: updates  *)
(* that do not overlap never lose each other's events.                     *)
OnlyOverlapLosesEvents ==
  \A i \in DOMAIN history :
    LET p == history[i].by
        Keeps(j) == cmd[history[j].by] = "update" /\ base[history[j].by] >= i
    IN  /\ cmd[p] = "update" /\ arg[p].events = "append"
        /\ \A j \in (i + 1)..Len(history) : Keeps(j)
        => file # None /\ HasEvent(file, p)

(* An update changes only the entries its changes file names and keeps the *)
(* rest of every section as it was: sections are merged key by key.        *)
UpdateTouchesOnlyItsKeys ==
  [][\A p \in Procs :
       Rename(p) /\ cmd[p] = "update" =>
         \A s \in Sections, k \in Keys :
           arg[p].sections[s] = None \/ arg[p].sections[s][k] = None =>
             file'.sections[s][k] = file.sections[s][k]]_vars

(* A command that is not killed comes to an end: no step of it waits for   *)
(* another process.                                                        *)
CommandsEnd == \A p \in Procs : pc[p] = "started" ~> pc[p] = "done"

(* The file with its history implements the store: every rename publishes  *)
(* the whole effect of one valid command on a document published before.   *)
Store == INSTANCE LedgerStore WITH
           ledger <- file,
           published <- Published
StoreRefined == Store!StoreSpec
=============================================================================
