---------------------------- MODULE TaskReports ----------------------------
(***************************************************************************)
(* task_report.py: the coders of several tasks append phase reports to the *)
(* one phase-report.json of the run, and the main session reads the latest *)
(* report of a task once its coder has ended.  A write loads the array,    *)
(* appends in memory and replaces the file; nothing locks it.              *)
(*                                                                         *)
(* A task has one coder at a time (CompletionPipeline shows why); a coder  *)
(* that was lost, or whose work was sent back, is followed by another one. *)
(* round and number in an entry, base and history are history variables:   *)
(* the file itself holds no identity of a coder.                           *)
(***************************************************************************)
EXTENDS Integers, Sequences

CONSTANTS Tasks, None,
          Statuses,   \* the statuses that coders report
          MaxRounds,  \* coders of one task, one after the other
          MaxReports  \* reports of one coder

KnownStatuses == {"completed", "blocked", "in_progress"}

Entry == [task : Tasks, status : Statuses, round : Nat, number : Nat]
Write == [entry : Entry, base : Nat]

ASSUME ReportBounds ==
  /\ Statuses \subseteq KnownStatuses
  /\ {MaxRounds, MaxReports} \subseteq Nat
  /\ None \notin Seq(Entry)

VARIABLES
  entries,  \* phase-report.json, None before the first report
  coder,    \* where the coder of each task is
  held,     \* the array that a write has loaded and extended
  said,     \* reports the present coder has tried to write
  round,    \* coders the task has had
  seen,     \* the report the session read last, None when there was none
  history,  \* the writes that took place, in order
  base      \* the number of writes before the load of each coder

vars == <<entries, coder, held, said, round, seen, history, base>>

ReportsTypeOK ==
  /\ entries \in Seq(Entry) \union {None}
  /\ coder \in [Tasks -> {"none", "working", "writing", "ended", "answered"}]
  /\ held \in [Tasks -> Seq(Entry)]
  /\ said \in [Tasks -> Nat]
  /\ round \in [Tasks -> Nat]
  /\ seen \in [Tasks -> Entry \union {None}]
  /\ history \in Seq(Write)
  /\ base \in [Tasks -> Nat]

Init ==
  /\ entries = None
  /\ coder = [t \in Tasks |-> "none"]
  /\ held = [t \in Tasks |-> << >>]
  /\ said = [t \in Tasks |-> 0]
  /\ round = [t \in Tasks |-> 0]
  /\ seen = [t \in Tasks |-> None]
  /\ history = << >>
  /\ base = [t \in Tasks |-> 0]
-----------------------------------------------------------------------------
\* The session starts a coder: the first of the task, or one that follows a
\* coder whose report it has read.
Dispatch(t) ==
  /\ coder[t] \in {"none", "answered"}
  /\ round[t] < MaxRounds
  /\ coder' = [coder EXCEPT ![t] = "working"]
  /\ round' = [round EXCEPT ![t] = @ + 1]
  /\ said' = [said EXCEPT ![t] = 0]
  /\ UNCHANGED <<entries, held, seen, history, base>>

\* Mutant: the array starts anew with every coder.
LoadOwnRound == << >>

\* load_reports: a file that is not there counts as an empty array.
LoadReports == IF entries = None THEN << >> ELSE entries

\* write_entry up to the replacement: an entry that validate_entry rejects
\* leaves nothing behind, like a write that fails.
AppendEntry(t, status) ==
  /\ coder[t] = "working"
  /\ said[t] < MaxReports
  /\ held' = [held EXCEPT ![t] =
                Append(LoadReports, [task |-> t, status |-> status,
                                     round |-> round[t], number |-> said[t]])]
  /\ base' = [base EXCEPT ![t] = Len(history)]
  /\ coder' = [coder EXCEPT ![t] = "writing"]
  /\ said' = [said EXCEPT ![t] = @ + 1]
  /\ UNCHANGED <<entries, round, seen, history>>

\* What the process held goes with it.
Forget(t) ==
  /\ held' = [held EXCEPT ![t] = << >>]
  /\ base' = [base EXCEPT ![t] = 0]

\* atomic_json_write.
ReplaceFile(t) ==
  /\ coder[t] = "writing"
  /\ entries' = held[t]
  /\ coder' = [coder EXCEPT ![t] = "working"]
  /\ history' = Append(history, [entry |-> held[t][Len(held[t])],
                                 base |-> base[t]])
  /\ Forget(t)
  /\ UNCHANGED <<said, round, seen>>

WriteFails(t) ==
  /\ coder[t] = "writing"
  /\ coder' = [coder EXCEPT ![t] = "working"]
  /\ Forget(t)
  /\ UNCHANGED <<entries, said, round, seen, history>>

\* The coder ends, or is lost in the middle of a write.
CoderEnds(t) ==
  /\ coder[t] \in {"working", "writing"}
  /\ coder' = [coder EXCEPT ![t] = "ended"]
  /\ Forget(t)
  /\ UNCHANGED <<entries, said, round, seen, history>>

OfTask(t) == {k \in DOMAIN LoadReports : LoadReports[k].task = t}

\* Mutant: the first report of the task.
First(t) ==
  IF OfTask(t) = {} THEN {None}
  ELSE {LoadReports[k] : k \in {l \in OfTask(t) : \A m \in OfTask(t) : l <= m}}

\* read_latest, as the set of its one answer; that there is no report is an
\* answer too.
Latest(t) ==
  IF OfTask(t) = {} THEN {None}
  ELSE {LoadReports[k] : k \in {l \in OfTask(t) : \A m \in OfTask(t) : m <= l}}

\* The session reads after wait_agent has returned a terminal state.
ReadLatest(t) ==
  /\ coder[t] = "ended"
  /\ \E report \in Latest(t) : seen' = [seen EXCEPT ![t] = report]
  /\ coder' = [coder EXCEPT ![t] = "answered"]
  /\ UNCHANGED <<entries, held, said, round, history, base>>

Next ==
  \E t \in Tasks :
    \/ Dispatch(t)
    \/ \E status \in Statuses : AppendEntry(t, status)
    \/ ReplaceFile(t)
    \/ WriteFails(t)
    \/ CoderEnds(t)
    \/ ReadLatest(t)

Spec == Init /\ [][Next]_vars
-----------------------------------------------------------------------------
Listed(e) == entries # None /\ \E k \in DOMAIN entries : entries[k] = e

\* No write after the i-th loaded the array before the i-th.
NotOverwritten(i) ==
  \A j \in DOMAIN history : j > i => history[j].base >= i

(* A report that was written stays in the file unless a later write had     *)
(* loaded the array before: two coders lose each other's reports only when  *)
(* their writes overlap.                                                   *)
OnlyOverlapLosesReports ==
  \A i \in DOMAIN history : NotOverwritten(i) => Listed(history[i].entry)

WrittenBy(t) == {i \in DOMAIN history : history[i].entry.task = t}

(* What the session reads after a coder has ended is the last report that   *)
(* the coder wrote: it takes an older one, above all the "completed" of an  *)
(* earlier coder of the task, for the answer only when this coder wrote     *)
(* none or an overlapping write of another task dropped it.                 *)
StaleOnlyWhenDropped ==
  \A t \in Tasks :
    coder[t] = "answered" =>
      \A i \in WrittenBy(t) :
        \/ seen[t] = history[i].entry
        \/ \E j \in WrittenBy(t) : j > i
        \/ \E j \in DOMAIN history :
             j > i /\ history[j].entry.task # t /\ history[j].base < i
=============================================================================
