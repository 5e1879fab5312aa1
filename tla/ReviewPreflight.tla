-------------------------- MODULE ReviewPreflight ---------------------------
(***************************************************************************)
(* review_preflight.py: what the preflight makes of facts, verification    *)
(* records and the output of the analyzers it runs one after the other.    *)
(*                                                                         *)
(* A finding before it is finalized has a source, a place (file and line,  *)
(* NoFile and 0 for none), a text that stands for category and normalized  *)
(* message, a severity, and whether it is attributable, None when that     *)
(* follows from the facts.  The review context and its budgets are left    *)
(* out, and so are analyzers that are only detected.                       *)
(***************************************************************************)
EXTENDS Integers, FiniteSets

CONSTANTS
  NoFile,       \* the path of a finding that is about no file
  Unsaid,       \* attributable is not set
  Analyzers,    \* the analyzers that can be run
  OnDependency, \* those that run only when dependencies changed
  DependencyFiles, \* the files with a name they are run on
  Severity,     \* the severity each analyzer's findings are mapped to
  Text          \* category and message of its findings

Rank(severity) ==
  CASE severity = "BLOCKER" -> 5
    [] severity = "HIGH"    -> 4
    [] severity = "MEDIUM"  -> 3
    [] severity = "LOW"     -> 2
    [] OTHER                -> 1

Proto(source, file, line, text, severity, attributable) ==
  [source |-> source, file |-> file, line |-> line, text |-> text,
   severity |-> severity, attributable |-> attributable]

\* security_candidate_findings: a candidate is never more than MEDIUM.
CandidateProtos(facts) ==
  {Proto("heuristic", e[1], e[2], "secret-like", "MEDIUM", Unsaid) :
     e \in facts.evidence}

\* verification_failure_findings, for the commands that exited nonzero.
FailureProtos(failed) ==
  {Proto("verification", NoFile, 0, c, "HIGH", TRUE) : c \in failed}

\* Mutant: a hard failure is attributed like the findings of an analyzer.
HardFailurePlain(a) == Proto("project-analyzer", NoFile, 0, a, "HIGH", Unsaid)

\* _analyzer_hard_failure_proto.
HardFailure(a) == Proto("project-analyzer", NoFile, 0, a, "HIGH", TRUE)

\* _applies and _run_files.
Applies(a, facts) == a \in OnDependency => facts.dependency \/ facts.lockfile
RunFiles(a, facts) ==
  IF a \in OnDependency
    THEN (facts.changed \union facts.untracked) \intersect DependencyFiles
    ELSE facts.changed \union facts.untracked

\* Mutant: the line is not looked at.
AttributedByFile(proto, facts) ==
  proto.file \in facts.changed \union facts.untracked

\* attribute: by the changed lines, and by the file for a finding without one.
Attributed(proto, facts) ==
  /\ proto.file \in facts.changed \union facts.untracked
  /\ proto.line > 0 => proto.line \in facts.ranges[proto.file]

\* finalize_finding.
Attributable(proto, facts) ==
  IF proto.attributable # Unsaid THEN proto.attributable
  ELSE Attributed(proto, facts)

\* The fingerprint.
Place(proto) == [file |-> proto.file, line |-> proto.line, text |-> proto.text]

\* deduplicate: all sources, the highest severity.  Findings with one
\* fingerprint are attributed alike, so any of them tells.
Merged(protos, facts) ==
  {LET same == {q \in protos : Place(q) = Place(p)}
   IN  [file |-> p.file, line |-> p.line, text |-> p.text,
        sources |-> {q.source : q \in same},
        severity |-> (CHOOSE q \in same :
                        \A r \in same : Rank(r.severity) <= Rank(q.severity)
                     ).severity,
        attributable |-> Attributable(p, facts)] : p \in protos}
=============================================================================
