----------------------- MODULE MCCompletionPipeline ------------------------
(***************************************************************************)
(* Small instances of CompletionPipeline for TLC.                          *)
(***************************************************************************)
EXTENDS CompletionPipeline, TLC

CONSTANTS t1, f1, f2

\* t1 writes f1; f2 belongs to nobody, and any other task only reads.
MCWriteSet == [t \in Tasks |-> IF t = t1 THEN {f1} ELSE {}]
MCRanges   == [Files -> Spans]

\* Every content has lines of its own: each edit shows in diff_ranges.
DistinctSpans == [c \in Contents |-> c]
\* Contents 1 and 2 span the same lines: an edit inside a changed region.
SameSpans     == [c \in Contents |-> IF c = 0 THEN 0 ELSE 1]

\* Plans without scenarios and constraints, and one that declares both.
PlainPlan  == {[scenarios |-> FALSE, must |-> FALSE]}
StrictPlan == {[scenarios |-> TRUE, must |-> TRUE]}

\* No guard reads the history variables: properties that do not either can
\* be checked on the states without them.
WithoutHistory == <<tree, ledger, cache, working, conclusion>>

AgentSymmetry == Permutations(Agents)
=============================================================================
