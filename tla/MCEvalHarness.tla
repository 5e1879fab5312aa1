--------------------------- MODULE MCEvalHarness ---------------------------
(***************************************************************************)
(* Small instances of EvalHarness for TLC: one case of each status.        *)
(***************************************************************************)
EXTENDS EvalHarness, TLC

CONSTANTS src, new, cache, x, y, make, stay

Holds(g) == [f \in Files |-> IF f \in DOMAIN g THEN g[f] ELSE Absent]
Wants(g) == [f \in Files |-> IF f \in DOMAIN g THEN g[f] ELSE None]

\* make: the agent adds new and leaves src alone; its verification leaves a
\* cache.  stay: the agent has to stop and report.
MCFixture ==
  make :> [setup |-> Holds(src :> x), writeSet |-> {new}, status |-> "completed",
           changed |-> {new}, want |-> Wants(new :> x), allow |-> {cache},
           leaves |-> {cache}]
  @@
  stay :> [setup |-> Holds(src :> x), writeSet |-> {src}, status |-> "blocked",
           changed |-> {}, want |-> Wants(src :> x), allow |-> {cache},
           leaves |-> {}]

Sound(status) == [form |-> "sound", status |-> status,
                  changes |-> status = "completed", gaps |-> status = "blocked",
                  claim |-> IF status = "completed" THEN "ok" ELSE "none"]
MCReports ==
  {Sound("completed"), Sound("blocked"),
   [Sound("completed") EXCEPT !.form = "text"]}

\* The verification looks at the file the case asks for.
MCVerificationOk(c, t) == c = make /\ t[new] = x

MCSimilar == {<<x, x>>}

ASSUME CasesAreRepeatable == \A c \in Cases : Repeatable(c)
=============================================================================
