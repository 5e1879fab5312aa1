--------------------------- MODULE MCStageSession ---------------------------
(* Three tasks, a source file, a new file and a manifest. *)
EXTENDS StageSession

MCTasks == 1..3
MCFiles == {"app", "lib", "deps"}
MCBase == [f \in MCFiles |-> IF f = "lib" THEN "absent" ELSE "head"]
MCAbsent == "absent"
MCVersions ==
  [f \in MCFiles |-> CASE f = "app"  -> {"head", "tidy", "risky"}
                       [] f = "lib"  -> {"absent", "new"}
                       [] OTHER      -> {"head", "bumped"}]
MCKind == [f \in MCFiles |-> IF f = "deps" THEN "manifest" ELSE None]
MCDependencyFiles == {"deps"}
MCModuleOf == [f \in MCFiles |-> IF f = "app" THEN "core" ELSE None]

MCContents == {"absent", "head", "tidy", "risky", "new", "bumped"}
MCChanged ==
  [c \in MCContents |-> CASE c \in {"tidy", "risky"} -> {2}
                          [] c \in {"new", "bumped"} -> {1}
                          [] OTHER -> {}]
MCHints ==
  [c \in MCContents |->
     IF c = "risky" THEN {<<"security", 2>>, <<"transaction", 2>>} ELSE {}]

\* Line 1 has been at fault for long, line 2 of "risky" is new.
MCFlaws ==
  [a \in {"gitleaks", "osv-scanner", "semgrep"} |->
     [c \in MCContents |->
        CASE a = "osv-scanner" -> IF c = "bumped" THEN {0} ELSE {}
          [] c = "risky" -> {1, 2}
          [] c \in {"tidy", "new"} /\ a = "gitleaks" -> {1}
          [] OTHER -> {}]]
MCOrder == <<"gitleaks", "osv-scanner", "semgrep">>
MCSeverity ==
  [a \in {"gitleaks", "osv-scanner", "semgrep"} |->
     IF a = "semgrep" THEN "MEDIUM" ELSE "HIGH"]
MCText ==
  [a \in {"gitleaks", "osv-scanner", "semgrep"} |->
     IF a = "osv-scanner" THEN "vulnerable" ELSE "leaked"]

Of(id, files) == [id |-> id, files |-> files]
Plain(f) == <<f, "plain">>
MCPlan(listing, listed, dependencies, risk, relying) ==
  [listing |-> listing, listed |-> listed,
   dependencies |-> dependencies, risk |-> risk,
   refs |-> [t \in MCTasks |->
               IF t \in relying THEN <<"no_new_dependency">> ELSE << >>]]

\* Disjoint; the first and the last share a file, with and without the
\* listing; two share one out of order; two share one in two spellings; a
\* dependency and a risk of its own.  Task 2 may not rely on the decision.
MCPlans ==
  LET app == {Plain("app")}
      lib == {Plain("lib")}
      deps == {Plain("deps")}
  IN  {MCPlan(<<Of(1, app), Of(2, lib \union deps)>>, TRUE, {}, None, {1}),
       MCPlan(<<Of(1, app), Of(2, deps), Of(3, app)>>, TRUE, {}, None, {2}),
       MCPlan(<<Of(1, app), Of(2, deps), Of(3, app)>>, FALSE, {}, None, {3}),
       MCPlan(<<Of(2, app), Of(1, app)>>, TRUE, {}, None, {}),
       MCPlan(<<Of(1, app), Of(2, {<<"app", "dotted">>})>>, TRUE, {}, None, {1}),
       MCPlan(<<Of(1, app), Of(2, deps)>>, FALSE, {<<2, 1>>}, "HIGH", {1})}

Decided(status) ==
  [no_new_dependency |->
     [status |-> status, affects |-> {1, 3},
      constraints |-> {[path |-> "dependency", allowed |-> {FALSE}]}]]
MCRegistries == {Decided("pending"), Decided("resolved")}
=============================================================================
