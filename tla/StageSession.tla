---------------------------- MODULE StageSession ----------------------------
(***************************************************************************)
(* A session from its change facts to the review: the main session         *)
(* collects facts, routes on them, validates task packets and gives them   *)
(* to coders; a reviewer runs the preflight while other coders still edit. *)
(*                                                                         *)
(* The facts are those of one worktree (FactsOfOneTree of FactsSnapshot),  *)
(* and the properties use which.  A listing is a sequence of tasks and     *)
(* their paths, a path a file and a spelling of its name.                  *)
(***************************************************************************)
EXTENDS ContextRouting, ReviewPreflight

CONSTANTS
  Tasks,       \* numbers, for the order of task ids
  Plans,       \* what the main session may have planned
  Registries,  \* the decision registries there may be
  Constraints, \* the ids that --plan-constraints declares
  Files, Base, \* the files, and their contents in HEAD
  Absent,      \* the content of a file that does not exist
  Versions,    \* the contents each file may have
  Kind,        \* the class of each file, None for plain source
  ModuleOf,    \* the module of each file, None outside of every module
  Changed,     \* the lines in which each content differs from HEAD
  Hints,       \* the risk patterns in them, as keys and lines
  Flaws,       \* what each analyzer has to say of each content
  Order,       \* ANALYZERS
  WholeRepo,   \* the analyzers that scan every file, whatever they are given
  Installed,   \* the analyzers on PATH
  Configured,  \* the analyzers with a project marker
  Commands,    \* the verification commands
  MaxEdits     \* bound: edits of all coders

Packets == INSTANCE TaskPacket WITH NoFile <- None

Trees == {t \in [Files -> UNION {Versions[f] : f \in Files}] :
            \A f \in Files : t[f] \in Versions[f]}

\* Of the analyzers, only that those for dependencies have nothing to say
\* of files with other names.
ASSUME SessionAssumption ==
  /\ Tasks \subseteq Int /\ MaxEdits \in Nat
  /\ Base \in Trees /\ NoFile \notin Files /\ Unsaid \notin BOOLEAN
  /\ \A f \in Files : Changed[Base[f]] = {}
  /\ \A p \in Plans :
       /\ Len(p.listing) \in Nat /\ DOMAIN p.listing = 1..Len(p.listing)
       /\ \A i \in DOMAIN p.listing :
            p.listing[i].id \in Tasks /\ p.listing[i].files # {}
  /\ Configured \subseteq Analyzers
  /\ \A a \in Analyzers, f \in Files :
       \A v \in Versions[f] : Flaws[a][v] \subseteq Nat
  /\ \A a \in OnDependency, f \in Files \ DependencyFiles :
       \A v \in Versions[f] : Flaws[a][v] = {}

VARIABLES
  tree,      \* the worktree
  edits,     \* how many edits were made (a bound, no state of the program)
  plan,      \* the plan: listing and whether the facts are given it,
             \* dependencies, risk, and the decisions each task refers to
  registry,  \* the decisions file
  facts,     \* the facts file
  route,     \* what the main session keeps of the last route and its tier
  coder,     \* how far the packet and the coder of each task are
  review     \* the preflight

session == <<plan, registry, facts, route>>
vars == <<tree, edits, session, coder, review>>
-----------------------------------------------------------------------------
(* What change_facts.py makes of a worktree. *)

Touched(t) == {f \in Files : t[f] # Base[f]}

OfKind(t, kind) == {f \in Touched(t) : Kind[f] = kind}

Found(t, key) ==
  {e \in Files \X UNION {Changed[t[f]] : f \in Touched(t)} :
     e[1] \in Touched(t) /\ <<key, e[2]>> \in Hints[t[e[1]]]}

FactsOf(t, listing) ==
  [tree      |-> t,
   changed   |-> {f \in Touched(t) : Base[f] # Absent},
   untracked |-> {f \in Touched(t) : Base[f] = Absent},
   ranges    |-> [f \in Files |-> IF f \in Touched(t) THEN Changed[t[f]] ELSE {}],
   modules   |-> {ModuleOf[f] : f \in Touched(t)} \ {None},
   tests     |-> OfKind(t, "test") # {},
   dependency |-> OfKind(t, "manifest") # {},
   lockfile  |-> OfKind(t, "lockfile") # {},
   migration |-> OfKind(t, "migration") # {},
   contract  |-> OfKind(t, "contract") # {},
   candidates |-> [k \in RiskKeys |->
                     IF Found(t, k) # {} THEN "candidate" ELSE "not_detected"],
   evidence  |-> Found(t, "security"),
   overlap   |-> Overlap(listing)]

TaskFacts ==
  [risk |-> plan.risk, dependencies |-> plan.dependencies,
   write_sets |-> [i \in DOMAIN plan.listing |-> plan.listing[i].files]]

Owned(t) == UNION {plan.listing[i].files :
                     i \in {j \in DOMAIN plan.listing : plan.listing[j].id = t}}
-----------------------------------------------------------------------------
Init ==
  /\ tree = Base /\ edits = 0
  /\ plan \in Plans
  /\ registry \in Registries
  /\ facts = None /\ route = None
  /\ coder = [t \in Tasks |-> "none"]
  /\ review = None

\* change_facts.py, with --write-sets or without, as planned.
CollectFacts ==
  /\ facts' = FactsOf(tree, IF plan.listed THEN plan.listing ELSE << >>)
  /\ UNCHANGED <<tree, edits, plan, registry, route, coder, review>>

\* route_context.py and run_ledger.py verification-tier on the same inputs;
\* the tier needs facts.
RouteContext ==
  /\ route' = IF Accepted(facts, TaskFacts)
                THEN [accepted  |-> TRUE,
                      risk      |-> Risk(facts, TaskFacts),
                      execution |-> Execution(facts, TaskFacts),
                      tier      |-> IF facts = None THEN None
                                    ELSE Tier(facts, TaskFacts),
                      given     |-> facts # None]
                ELSE [accepted |-> FALSE, risk |-> None, execution |-> None,
                      tier |-> None, given |-> TRUE]
  /\ UNCHANGED <<tree, edits, plan, registry, facts, coder, review>>

PacketOf(t, paths, mapped) ==
  [task |-> t, write |-> paths, read |-> << >>,
   dependencies |-> << >>, refs |-> plan.refs[t], mapped |-> mapped, sound |-> TRUE]

\* validate_task_packet.py.  A packet it blocks is written anew; one that is
\* valid is not looked at again, though registry and worktree may change.
ValidatePacket(t, paths, mapped) ==
  /\ coder[t] \in {"none", "valid"}
  /\ Packets!Valid(PacketOf(t, paths, mapped), registry, Tasks, facts,
                   Constraints)
  /\ coder' = [coder EXCEPT ![t] = "valid"]
  /\ UNCHANGED <<tree, edits, session, review>>

\* The main session gives the packet to a coder.
Spawn(t) ==
  /\ coder[t] = "valid"
  /\ route # None /\ route.accepted
  /\ \/ route.execution = "parallel-safe"
     \/ \A u \in Tasks : coder[u] # "running"
  /\ coder' = [coder EXCEPT ![t] = "running"]
  /\ UNCHANGED <<tree, edits, session, review>>

CoderEdits(t, f) ==
  /\ coder[t] = "running" /\ edits < MaxEdits
  /\ \E p \in Owned(t) : p[1] = f
  /\ \E v \in Versions[f] \ {tree[f]} : tree' = [tree EXCEPT ![f] = v]
  /\ edits' = edits + 1
  /\ UNCHANGED <<session, coder, review>>

CoderEnds(t) ==
  /\ coder[t] = "running"
  /\ coder' = [coder EXCEPT ![t] = "ended"]
  /\ UNCHANGED <<tree, edits, session, review>>

\* The user or the main session settles a decision, or opens it again.
DecisionChanges ==
  /\ registry' \in Registries \ {registry}
  /\ UNCHANGED <<tree, edits, plan, facts, route, coder, review>>
-----------------------------------------------------------------------------
(* run_preflight.  The reviewer's process reads its inputs once.           *)

Done == review # None /\ DOMAIN review.results = Analyzers

StartPreflight(failed) ==
  /\ facts # None
  /\ \E t \in Tasks : coder[t] = "ended"
  /\ review = None
  /\ review' = [facts |-> facts, failed |-> failed, results |-> << >>,
                seen |-> [a \in Analyzers |-> None],
                protos |-> CandidateProtos(facts) \union FailureProtos(failed)]
  /\ UNCHANGED <<tree, edits, session, coder>>

Turn(a) ==
  /\ review # None /\ ~ Done
  /\ a = Order[Cardinality(DOMAIN review.results) + 1]

Runs(a) ==
  /\ a \in Installed
  /\ Applies(a, review.facts) /\ RunFiles(a, review.facts) # {}

With(a, result) ==
  [b \in DOMAIN review.results \union {a} |->
     IF b = a THEN result ELSE review.results[b]]

\* Not installed, not applicable, or no files to look at.
SkipAnalyzer(a) ==
  /\ Turn(a) /\ ~ Runs(a)
  /\ review' = [review EXCEPT !.results =
                  With(a, [state |-> "skipped", reason |-> "skipped", count |-> 0])]
  /\ UNCHANGED <<tree, edits, session, coder>>

\* A nonzero exit, a timeout or a vanished executable.
AnalyzerFails(a) ==
  /\ Turn(a) /\ Runs(a)
  /\ review' = [review EXCEPT
       !.results = With(a, [state |-> "failed", reason |-> "error", count |-> 0]),
       !.protos  = @ \union (IF a \in Configured THEN {HardFailure(a)} ELSE {})]
  /\ UNCHANGED <<tree, edits, session, coder>>

\* Output that is no JSON is a failure; no output, or JSON of another type,
\* is a run without findings.
AnalyzerBabbles(a) ==
  /\ Turn(a) /\ Runs(a)
  /\ \E result \in {[state |-> "failed", reason |-> "parse", count |-> 0],
                    [state |-> "ran", reason |-> "none", count |-> 0]} :
       review' = [review EXCEPT !.results = With(a, result)]
  /\ UNCHANGED <<tree, edits, session, coder>>

\* JSON of the right type whose nested fields are not of theirs: the parser
\* raises, run_preflight has no result, and may be run again.
AnalyzerBreaks(a) ==
  /\ Turn(a) /\ Runs(a)
  /\ review' = None
  /\ UNCHANGED <<tree, edits, session, coder>>

Scanned(a) == IF a \in WholeRepo THEN Files ELSE RunFiles(a, review.facts)

Output(a) ==
  UNION {{Proto(a, f, l, Text[a], Severity[a], Unsaid) : l \in Flaws[a][tree[f]]} :
           f \in Scanned(a)}

\* The analyzer reads the worktree as it is now.
AnalyzerRuns(a) ==
  /\ Turn(a) /\ Runs(a)
  /\ review' = [review EXCEPT
       !.results = With(a, [state |-> "ran", reason |-> "none",
                            count |-> Cardinality(Output(a))]),
       !.seen[a] = tree,
       !.protos  = @ \union Output(a)]
  /\ UNCHANGED <<tree, edits, session, coder>>

Report == Merged(review.protos, review.facts)
-----------------------------------------------------------------------------
\* A list as long as the task owns paths; one that repeats a path is blocked.
PathLists(t) == [1..Cardinality(Owned(t)) -> Owned(t)]

Next ==
  \/ CollectFacts
  \/ RouteContext
  \/ \E t \in Tasks, mapped \in {{}, Constraints} :
       \E paths \in PathLists(t) : ValidatePacket(t, paths, mapped)
  \/ \E t \in Tasks : Spawn(t)
  \/ \E t \in Tasks, f \in Files : CoderEdits(t, f)
  \/ \E t \in Tasks : CoderEnds(t)
  \/ DecisionChanges
  \/ \E failed \in SUBSET Commands : StartPreflight(failed)
  \/ \E a \in Analyzers : SkipAnalyzer(a)
  \/ \E a \in Analyzers : AnalyzerFails(a)
  \/ \E a \in Analyzers : AnalyzerBabbles(a)
  \/ \E a \in Analyzers : AnalyzerBreaks(a)
  \/ \E a \in Analyzers : AnalyzerRuns(a)

Spec == Init /\ [][Next]_vars
-----------------------------------------------------------------------------
(* Properties *)

\* The facts are those of a worktree, and the preflight's results and
\* findings are about the analyzers.
SessionTypeOK ==
  /\ tree \in Trees /\ edits \in 0..MaxEdits
  /\ plan \in Plans /\ registry \in Registries
  /\ coder \in [Tasks -> {"none", "valid", "running", "ended"}]
  /\ facts # None => \E t \in Trees : \E listing \in {<< >>, plan.listing} :
                       facts = FactsOf(t, listing)
  /\ review # None =>
       /\ DOMAIN review = {"facts", "failed", "results", "seen", "protos"}
       /\ review.failed \subseteq Commands
       /\ review.seen \in [Analyzers -> Trees \union {None}]
       /\ DOMAIN review.results \subseteq Analyzers

\* What an analyzer says of a line is charged to the change exactly when
\* the change wrote that line (or, for what it says of a file as a whole,
\* touched that file), for every file that is as the facts knew it when the
\* analyzer read it, whatever analyzers were merged or saw it otherwise.
AttributionIsRight ==
  Done =>
    LET charged == {x \in Report : x.attributable}
    IN  \A a \in {b \in Analyzers : review.seen[b] # None}, f \in Files :
          LET content == review.seen[a][f]
          IN  content = review.facts.tree[f] =>
                \A l \in Flaws[a][content] :
                  (\E x \in charged : x.file = f /\ x.line = l /\ a \in x.sources)
                  <=> IF l = 0 THEN content # Base[f] ELSE l \in Changed[content]

\* A failed verification and a failed run of an analyzer the project has
\* configured reach the report as blockers, and nothing that was found is
\* lost or weakened when findings are merged.
MachineBlockersStand ==
  Done =>
    LET report == Report
        Blocked(text) == \E x \in report :
          x.text = text /\ Rank(x.severity) >= Rank("HIGH") /\ x.attributable
    IN  /\ \A c \in review.failed : Blocked(c)
        /\ \A a \in Configured : review.results[a].reason = "error" => Blocked(a)
        /\ \A p \in review.protos : \E x \in report :
             /\ Place(x) = Place(p) /\ p.source \in x.sources
             /\ Rank(p.severity) <= Rank(x.severity)

\* Two coders that run at once have no path in common: a file they share
\* goes by two spellings, which nothing that routes them compares.
WritersKeepApart ==
  \A t, u \in Tasks :
    t # u /\ coder[t] = "running" /\ coder[u] = "running" =>
      Owned(t) \intersect Owned(u) = {}

\* A risk the route finds is verified: unless the main session sets the
\* risk itself, anything above NORMAL asks for INTEGRATION or FULL; HIGH set
\* by hand asks for FULL.  The two answers come from two scripts.
RiskIsVerified ==
  route # None /\ route.accepted /\ route.given =>
    /\ plan.risk = None /\ route.risk # "NORMAL" =>
         route.tier \in {"INTEGRATION", "FULL"}
    /\ plan.risk = "HIGH" => route.tier = "FULL"

\* change_facts.py writes an overlap that route_context.py takes, provided
\* --write-sets names its tasks in increasing order, each once.
RoutableWhenOrdered ==
  route # None /\ ~ route.accepted =>
    \E i, j \in DOMAIN plan.listing :
      i < j /\ plan.listing[i].id >= plan.listing[j].id
=============================================================================
