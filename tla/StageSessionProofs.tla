------------------------- MODULE StageSessionProofs -------------------------
(***************************************************************************)
(* What the scripts between the facts and the review guarantee, for every   *)
(* plan, repository and set of analyzers.  Each guarantee rests on a lemma  *)
(* about the operators of one script, and on which worktree the values it  *)
(* is given were taken from.                                               *)
(***************************************************************************)
EXTENDS StageSession, FiniteSetTheorems, TLAPS
-----------------------------------------------------------------------------
(* The facts, field by field.                                              *)
LEMMA FactsFields ==
  ASSUME NEW t \in Trees, NEW listing
  PROVE  LET facts1 == FactsOf(t, listing)
         IN  /\ facts1.tree = t
             /\ facts1.changed \union facts1.untracked = Touched(t)
             /\ \A f \in Touched(t) : facts1.ranges[f] = Changed[t[f]]
             /\ facts1.dependency = (OfKind(t, "manifest") # {})
             /\ facts1.overlap = Overlap(listing)
<1>1. \A f \in Touched(t) : f \in Files
  BY DEF Touched
<1> QED
  BY <1>1 DEF FactsOf, Touched

(* Routing: tasks that may run together share no path.                     *)
LEMMA ParallelSafe ==
  ASSUME NEW facts1, NEW task, DOMAIN task.write_sets \subseteq Int,
         Execution(facts1, task) = "parallel-safe",
         NEW i \in DOMAIN task.write_sets, NEW j \in DOMAIN task.write_sets,
         i # j
  PROVE  task.write_sets[i] \intersect task.write_sets[j] = {}
<1>1. \A k, l \in DOMAIN task.write_sets :
        k < l => task.write_sets[k] \intersect task.write_sets[l] = {}
  BY DEF Execution
<1>2. i < j \/ j < i
  OBVIOUS
<1> QED
  BY <1>1, <1>2

(* Routing: the tier covers the risk.                                      *)
LEMMA TierCoversRisk ==
  ASSUME NEW facts1, facts1 # None, NEW task
  PROVE  /\ task.risk = None /\ Risk(facts1, task) # "NORMAL" =>
              Tier(facts1, task) \in {"INTEGRATION", "FULL"}
         /\ task.risk = "HIGH" => Tier(facts1, task) = "FULL"
<1>1. task.risk = "HIGH" => Tier(facts1, task) = "FULL"
  BY DEF Tier
<1>2. ASSUME NEW k \in RiskKeys, facts1.candidates[k] \in Raised
      PROVE  Tier(facts1, task) \in {"INTEGRATION", "FULL"}
  <2>1. CASE k = "public_api"
    BY <1>2, <2>1 DEF Tier, HasCandidate
  <2>2. CASE k # "public_api"
    BY <1>2, <2>2 DEF Tier, HasCandidate
  <2> QED
    BY <2>1, <2>2
<1>3. ASSUME facts1.migration \/ facts1.dependency \/ facts1.lockfile
      PROVE  Tier(facts1, task) \in {"INTEGRATION", "FULL"}
  BY <1>3 DEF Tier
<1>4. ASSUME task.risk = None, Risk(facts1, task) # "NORMAL"
      PROVE  \/ facts1.migration \/ facts1.dependency \/ facts1.lockfile
             \/ \E k \in RiskKeys : facts1.candidates[k] \in Raised
  BY <1>4 DEF Risk, HasCandidate, Raised
<1> QED
  BY <1>1, <1>2, <1>3, <1>4

(* Routing: an overlap of tasks listed in order is accepted.               *)
LEMMA OrderedIsAccepted ==
  ASSUME NEW listing, Len(listing) \in Nat, DOMAIN listing = 1..Len(listing),
         listing = << >> \/ Len(listing) >= 1,
         listing = << >> => Len(listing) = 0,
         \A i \in DOMAIN listing : listing[i].id \in Int,
         \A i, j \in DOMAIN listing : i < j => listing[i].id < listing[j].id
  PROVE  OverlapAccepted(Overlap(listing))
<1> DEFINE n == Len(listing)
           pairs == {[at |-> p, a |-> listing[p[1]].id, b |-> listing[p[2]].id] :
                       p \in Shared(listing)}
           ids == {listing[i].id : i \in 1..n}
           named == {p.a : p \in pairs} \union {p.b : p \in pairs}
<1>0. \A k, l \in 1..n : listing[k].id = listing[l].id => k = l
  <2> SUFFICES ASSUME NEW k \in 1..n, NEW l \in 1..n, k # l
               PROVE  listing[k].id # listing[l].id
    OBVIOUS
  <2>1. k < l \/ l < k
    OBVIOUS
  <2>2. listing[k].id < listing[l].id \/ listing[l].id < listing[k].id
    BY <2>1
  <2> QED
    BY <2>2
<1>1. \A p \in Shared(listing) : p[1] \in 1..n /\ p[2] \in 1..n /\ p[1] < p[2]
                                 /\ p = <<p[1], p[2]>>
  BY DEF Shared
<1>2. Overlap(listing).pairs = pairs /\ Overlap(listing).task_count = n
  BY DEF Overlap
<1>3. \A p \in pairs : p.a < p.b /\ p.a \in ids /\ p.b \in ids
  BY <1>1
<1>4. ASSUME NEW p \in pairs, NEW q \in pairs, p.a = q.a, p.b = q.b PROVE p = q
  <2>1. PICK x \in Shared(listing) :
          p = [at |-> x, a |-> listing[x[1]].id, b |-> listing[x[2]].id]
    OBVIOUS
  <2>2. PICK y \in Shared(listing) :
          q = [at |-> y, a |-> listing[y[1]].id, b |-> listing[y[2]].id]
    OBVIOUS
  <2>3. listing[x[1]].id = listing[y[1]].id /\ listing[x[2]].id = listing[y[2]].id
    BY <1>4, <2>1, <2>2
  <2>4. x[1] = y[1]
    BY <1>0, <1>1, <2>3
  <2>5. x[2] = y[2]
    BY <1>0, <1>1, <2>3
  <2>6. x = y
    BY <1>1, <2>4, <2>5
  <2> QED
    BY <2>1, <2>2, <2>6
<1>5. Cardinality(named) <= n
  <2> DEFINE id == [i \in 1..n |-> listing[i].id]
  <2>1. id \in Surjection(1..n, ids)
    BY DEF Surjection
  <2>2. IsFiniteSet(1..n) /\ Cardinality(1..n) = n
    BY FS_Interval
  <2>3. IsFiniteSet(ids) /\ Cardinality(ids) <= n
    BY <2>1, <2>2, FS_Surjection
  <2>4. named \in SUBSET ids
    BY <1>3
  <2>5. IsFiniteSet(named) /\ Cardinality(named) <= Cardinality(ids)
    BY <2>3, <2>4, FS_Subset
  <2>6. Cardinality(named) \in Nat /\ Cardinality(ids) \in Nat
    BY <2>3, <2>5, FS_CardinalityType
  <2> QED
    BY <2>3, <2>5, <2>6
<1>6. /\ Overlap(listing).state = "unknown" => n = 0 /\ pairs = {}
      /\ Overlap(listing).state = "not_detected" => n >= 1 /\ pairs = {}
      /\ Overlap(listing).state = "confirmed" => n >= 2 /\ pairs # {}
      /\ Overlap(listing).state \in {"unknown", "not_detected", "confirmed"}
  <2>1. CASE listing = << >>
    BY <1>1, <2>1 DEF Overlap
  <2>2. CASE listing # << >> /\ Shared(listing) = {}
    BY <2>2 DEF Overlap
  <2>3. CASE listing # << >> /\ Shared(listing) # {}
    <3>1. PICK p \in Shared(listing) : TRUE
      BY <2>3
    <3>2. n >= 2
      BY <1>1, <3>1
    <3> QED
      BY <2>3, <3>2 DEF Overlap
  <2> QED
    BY <2>1, <2>2, <2>3
<1> HIDE DEF pairs
<1> QED
  BY <1>2, <1>3, <1>4, <1>5, <1>6 DEF OverlapAccepted
-----------------------------------------------------------------------------
(* The preflight: a rank is one of five, so some finding has the highest.  *)
LEMMA RankRange == \A severity : Rank(severity) \in 1..5
  BY DEF Rank

LEMMA HighestExists ==
  ASSUME NEW same, same # {}
  PROVE  \E q \in same : \A r \in same : Rank(r.severity) <= Rank(q.severity)
<1> DEFINE Reaches(n) == \E q \in same : Rank(q.severity) >= n
           Highest == \E q \in same : \A r \in same :
                        Rank(r.severity) <= Rank(q.severity)
<1>1. \A n \in 1..5 : Reaches(n) /\ ~ Reaches(n + 1) => Highest
  BY RankRange
<1>2. Reaches(1) /\ ~ Reaches(6)
  BY RankRange
<1> HIDE DEF Reaches, Highest
<1>3. \E n \in 1..5 : Reaches(n) /\ ~ Reaches(n + 1)
  BY <1>2
<1>4. Highest
  BY <1>1, <1>3
<1> QED
  BY <1>4 DEF Highest

(* deduplicate loses no finding and weakens none.                          *)
LEMMA MergedKeeps ==
  ASSUME NEW protos, NEW facts1, NEW p \in protos
  PROVE  \E x \in Merged(protos, facts1) :
           /\ x.file = p.file /\ x.line = p.line /\ x.text = p.text
           /\ p.source \in x.sources
           /\ Rank(p.severity) <= Rank(x.severity)
           /\ x.attributable = Attributable(p, facts1)
<1> DEFINE same == {q \in protos : Place(q) = Place(p)}
           top == CHOOSE q \in same : \A r \in same : Rank(r.severity) <= Rank(q.severity)
           x == [file |-> p.file, line |-> p.line, text |-> p.text,
                 sources |-> {q.source : q \in same}, severity |-> top.severity,
                 attributable |-> Attributable(p, facts1)]
<1>1. x \in Merged(protos, facts1)
  BY DEF Merged
<1>2. p \in same
  OBVIOUS
<1>3. \A r \in same : Rank(r.severity) <= Rank(top.severity)
  <2>1. \E q \in same : \A r \in same : Rank(r.severity) <= Rank(q.severity)
    BY <1>2, HighestExists
  <2> HIDE DEF same
  <2> QED
    BY <2>1
<1>4. p.source \in x.sources
  BY <1>2
<1>5. Rank(p.severity) <= Rank(x.severity)
  BY <1>2, <1>3
<1> QED
  BY <1>1, <1>4, <1>5

LEMMA MergedAddsNothing ==
  ASSUME NEW protos, NEW facts1, NEW x \in Merged(protos, facts1)
  PROVE  \E p \in protos : /\ x.file = p.file /\ x.line = p.line
                           /\ x.attributable = Attributable(p, facts1)
  BY DEF Merged

(* attribute, on the facts of a worktree.                                  *)
LEMMA AttributedOnFacts ==
  ASSUME NEW t \in Trees, NEW listing, NEW p, NEW f \in Files, p.file = f,
         p.line \in Nat
  PROVE  Attributed(p, FactsOf(t, listing)) <=>
           IF p.line = 0 THEN t[f] # Base[f] ELSE p.line \in Changed[t[f]]
<1> DEFINE these == FactsOf(t, listing)
<1>1. /\ these.changed \union these.untracked = Touched(t)
      /\ \A g \in Touched(t) : these.ranges[g] = Changed[t[g]]
  BY FactsFields
<1>2. f \in Touched(t) <=> t[f] # Base[f]
  BY DEF Touched
<1>3. t[f] = Base[f] => Changed[t[f]] = {}
  BY SessionAssumption
<1> HIDE DEF these
<1>4. Attributed(p, these) <=>
        IF p.line = 0 THEN t[f] # Base[f] ELSE p.line \in Changed[t[f]]
  <2>1. CASE t[f] = Base[f]
    BY <1>1, <1>2, <1>3, <2>1 DEF Attributed
  <2>2. CASE t[f] # Base[f]
    BY <1>1, <1>2, <2>2 DEF Attributed
  <2> QED
    BY <2>1, <2>2
<1> QED
  BY <1>4 DEF these

LEMMA ProtoFields ==
  ASSUME NEW source, NEW file, NEW line, NEW text, NEW severity, NEW said
  PROVE  LET p == Proto(source, file, line, text, severity, said)
         IN  /\ p.source = source /\ p.file = file /\ p.line = line
             /\ p.text = text /\ p.severity = severity /\ p.attributable = said
  BY DEF Proto
-----------------------------------------------------------------------------
(* The inductive invariant.  A route is judged by facts that later steps    *)
(* replace, so it keeps what the route says of the plan, which stays.       *)
OfAWorktree(f) ==
  \E t \in Trees : \E listing \in {<< >>, plan.listing} : f = FactsOf(t, listing)

RouteIsSafe ==
  route # None /\ route.accepted /\ route.execution = "parallel-safe" =>
    \A i, j \in DOMAIN plan.listing :
      i # j => plan.listing[i].files \intersect plan.listing[j].files = {}

Explained(p) ==
  \/ p.attributable = Unsaid
  \/ p.attributable = TRUE /\ p.file = NoFile

Kept(a) ==
  review.seen[a] # None =>
    \A f \in Scanned(a) : \A l \in Flaws[a][review.seen[a][f]] :
      Proto(a, f, l, Text[a], Severity[a], Unsaid) \in review.protos

ReviewHolds ==
  review # None =>
    /\ OfAWorktree(review.facts)
    /\ FailureProtos(review.failed) \subseteq review.protos
    /\ \A a \in Configured \intersect DOMAIN review.results :
         review.results[a].reason = "error" => HardFailure(a) \in review.protos
    /\ \A p \in review.protos : Explained(p)
    /\ \A a \in Analyzers : Kept(a)

SessionInv ==
  /\ SessionTypeOK /\ RouteIsSafe /\ RiskIsVerified /\ RoutableWhenOrdered
  /\ WritersKeepApart /\ ReviewHolds

LEMMA SessionInitially == Init => SessionInv
<1> SUFFICES ASSUME Init PROVE SessionInv
  OBVIOUS
<1>1. SessionTypeOK
  BY SessionAssumption DEF Init, SessionTypeOK
<1>2. WritersKeepApart
  BY DEF Init, WritersKeepApart
<1> QED
  BY <1>1, <1>2 DEF Init, SessionInv, RouteIsSafe, RiskIsVerified,
     RoutableWhenOrdered, ReviewHolds

(* What each part of the invariant depends on.                             *)
LEMMA RouteFrame ==
  ASSUME UNCHANGED <<plan, route>>, SessionInv
  PROVE  RouteIsSafe' /\ RiskIsVerified' /\ RoutableWhenOrdered'
<1> USE DEF SessionInv
<1>1. RouteIsSafe'
  BY DEF RouteIsSafe
<1>2. RiskIsVerified'
  BY DEF RiskIsVerified
<1>3. RoutableWhenOrdered'
  BY DEF RoutableWhenOrdered
<1> QED
  BY <1>1, <1>2, <1>3

LEMMA CoderFrame ==
  ASSUME UNCHANGED <<plan, coder>>, SessionInv
  PROVE  WritersKeepApart'
  BY DEF SessionInv, WritersKeepApart, Owned

LEMMA ReviewFrame ==
  ASSUME UNCHANGED <<plan, review>>, SessionInv
  PROVE  ReviewHolds'
  BY DEF SessionInv, ReviewHolds, OfAWorktree, Kept, Scanned

LEMMA CollectFactsKeeps ==
  ASSUME SessionInv, CollectFacts
  PROVE  SessionInv'
<1>1. /\ UNCHANGED <<tree, edits, plan, registry, route, coder, review>>
      /\ \E listing \in {<< >>, plan.listing} : facts' = FactsOf(tree, listing)
  BY DEF CollectFacts
<1>2. SessionTypeOK'
  BY <1>1 DEF SessionInv, SessionTypeOK
<1> QED
  BY <1>1, <1>2, RouteFrame, CoderFrame, ReviewFrame DEF SessionInv

LEMMA RouteContextKeeps ==
  ASSUME SessionInv, RouteContext
  PROVE  SessionInv'
<1> DEFINE n == Len(plan.listing)
<1>1. UNCHANGED <<tree, edits, plan, registry, facts, coder, review>>
  BY DEF RouteContext
<1>2. SessionTypeOK'
  BY <1>1 DEF SessionInv, SessionTypeOK
<1>3. /\ Len(plan.listing) \in Nat /\ DOMAIN plan.listing = 1..n
      /\ \A i \in 1..n : plan.listing[i].id \in Int /\ plan.listing[i].files # {}
  BY SessionAssumption DEF SessionInv, SessionTypeOK
<1>4. /\ TaskFacts.risk = plan.risk
      /\ DOMAIN TaskFacts.write_sets = 1..n
      /\ \A i \in 1..n : TaskFacts.write_sets[i] = plan.listing[i].files
  BY <1>3 DEF TaskFacts
<1>5. CASE Accepted(facts, TaskFacts)
  <2>1. /\ route'.accepted = TRUE
        /\ route'.risk = Risk(facts, TaskFacts)
        /\ route'.execution = Execution(facts, TaskFacts)
        /\ route'.given = (facts # None)
        /\ facts # None => route'.tier = Tier(facts, TaskFacts)
    BY <1>5 DEF RouteContext
  <2>2. RouteIsSafe'
    <3> SUFFICES ASSUME Execution(facts, TaskFacts) = "parallel-safe",
                        NEW i \in 1..n, NEW j \in 1..n, i # j
                 PROVE  plan.listing[i].files \intersect plan.listing[j].files = {}
      BY <1>1, <1>3, <2>1 DEF RouteIsSafe
    <3>1. DOMAIN TaskFacts.write_sets \subseteq Int
      BY <1>3, <1>4
    <3> QED
      BY <1>4, <3>1, ParallelSafe
  <2>3. RiskIsVerified'
    BY <1>1, <1>4, <2>1, TierCoversRisk DEF RiskIsVerified
  <2>4. RoutableWhenOrdered'
    BY <2>1 DEF RoutableWhenOrdered
  <2> QED
    BY <1>1, <1>2, <2>2, <2>3, <2>4, CoderFrame, ReviewFrame DEF SessionInv
<1>6. CASE ~ Accepted(facts, TaskFacts)
  <2>1. route'.accepted = FALSE
    BY <1>6 DEF RouteContext
  <2>2. RoutableWhenOrdered'
    <3> SUFFICES ASSUME \A i, j \in 1..n :
                          i < j => plan.listing[i].id < plan.listing[j].id
                 PROVE  FALSE
      BY <1>1, <1>3 DEF RoutableWhenOrdered
    <3>1. facts # None /\ ~ OverlapAccepted(facts.overlap)
      BY <1>3, <1>4, <1>6 DEF Accepted
    <3>2. PICK t \in Trees, listing \in {<< >>, plan.listing} :
            facts = FactsOf(t, listing)
      BY <3>1 DEF SessionInv, SessionTypeOK
    <3>3. facts.overlap = Overlap(listing)
      BY <3>2, FactsFields
    <3>4. CASE listing = << >>
      <4>1. Len(listing) = 0 /\ DOMAIN listing = {}
        BY <3>4
      <4> QED
        BY <3>1, <3>3, <3>4, <4>1, OrderedIsAccepted
    <3>5. CASE listing = plan.listing /\ listing # << >>
      <4>1. n >= 1
        BY <1>3, <3>5
      <4> QED
        BY <1>3, <3>1, <3>3, <3>5, <4>1, OrderedIsAccepted
    <3> QED
      BY <3>2, <3>4, <3>5
  <2>3. RouteIsSafe' /\ RiskIsVerified'
    BY <2>1 DEF RouteIsSafe, RiskIsVerified
  <2> QED
    BY <1>1, <1>2, <2>2, <2>3, CoderFrame, ReviewFrame DEF SessionInv
<1> QED
  BY <1>5, <1>6

(* The coders.                                                             *)
LEMMA ValidatePacketKeeps ==
  ASSUME SessionInv, NEW t \in Tasks, NEW paths, NEW mapped,
         ValidatePacket(t, paths, mapped)
  PROVE  SessionInv'
<1>1. /\ UNCHANGED <<tree, edits, session, review>>
      /\ coder' = [coder EXCEPT ![t] = "valid"]
  BY DEF ValidatePacket
<1>2. SessionTypeOK'
  BY <1>1 DEF SessionInv, SessionTypeOK, session
<1>3. WritersKeepApart'
  <2>1. \A u \in Tasks : coder'[u] = "running" => coder[u] = "running"
    BY <1>1 DEF SessionInv, SessionTypeOK
  <2> QED
    BY <1>1, <2>1 DEF SessionInv, WritersKeepApart, Owned, session
<1> QED
  BY <1>1, <1>2, <1>3, RouteFrame, ReviewFrame DEF SessionInv, session

LEMMA SpawnKeeps ==
  ASSUME SessionInv, NEW t \in Tasks, Spawn(t)
  PROVE  SessionInv'
<1>1. /\ UNCHANGED <<tree, edits, session, review>>
      /\ coder' = [coder EXCEPT ![t] = "running"]
  BY DEF Spawn
<1>2. \A u \in Tasks : coder'[u] = IF u = t THEN "running" ELSE coder[u]
  BY <1>1 DEF SessionInv, SessionTypeOK
<1>3. SessionTypeOK'
  BY <1>1 DEF SessionInv, SessionTypeOK, session
<1>4. \/ \A u, v \in Tasks : u # v => Owned(u) \intersect Owned(v) = {}
      \/ \A u \in Tasks : coder[u] # "running"
  <2>1. ASSUME route # None, route.accepted, route.execution = "parallel-safe",
               NEW u \in Tasks, NEW v \in Tasks, u # v
        PROVE  Owned(u) \intersect Owned(v) = {}
    BY <2>1 DEF SessionInv, RouteIsSafe, Owned
  <2> QED
    BY <2>1 DEF Spawn
<1>5. WritersKeepApart'
  BY <1>1, <1>2, <1>4 DEF SessionInv, WritersKeepApart, Owned, session
<1> QED
  BY <1>1, <1>3, <1>5, RouteFrame, ReviewFrame DEF SessionInv, session

LEMMA CoderStepKeeps ==
  ASSUME SessionInv, NEW t \in Tasks,
         CoderEnds(t) \/ \E f \in Files : CoderEdits(t, f)
  PROVE  SessionInv'
<1>1. ASSUME NEW f \in Files, CoderEdits(t, f) PROVE SessionInv'
  <2>1. PICK v \in Versions[f] : tree' = [tree EXCEPT ![f] = v]
    BY <1>1 DEF CoderEdits
  <2>2. tree' \in Trees
    <3> DEFINE values == UNION {Versions[g] : g \in Files}
    <3>1. tree \in [Files -> values] /\ \A g \in Files : tree[g] \in Versions[g]
      BY DEF SessionInv, SessionTypeOK, Trees
    <3>2. v \in values
      OBVIOUS
    <3> HIDE DEF values
    <3>3. tree' \in [Files -> values] /\ \A g \in Files : tree'[g] \in Versions[g]
      BY <2>1, <3>1, <3>2
    <3> QED
      BY <3>3 DEF Trees, values
  <2>3. edits' \in 0..MaxEdits
    BY <1>1, SessionAssumption DEF CoderEdits, SessionInv, SessionTypeOK
  <2>4. UNCHANGED <<session, coder, review>>
    BY <1>1 DEF CoderEdits
  <2>5. SessionTypeOK'
    BY <2>2, <2>3, <2>4 DEF SessionInv, SessionTypeOK, session
  <2> QED
    BY <2>4, <2>5, RouteFrame, CoderFrame, ReviewFrame DEF SessionInv, session
<1>2. CASE CoderEnds(t)
  <2>1. /\ UNCHANGED <<tree, edits, session, review>>
        /\ coder' = [coder EXCEPT ![t] = "ended"]
    BY <1>2 DEF CoderEnds
  <2>2. \A u \in Tasks : coder'[u] = IF u = t THEN "ended" ELSE coder[u]
    BY <2>1 DEF SessionInv, SessionTypeOK
  <2>3. SessionTypeOK'
    BY <2>1 DEF SessionInv, SessionTypeOK, session
  <2>4. WritersKeepApart'
    BY <2>1, <2>2 DEF SessionInv, WritersKeepApart, Owned, session
  <2> QED
    BY <2>1, <2>3, <2>4, RouteFrame, ReviewFrame DEF SessionInv, session
<1> QED
  BY <1>1, <1>2

LEMMA DecisionChangesKeeps ==
  ASSUME SessionInv, DecisionChanges
  PROVE  SessionInv'
<1>1. /\ UNCHANGED <<tree, edits, plan, facts, route, coder, review>>
      /\ registry' \in Registries
  BY DEF DecisionChanges
<1>2. SessionTypeOK'
  BY <1>1 DEF SessionInv, SessionTypeOK
<1> QED
  BY <1>1, <1>2, RouteFrame, CoderFrame, ReviewFrame DEF SessionInv

(* The preflight.  Its facts do not change, and its findings only grow.     *)
LEMMA StartPreflightKeeps ==
  ASSUME SessionInv, NEW failed \in SUBSET Commands, StartPreflight(failed)
  PROVE  SessionInv'
<1>1. /\ UNCHANGED <<tree, edits, session, coder>> /\ facts # None
      /\ review' = [facts |-> facts, failed |-> failed, results |-> << >>,
                    seen |-> [a \in Analyzers |-> None],
                    protos |-> CandidateProtos(facts) \union FailureProtos(failed)]
  BY DEF StartPreflight
<1>2. /\ review'.facts = facts /\ review'.failed = failed
      /\ review'.results = << >> /\ review'.seen = [a \in Analyzers |-> None]
      /\ review'.protos = CandidateProtos(facts) \union FailureProtos(failed)
      /\ DOMAIN review' = {"facts", "failed", "results", "seen", "protos"}
  BY <1>1
<1>3. DOMAIN review'.results = {}
  BY <1>2
<1>4. SessionTypeOK'
  BY <1>1, <1>2, <1>3 DEF SessionInv, SessionTypeOK, session
<1>5. OfAWorktree(facts)
  BY <1>1 DEF SessionInv, SessionTypeOK, OfAWorktree
<1>6. \A p \in CandidateProtos(facts) \union FailureProtos(failed) : Explained(p)
  BY DEF CandidateProtos, FailureProtos, Proto, Explained
<1>7. ReviewHolds'
  <2>1. OfAWorktree(review.facts)'
    BY <1>1, <1>2, <1>5 DEF OfAWorktree, session
  <2>2. (\A a \in Analyzers : Kept(a))'
    BY <1>2 DEF Kept
  <2> QED
    BY <1>2, <1>3, <1>6, <2>1, <2>2 DEF ReviewHolds, Explained
<1> QED
  BY <1>1, <1>4, <1>7, RouteFrame, CoderFrame DEF SessionInv, session

(* One analyzer's turn: what it adds must be explained, a hard failure of a *)
(* configured one added, and all it saw.                                   *)
LEMMA TurnKeeps ==
  ASSUME SessionInv, review # None, NEW a \in Analyzers, NEW result, NEW added,
         UNCHANGED <<tree, edits, session, coder>>,
         DOMAIN review' = DOMAIN review,
         review'.facts = review.facts, review'.failed = review.failed,
         review'.results = With(a, result),
         review'.protos = review.protos \union added,
         \A p \in added : Explained(p),
         a \in Configured /\ result.reason = "error" => HardFailure(a) \in added,
         \/ review'.seen = review.seen
         \/ /\ review'.seen = [review.seen EXCEPT ![a] = tree]
            /\ Output(a) \subseteq added
  PROVE  SessionInv'
<1>1. DOMAIN With(a, result) = DOMAIN review.results \union {a}
  BY DEF With
<1>2. SessionTypeOK'
  BY <1>1 DEF SessionInv, SessionTypeOK, session
<1>3. OfAWorktree(review.facts)'
  BY DEF SessionInv, ReviewHolds, OfAWorktree, session
<1>4. FailureProtos(review'.failed) \subseteq review'.protos
  BY DEF SessionInv, ReviewHolds
<1>5. \A p \in review'.protos : Explained(p)
  BY DEF SessionInv, ReviewHolds
<1>6. ASSUME NEW b \in Configured \intersect DOMAIN review'.results,
             review'.results[b].reason = "error"
      PROVE  HardFailure(b) \in review'.protos
  BY <1>1, <1>6 DEF SessionInv, ReviewHolds, With
<1>7. ASSUME NEW b \in Analyzers PROVE Kept(b)'
  <2>1. Scanned(b)' = Scanned(b)
    BY DEF Scanned
  <2>2. CASE review'.seen[b] = review.seen[b]
    BY <2>1, <2>2 DEF SessionInv, ReviewHolds, Kept
  <2>3. CASE review'.seen[b] # review.seen[b]
    <3>1. b = a /\ review'.seen[a] = tree /\ Output(a) \subseteq added
      BY <2>3 DEF SessionInv, SessionTypeOK
    <3>2. ASSUME NEW f \in Scanned(a), NEW l \in Flaws[a][tree[f]]
          PROVE  Proto(a, f, l, Text[a], Severity[a], Unsaid) \in Output(a)
      BY DEF Output
    <3> QED
      BY <2>1, <3>1, <3>2 DEF Kept
  <2> QED
    BY <2>2, <2>3
<1>8. ReviewHolds'
  BY <1>3, <1>4, <1>5, <1>6, <1>7 DEF ReviewHolds, Explained
<1> QED
  BY <1>2, <1>8, RouteFrame, CoderFrame DEF SessionInv, session

LEMMA AnalyzerStepKeeps ==
  ASSUME SessionInv, NEW a \in Analyzers,
         SkipAnalyzer(a) \/ AnalyzerFails(a) \/ AnalyzerBabbles(a) \/ AnalyzerRuns(a)
  PROVE  SessionInv'
<1>1. review # None /\ UNCHANGED <<tree, edits, session, coder>>
  BY DEF SkipAnalyzer, AnalyzerFails, AnalyzerBabbles, AnalyzerRuns, Turn
<1>2. /\ DOMAIN review = {"facts", "failed", "results", "seen", "protos"}
      /\ review.seen \in [Analyzers -> Trees \union {None}]
  BY <1>1 DEF SessionInv, SessionTypeOK
<1>3. ASSUME NEW result, result.reason # "error",
             review' = [review EXCEPT !.results = With(a, result)]
      PROVE  SessionInv'
  <2> DEFINE added == {}
  <2>1. /\ \A p \in added : Explained(p)
        /\ review.protos = review.protos \union added
    OBVIOUS
  <2> HIDE DEF added
  <2>2. /\ DOMAIN review' = DOMAIN review
        /\ review'.facts = review.facts /\ review'.failed = review.failed
        /\ review'.results = With(a, result) /\ review'.seen = review.seen
        /\ review'.protos = review.protos \union added
    BY <1>2, <1>3, <2>1
  <2> QED
    BY <1>1, <1>3, <2>1, <2>2, TurnKeeps
<1>4. CASE SkipAnalyzer(a)
  <2> DEFINE result == [state |-> "skipped", reason |-> "skipped", count |-> 0]
  <2>1. result.reason # "error"
    OBVIOUS
  <2>2. review' = [review EXCEPT !.results = With(a, result)]
    BY <1>4 DEF SkipAnalyzer
  <2> QED
    BY <1>3, <2>1, <2>2
<1>5. CASE AnalyzerBabbles(a)
  <2>1. PICK result \in {[state |-> "failed", reason |-> "parse", count |-> 0],
                         [state |-> "ran", reason |-> "none", count |-> 0]} :
          review' = [review EXCEPT !.results = With(a, result)]
    BY <1>5 DEF AnalyzerBabbles
  <2>2. result.reason # "error"
    OBVIOUS
  <2> QED
    BY <1>3, <2>1, <2>2
<1>6. CASE AnalyzerFails(a)
  <2> DEFINE result == [state |-> "failed", reason |-> "error", count |-> 0]
             added == IF a \in Configured THEN {HardFailure(a)} ELSE {}
  <2>1. review' = [review EXCEPT !.results = With(a, result),
                                 !.protos = @ \union added]
    BY <1>6 DEF AnalyzerFails
  <2>2. /\ \A p \in added : Explained(p)
        /\ a \in Configured => HardFailure(a) \in added
    <3>1. HardFailure(a).attributable = TRUE /\ HardFailure(a).file = NoFile
      BY DEF HardFailure, Proto
    <3>2. Explained(HardFailure(a))
      BY <3>1 DEF Explained
    <3> QED
      BY <3>2
  <2> HIDE DEF result, added
  <2>3. /\ DOMAIN review' = DOMAIN review
        /\ review'.facts = review.facts /\ review'.failed = review.failed
        /\ review'.results = With(a, result) /\ review'.seen = review.seen
        /\ review'.protos = review.protos \union added
    BY <1>2, <2>1
  <2> QED
    BY <1>1, <2>2, <2>3, TurnKeeps
<1>7. CASE AnalyzerRuns(a)
  <2> DEFINE result == [state |-> "ran", reason |-> "none",
                        count |-> Cardinality(Output(a))]
  <2>1. review' = [review EXCEPT !.results = With(a, result), !.seen[a] = tree,
                                 !.protos = @ \union Output(a)]
    BY <1>7 DEF AnalyzerRuns
  <2>2. result.reason # "error"
    OBVIOUS
  <2>3. \A p \in Output(a) : Explained(p)
    BY ProtoFields DEF Output, Explained
  <2> HIDE DEF result
  <2>4. /\ DOMAIN review' = DOMAIN review
        /\ review'.facts = review.facts /\ review'.failed = review.failed
        /\ review'.results = With(a, result)
        /\ review'.seen = [review.seen EXCEPT ![a] = tree]
        /\ review'.protos = review.protos \union Output(a)
    BY <1>2, <2>1
  <2> QED
    BY <1>1, <2>2, <2>3, <2>4, TurnKeeps
<1> QED
  BY <1>4, <1>5, <1>6, <1>7

(* A preflight that breaks off has nothing to answer for. *)
LEMMA AnalyzerBreaksKeeps ==
  ASSUME SessionInv, NEW a \in Analyzers, AnalyzerBreaks(a)
  PROVE  SessionInv'
<1>1. UNCHANGED <<tree, edits, session, coder>> /\ review' = None
  BY DEF AnalyzerBreaks
<1>2. SessionTypeOK' /\ ReviewHolds'
  BY <1>1 DEF SessionInv, SessionTypeOK, ReviewHolds, session
<1> QED
  BY <1>1, <1>2, RouteFrame, CoderFrame DEF SessionInv, session

LEMMA SessionStep == SessionInv /\ [Next]_vars => SessionInv'
<1> SUFFICES ASSUME SessionInv, [Next]_vars PROVE SessionInv'
  OBVIOUS
<1>1. CASE UNCHANGED vars
  <2>1. SessionTypeOK'
    BY <1>1 DEF vars, session, SessionInv, SessionTypeOK
  <2> QED
    BY <1>1, <2>1, RouteFrame, CoderFrame, ReviewFrame DEF vars, session, SessionInv
<1>2. CASE Next
  <2>1. CASE \E t \in Tasks, mapped \in {{}, Constraints} :
               \E paths \in PathLists(t) : ValidatePacket(t, paths, mapped)
    BY <2>1, ValidatePacketKeeps
  <2>2. CASE \E t \in Tasks : Spawn(t)
    BY <2>2, SpawnKeeps
  <2>3. CASE \/ \E t \in Tasks, f \in Files : CoderEdits(t, f)
             \/ \E t \in Tasks : CoderEnds(t)
    BY <2>3, CoderStepKeeps
  <2>4. CASE \E failed \in SUBSET Commands : StartPreflight(failed)
    BY <2>4, StartPreflightKeeps
  <2>5. CASE \E a \in Analyzers : SkipAnalyzer(a) \/ AnalyzerFails(a)
                                  \/ AnalyzerBabbles(a) \/ AnalyzerRuns(a)
    BY <2>5, AnalyzerStepKeeps
  <2>6. CASE \E a \in Analyzers : AnalyzerBreaks(a)
    BY <2>6, AnalyzerBreaksKeeps
  <2> QED
    BY <1>2, <2>1, <2>2, <2>3, <2>4, <2>5, <2>6, CollectFactsKeeps, RouteContextKeeps,
       DecisionChangesKeeps DEF Next
<1> QED
  BY <1>1, <1>2
-----------------------------------------------------------------------------
(* What the invariant gives.                                               *)
LEMMA BlockersFromInv == SessionInv => MachineBlockersStand
<1> SUFFICES ASSUME SessionInv, Done PROVE MachineBlockersStand
  BY DEF MachineBlockersStand
<1> DEFINE report == Report
<1>1. /\ review # None
      /\ FailureProtos(review.failed) \subseteq review.protos
      /\ \A a \in Configured \intersect DOMAIN review.results :
           review.results[a].reason = "error" => HardFailure(a) \in review.protos
  BY DEF Done, SessionInv, ReviewHolds
<1>2. ASSUME NEW p \in review.protos
      PROVE  \E x \in report :
               /\ x.file = p.file /\ x.line = p.line /\ x.text = p.text
               /\ p.source \in x.sources
               /\ Rank(p.severity) <= Rank(x.severity)
               /\ x.attributable = Attributable(p, review.facts)
  BY MergedKeeps DEF Report
<1>3. ASSUME NEW p \in review.protos, p.severity = "HIGH", p.attributable = TRUE
      PROVE  \E x \in report :
               x.text = p.text /\ Rank(x.severity) >= Rank("HIGH") /\ x.attributable
  <2>1. PICK x \in report : /\ x.text = p.text
                            /\ Rank(p.severity) <= Rank(x.severity)
                            /\ x.attributable = Attributable(p, review.facts)
    BY <1>2
  <2>2. Rank(x.severity) >= Rank("HIGH")
    BY <1>3, <2>1, RankRange
  <2>3. x.attributable
    BY <1>3, <2>1, SessionAssumption DEF Attributable
  <2> QED
    BY <2>1, <2>2, <2>3
<1>4. ASSUME NEW c \in review.failed
      PROVE  \E x \in report :
               x.text = c /\ Rank(x.severity) >= Rank("HIGH") /\ x.attributable
  <2> DEFINE p == Proto("verification", NoFile, 0, c, "HIGH", TRUE)
  <2>1. p \in review.protos
    BY <1>1 DEF FailureProtos
  <2>2. p.severity = "HIGH" /\ p.attributable = TRUE /\ p.text = c
    BY DEF Proto
  <2> HIDE DEF p
  <2> QED
    BY <1>3, <2>1, <2>2
<1>5. ASSUME NEW a \in Configured, review.results[a].reason = "error"
      PROVE  \E x \in report :
               x.text = a /\ Rank(x.severity) >= Rank("HIGH") /\ x.attributable
  <2>1. HardFailure(a) \in review.protos
    BY <1>1, <1>5, SessionAssumption DEF Done
  <2>2. /\ HardFailure(a).severity = "HIGH" /\ HardFailure(a).attributable = TRUE
        /\ HardFailure(a).text = a
    BY DEF HardFailure, Proto
  <2> QED
    BY <1>3, <2>1, <2>2
<1>6. ASSUME NEW p \in review.protos
      PROVE  \E x \in report : /\ Place(x) = Place(p) /\ p.source \in x.sources
                               /\ Rank(p.severity) <= Rank(x.severity)
  BY <1>2 DEF Place
<1> HIDE DEF report
<1> QED
  BY <1>4, <1>5, <1>6 DEF MachineBlockersStand, report

LEMMA AttributionFromInv == SessionInv => AttributionIsRight
<1> SUFFICES ASSUME SessionInv, Done,
                    NEW a \in Analyzers, review.seen[a] # None,
                    NEW f \in Files,
                    review.seen[a][f] = review.facts.tree[f],
                    NEW l \in Flaws[a][review.seen[a][f]]
             PROVE  (\E x \in Report :
                       x.attributable /\ x.file = f /\ x.line = l /\ a \in x.sources)
                    <=> IF l = 0 THEN review.seen[a][f] # Base[f]
                                 ELSE l \in Changed[review.seen[a][f]]
  BY DEF AttributionIsRight
<1> DEFINE content == review.seen[a][f]
           owed == IF l = 0 THEN content # Base[f] ELSE l \in Changed[content]
<1>1. /\ review # None /\ OfAWorktree(review.facts) /\ Kept(a)
      /\ \A p \in review.protos : Explained(p)
      /\ review.seen[a] \in Trees
  BY DEF Done, SessionInv, ReviewHolds, SessionTypeOK
<1>2. PICK t \in Trees, listing \in {<< >>, plan.listing} :
        review.facts = FactsOf(t, listing)
  BY <1>1 DEF OfAWorktree
<1>3. content = t[f] /\ content \in Versions[f]
  <2>1. review.facts.tree = t
    BY <1>2, FactsFields
  <2>2. t[f] \in Versions[f]
    BY DEF Trees
  <2> QED
    BY <2>1, <2>2
<1>4. l \in Nat
  BY <1>3, SessionAssumption
<1>5. ASSUME NEW p, p.file = f, p.line = l, p.attributable = Unsaid
      PROVE  Attributable(p, review.facts) <=> owed
  BY <1>2, <1>3, <1>4, <1>5, AttributedOnFacts DEF Attributable
<1>6. ASSUME NEW x \in Report, x.attributable, x.file = f, x.line = l PROVE owed
  <2>1. PICK p \in review.protos :
          /\ x.file = p.file /\ x.line = p.line
          /\ x.attributable = Attributable(p, review.facts)
    BY MergedAddsNothing DEF Report
  <2>2. p.attributable = Unsaid
    BY <1>1, <1>6, <2>1, SessionAssumption DEF Explained
  <2> QED
    BY <1>5, <1>6, <2>1, <2>2
<1>7. ASSUME owed
      PROVE  \E x \in Report :
               x.attributable /\ x.file = f /\ x.line = l /\ a \in x.sources
  <2> DEFINE p == Proto(a, f, l, Text[a], Severity[a], Unsaid)
  <2>1. content # Base[f]
    BY <1>7, SessionAssumption
  <2>2. f \in Touched(t)
    BY <1>3, <2>1 DEF Touched
  <2>3. f \in Scanned(a)
    <3>1. CASE a \in WholeRepo
      BY <3>1 DEF Scanned
    <3>2. CASE a \notin WholeRepo /\ a \notin OnDependency
      BY <1>2, <2>2, <3>2, FactsFields DEF Scanned, RunFiles
    <3>3. CASE a \notin WholeRepo /\ a \in OnDependency
      <4>1. f \in DependencyFiles
        BY <1>3, <3>3, SessionAssumption
      <4> QED
        BY <1>2, <2>2, <3>3, <4>1, FactsFields DEF Scanned, RunFiles
    <3> QED
      BY <3>1, <3>2, <3>3
  <2>4. p \in review.protos
    BY <1>1, <2>3 DEF Kept
  <2>5. p.source = a /\ p.file = f /\ p.line = l /\ p.attributable = Unsaid
    BY DEF Proto
  <2> HIDE DEF p
  <2>6. PICK x \in Report :
          /\ x.file = p.file /\ x.line = p.line /\ p.source \in x.sources
          /\ x.attributable = Attributable(p, review.facts)
    BY <2>4, MergedKeeps DEF Report
  <2> QED
    BY <1>5, <1>7, <2>5, <2>6
<1>8. CASE owed
  BY <1>7, <1>8
<1>9. CASE ~ owed
  BY <1>6, <1>9
<1> QED
  BY <1>8, <1>9

LEMMA SessionInvariant == Spec => []SessionInv
  BY SessionInitially, SessionStep, PTL DEF Spec

(* Facts are those of a worktree, and a preflight keeps its shape.         *)
THEOREM SessionTypeCorrect == Spec => []SessionTypeOK
<1>1. SessionInv => SessionTypeOK
  BY DEF SessionInv
<1> QED
  BY <1>1, SessionInvariant, PTL

(* attribute, finalize_finding and deduplicate (review_preflight.py):       *)
(* AttributionIsRight for every set of analyzers.                          *)
THEOREM AttributionHolds == Spec => []AttributionIsRight
  BY AttributionFromInv, SessionInvariant, PTL

(* run_preflight: MachineBlockersStand, whatever the analyzers say and in   *)
(* whatever order they do.                                                 *)
THEOREM BlockersHold == Spec => []MachineBlockersStand
  BY BlockersFromInv, SessionInvariant, PTL

(* _g4_execution: WritersKeepApart for any number of tasks.                *)
THEOREM WritersHold == Spec => []WritersKeepApart
<1>1. SessionInv => WritersKeepApart
  BY DEF SessionInv
<1> QED
  BY <1>1, SessionInvariant, PTL

(* _g2_risk and verification_tier: RiskIsVerified.                         *)
THEOREM RiskHolds == Spec => []RiskIsVerified
<1>1. SessionInv => RiskIsVerified
  BY DEF SessionInv
<1> QED
  BY <1>1, SessionInvariant, PTL

(* _compute_write_set_overlap and _validate_overlap_semantics:              *)
(* RoutableWhenOrdered.                                                    *)
THEOREM RoutableHolds == Spec => []RoutableWhenOrdered
<1>1. SessionInv => RoutableWhenOrdered
  BY DEF SessionInv
<1> QED
  BY <1>1, SessionInvariant, PTL
=============================================================================
