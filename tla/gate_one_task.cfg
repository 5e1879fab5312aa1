\* one task, a tracked file and an untracked file nobody owns
SPECIFICATION Spec
CONSTANTS
  None = None
  Wrong = Wrong
  t1 = t1
  f1 = f1
  f2 = f2
  Tasks = {t1}
  Agents = {a1}
  Decisions = {d1}
  Files = {f1, f2}
  Tracked = {f1}
  PlanTexts = {plan}
  Spans = {0, 1}
  MaxContent = 1
  CacheTTL = 0
  UseCache = FALSE
  ReviewVerdicts = {"ship", "fix-first"}
  VerifyExits = {"zero", "nonzero"}
  PlanFlags <- PlainPlan
  WriteSet <- MCWriteSet
  Ranges <- MCRanges
  SpanOf <- DistinctSpans
SYMMETRY AgentSymmetry
INVARIANT GateAgreesWithResume
PROPERTY CompletionIsFresh
PROPERTY CompletionCoversChanges
