\* two tasks, one of them without files, two agents, cached facts
SPECIFICATION Spec
CONSTANTS
  None = None
  Wrong = Wrong
  t1 = t1
  f1 = f1
  f2 = f2
  Tasks = {t1, t2}
  Agents = {a1, a2}
  Decisions = {}
  Files = {f1}
  Tracked = {f1}
  PlanTexts = {plan}
  Spans = {0, 1}
  MaxContent = 1
  CacheTTL = 1
  UseCache = TRUE
  ReviewVerdicts = {"ship"}
  VerifyExits = {"zero"}
  PlanFlags <- PlainPlan
  WriteSet <- MCWriteSet
  Ranges <- MCRanges
  SpanOf <- DistinctSpans
SYMMETRY AgentSymmetry
VIEW WithoutHistory
INVARIANT OneCoderPerTask
PROPERTY NobodyWritesAtCompletion
