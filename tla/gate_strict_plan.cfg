\* a plan that declares scenarios and constraints, and may change
SPECIFICATION Spec
CONSTANTS
  None = None
  Wrong = Wrong
  t1 = t1
  f1 = f1
  f2 = f2
  Tasks = {t1}
  Agents = {a1}
  Decisions = {}
  Files = {f1}
  Tracked = {f1}
  PlanTexts = {plan, replan}
  Spans = {0, 1}
  MaxContent = 1
  CacheTTL = 0
  UseCache = FALSE
  ReviewVerdicts = {"ship"}
  VerifyExits = {"zero", "nonzero"}
  PlanFlags <- StrictPlan
  WriteSet <- MCWriteSet
  Ranges <- MCRanges
  SpanOf <- DistinctSpans
SYMMETRY AgentSymmetry
PROPERTY CompletionIsFresh
