\* an edit inside lines that already differ from the base
SPECIFICATION Spec
CONSTANTS
  None = None
  Wrong = Wrong
  t1 = t1
  f1 = f1
  f2 = f2
  Tasks = {t1}
  Agents = {a1}
  Decisions = {}
  Files = {f1}
  Tracked = {f1}
  PlanTexts = {plan}
  Spans = {0, 1, 2}
  MaxContent = 2
  CacheTTL = 0
  UseCache = FALSE
  ReviewVerdicts = {"ship", "fix-first"}
  VerifyExits = {"zero", "nonzero"}
  PlanFlags <- PlainPlan
  WriteSet <- MCWriteSet
  Ranges <- MCRanges
  SpanOf <- SameSpans
SYMMETRY AgentSymmetry
PROPERTY CompletionIsFresh
