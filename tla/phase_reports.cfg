\* two tasks, each with two coders that report at most twice
SPECIFICATION Spec
CONSTANTS
  None = None
  Statuses = {"completed"}
  Tasks = {t1, t2}
  MaxRounds = 2
  MaxReports = 2
SYMMETRY TaskSymmetry
INVARIANT OnlyOverlapLosesReports
INVARIANT StaleOnlyWhenDropped
CHECK_DEADLOCK FALSE
