\* small task graphs, two agent slots, one fix for each task
SPECIFICATION FairSpec
CONSTANTS
  None = None
  p = p
  q = q
  Tasks <- MCTasks
  Paths = {p, q}
  Graphs <- MCGraphs
  Capacity = 2
  MaxFix = 1
INVARIANT WritersDisjoint
INVARIANT AncestorsFirst
INVARIANT NeverRejected
INVARIANT CyclesFound
INVARIANT OrderIsTopological
PROPERTY TasksEnd
CHECK_DEADLOCK FALSE
