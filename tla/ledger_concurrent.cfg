\* three overlapping commands, any of which may be killed or fail
SPECIFICATION Spec
CONSTANTS
  None = None
  Wrong = Wrong
  k1 = k1
  k2 = k2
  v = v
  old = old
  Procs = {p1, p2, p3}
  EventIds = {p1, p2, p3, old}
  Keys = {k1, k2}
  Values = {v}
  Changes <- PlainChanges
  Legacies <- AllLegacies
  Commands = {"init", "update", "load", "migrate"}
  Exclusive = FALSE
  WritesFail = TRUE
SYMMETRY Symmetry
INVARIANT FileAlwaysValid
INVARIANT MalformedOnlyFromLegacy
INVARIANT OnlyOverlapLosesEvents
PROPERTY StoreRefined
CHECK_DEADLOCK FALSE
