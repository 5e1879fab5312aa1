\* three commands in a row, every kind of changes file
SPECIFICATION FairSpec
CONSTANTS
  None = None
  Wrong = Wrong
  k1 = k1
  k2 = k2
  v = v
  old = old
  Procs = {p1, p2, p3}
  EventIds = {p1, p2, p3, old}
  Keys = {k1, k2}
  Values = {v}
  Changes <- SequenceChanges
  Legacies <- AllLegacies
  Commands = {"init", "update", "migrate"}
  Exclusive = TRUE
  WritesFail = TRUE
PROPERTY UpdateTouchesOnlyItsKeys
PROPERTY CommandsEnd
CHECK_DEADLOCK FALSE
