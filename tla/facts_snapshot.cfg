\* a tracked and an untracked file, edited at any time, three attempts
SPECIFICATION FairSpec
CONSTANTS
  None = None
  f1 = f1
  f2 = f2
  Files = {f1, f2}
  Tracked = {f1}
  Contents <- MCContents
  Fresh = TRUE
 
INVARIANT FailsOnlyWhenDisturbed
PROPERTY CollectionEnds
CHECK_DEADLOCK FALSE
