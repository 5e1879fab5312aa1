\* prepare, an agent's edits and score, with kills and stale state files
SPECIFICATION Spec
CONSTANTS
  None = None
  Broken = Broken
  Absent = Absent
  Generated = Generated
  src = src
  new = new
  cache = cache
  x = x
  y = y
  make = make
  stay = stay
  Marker = marker
  Files = {src, new, cache, marker}
  Contents = {x, y}
  Cases = {make, stay}
  Fixture <- MCFixture
  Reports <- MCReports
  Similar <- MCSimilar
  VerificationOk <- MCVerificationOk
  MaxPrepares = 2
  MaxEdits = 3
  MaxScores = 2
INVARIANT PassMeansExpected
INVARIANT BlockedPassMeansUntouched
PROPERTY RescoreAgrees
CHECK_DEADLOCK FALSE
