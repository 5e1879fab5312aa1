\* one task from its advisor to its end, with up to two troubles on the way
SPECIFICATION FairSpec
CONSTANTS
  None = None
  Contracts <- MCContracts
  Breaker = 2
  MaxCoders = 6
  MaxTrouble = 2
INVARIANT HonestCallsAccepted
INVARIANT OneWriter
INVARIANT ShipsAgreedContract
INVARIANT BoundedEffort
INVARIANT EscalationTellsHistory
INVARIANT VerdictsAreCurrent
INVARIANT PendingFixHasItsCoder
PROPERTY ParkedUntilDiagnosis
PROPERTY TaskEnds
CHECK_DEADLOCK FALSE
