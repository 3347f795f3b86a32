SPECIFICATION BreakerFairSpec
CONSTANTS
  Calls = {c1, c2, c3}
  FailureThreshold = 2
  ResetTimeout = 2
  MaxAttempts = 3
INVARIANTS
  LeakBounded
PROPERTIES
  OnlyOutagesOpen
  Recovers
