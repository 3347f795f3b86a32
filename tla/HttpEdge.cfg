SPECIFICATION Spec
CONSTANTS
  Requests = {r1, r2}
  Keys = {k}
  Window = 2
  Limit = 1
  Buckets = {1}
  MaxClock = 3
INVARIANTS
  SuccessIsTrue
  MetricsAgree
  WindowLimit
PROPERTIES
  RetryAfterHonoured
CHECK_DEADLOCK FALSE
