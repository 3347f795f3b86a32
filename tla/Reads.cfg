SPECIFICATION Spec
CONSTANTS
  Items <- MCItems
  Limits = {1, 2, 3}
  MaxLimit = 2
  Millisecond = 2
  MaxRows = 4
  MaxClock = 3
INVARIANTS
  NoneSkipped
  RepeatedForCause
  TotalsClose
CHECK_DEADLOCK FALSE
