SPECIFICATION FairSpec
CONSTANTS
  Messages = {m1, m2}
  MaxFaults = 2
INVARIANTS
  AckedIsHandled
  OnlyOnce
  DeadForCause
PROPERTIES
  Stops
  SettledIfConnected
