SPECIFICATION FairSpec
CONSTANTS
  Orders = {o1, o2}
  Replicas = {r1, r2}
  BatchSize = 2
  MaxRows = 3
  MaxFaults = 3
INVARIANTS
  MarkedIsSent
  FirstSentInOrder
PROPERTIES
  ImplementsRelay
  EveryEventSent
CHECK_DEADLOCK FALSE
