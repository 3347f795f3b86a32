SPECIFICATION FairSpec
CONSTANTS
  Orders = {o1}
  Skus = {sku}
  Demand <- MCDemand
  Initial <- MCInitial
  MaxFaults = 0
PROPERTIES
  PaidIsSettled
CHECK_DEADLOCK FALSE
