SPECIFICATION FairSpec
CONSTANTS
  Orders = {o1}
  Skus = {sku}
  Demand <- MCDemand
  Initial <- MCInitial
  MaxFaults = 1
PROPERTIES
  LeavesCreated
  StockComesBack
CHECK_DEADLOCK FALSE
