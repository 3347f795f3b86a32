SPECIFICATION Spec
CONSTANTS
  Orders = {o1, o2}
  Skus = {sku}
  Demand <- MCDemand
  Initial <- MCInitial
  MaxFaults = 2
SYMMETRY Symmetry
INVARIANTS
  ConfirmedIsPaid
  ChargedOnce
  RejectedHoldsNothing
PROPERTIES
  NoPaymentTaken
  PaymentsKept
CHECK_DEADLOCK FALSE
