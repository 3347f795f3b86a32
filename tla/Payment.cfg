SPECIFICATION Spec
CONSTANTS
  Orders = {o1, o2}
  Keys = {k1, k2}
  RefundKeys = {r1, r2}
  Workers = {w1, w2, w3}
SYMMETRY Symmetry
INVARIANTS
  TimelineReplays
  ChargedOnce
  MoneyBacksStatus
  RefundRecordedOnce
PROPERTIES
  ImplementsLedger
