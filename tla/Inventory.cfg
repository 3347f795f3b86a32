SPECIFICATION Spec
CONSTANTS
  o1 = o1
  o2 = o2
  o3 = o3
  w1 = w1
  w2 = w2
  Orders = {o1, o2, o3}
  Skus = {1, 2}
  Demand <- MCDemand
  Initial <- MCInitial
  Workers = {w1, w2}
  Replicas = {r1, r2}
SYMMETRY Symmetry
INVARIANTS
  StockSound
  ReservedIsActive
  LinesTogether
  NoCircleOfReservations
PROPERTIES
  ImplementsLedger
