SPECIFICATION Spec
CONSTANTS
  Orders = {o1, o2}
  Keys = {k1, k2}
  Workers = {w1, w2, w3}
SYMMETRY Symmetry
INVARIANTS
  SnapshotCurrent
  JournalAgrees
  OneOrderPerKey
PROPERTIES
  ImplementsLifecycle
