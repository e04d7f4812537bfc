SPECIFICATION Spec
CONSTANTS
  Threads = {t1, t2}
  Cached = {c1, c2}
  Pool = {p1, p2, p3, p4}
  NoThread = NoThread
  MaxCalls = 3
  MaxBatch = 2
  MaxMarker = 2
SYMMETRY Symmetry
INVARIANTS
  TypeOK
  NodeOnce
  BatchesInOrder
  MarkerProtects
PROPERTIES
  ImplementsOutQueue
