SPECIFICATION Spec
CONSTANTS
  Threads = {t1, t2, t3}
  Objects = {o1, o2}
  Null = null
  MaxOps = 4
SYMMETRY MCSymmetry
INVARIANTS
  TypeOK
  RefsExact
  MutualExclusion
  NoMissedWakeup
PROPERTIES
  ImplementsCell
