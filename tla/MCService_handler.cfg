SPECIFICATION ServiceSpec
CONSTANTS
  Threads = {t1, t2}
  NoThread = NoThread
  MaxId = 2
  MaxScans = 1
SYMMETRY ThreadSymmetry
CHECK_DEADLOCK FALSE
INVARIANTS
  HandlerPresent
