SPECIFICATION ServiceSpec
CONSTANTS
  Threads = {t1, t2}
  NoThread = NoThread
  MaxId = 2
  MaxScans = 2
SYMMETRY ThreadSymmetry
CHECK_DEADLOCK FALSE
INVARIANTS
  ServiceTypeOK
  HeldIsRegistered
  CompleteScan
  AcceptorListens
  ConnectCalledOnce
  ClosesWithHandler
PROPERTIES
  NoResurrection
