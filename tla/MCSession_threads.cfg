SPECIFICATION Spec
CONSTANTS
  Threads = {t1, t2}
  MaxCalls = 3
  MaxBacklog = 1
  EarlyAccess = FALSE
SYMMETRY ThreadSymmetry
INVARIANTS
  TypeOK
  WriteOrder
  SinglePump
  NoLostWakeup
  ClosingAttended
  CloseOnce
  SingleReader
  GracefulFlush
PROPERTIES
  ImplementsOutQueue
  ClosedIsFinal
