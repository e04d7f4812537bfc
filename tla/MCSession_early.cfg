SPECIFICATION Spec
CONSTANTS
  Threads = {t1, t2}
  MaxCalls = 1
  MaxBacklog = 0
  EarlyAccess = TRUE
PROPERTIES
  ClosedIsFinal
