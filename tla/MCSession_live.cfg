SPECIFICATION FairSpec
CONSTANTS
  Threads = {t1, t2}
  MaxCalls = 2
  MaxBacklog = 0
  EarlyAccess = FALSE
PROPERTIES
  GracefulCloseEnds
  BufferAcked
  PromiseSettled
  ClosedIsFreed
