CONSTANTS
  Threads = {t1, t2, t3}
  Values = {a, b}
  Garbage = Garbage
  RequestedCap = 2
  MaxSends = 3
  FreeContract = "quiescent"
SPECIFICATION FairSpec
INVARIANTS FifoDelivery NoLostWakeup EndMeansDrained
PROPERTIES ImplementsFifo ClosedCallsReturn NoStuckChannel
CHECK_DEADLOCK FALSE
