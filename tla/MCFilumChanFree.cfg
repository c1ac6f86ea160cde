CONSTANTS
  Threads = {t1, t2}
  Values = {a}
  Garbage = Garbage
  RequestedCap = 1
  MaxSends = 2
  FreeContract = "parked"
SPECIFICATION Spec
INVARIANT BlockedCallsReturnBeforeFree
CHECK_DEADLOCK FALSE
