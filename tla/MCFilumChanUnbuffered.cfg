CONSTANTS
  Threads = {t1, t2}
  Values = {a}
  Garbage = Garbage
  RequestedCap = 0
  MaxSends = 2
  FreeContract = "never"
SPECIFICATION Spec
PROPERTY UnbufferedSendWaits
CHECK_DEADLOCK FALSE
