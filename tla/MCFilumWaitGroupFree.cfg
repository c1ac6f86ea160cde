CONSTANTS
  Units = {u1, u2}
  Waiters = {w1, w2}
  FreeContract = "parked"
SPECIFICATION Spec
INVARIANT WaitersOutBeforeFree
CHECK_DEADLOCK FALSE
