CONSTANTS
  Units = {u1, u2, u3}
  Waiters = {w1, w2}
  FreeContract = "quiescent"
  Threads = {t1, t2, t3, t4}
  None = None
  Recursive = FALSE
  Nested = TRUE
  WeakMemory = FALSE
  MaxDepth = 2
  IntHalf = 4
  LongHalf = 16
  Initial = 0
SPECIFICATION SyncSpec
INVARIANTS CountsPending RunsOnce
PROPERTIES WaitCoversWork WaitReturns ReturnSeesCallback EveryCallReturns RegisterButForRefusals
CHECK_DEADLOCK FALSE
