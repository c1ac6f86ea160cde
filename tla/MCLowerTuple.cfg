CONSTANTS
  NoLabel = NoLabel
  outer = outer
  Budgets <- Tupling
  LoopLabels = {outer}
  Conds = {"dyn"}
  Mixed = {"tupleDefer"}
  MaxStmts = 5
  MaxDepth = 4
  MaxTests = 3
SPECIFICATION Spec
INVARIANTS DefersRunOnExit
CHECK_DEADLOCK FALSE
