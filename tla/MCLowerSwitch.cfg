CONSTANTS
  NoLabel = NoLabel
  outer = outer
  Budgets <- Switching
  LoopLabels = {outer}
  Conds = {"dyn"}
  Mixed = {"breakInSwitch"}
  MaxStmts = 5
  MaxDepth = 4
  MaxTests = 3
SPECIFICATION Spec
INVARIANTS DefersRunOnExit
CHECK_DEADLOCK FALSE
