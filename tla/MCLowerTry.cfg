CONSTANTS
  NoLabel = NoLabel
  outer = outer
  Budgets <- Trying
  LoopLabels = {outer}
  Conds = {"dyn"}
  Mixed = {"tryInFor"}
  MaxStmts = 5
  MaxDepth = 4
  MaxTests = 3
SPECIFICATION Spec
INVARIANTS TemporariesReleased
CHECK_DEADLOCK FALSE
