CONSTANTS
  NoLabel = NoLabel
  outer = outer
  Budgets <- Voiding
  LoopLabels = {outer}
  Conds = {"dyn"}
  Mixed = {"voidElse"}
  MaxStmts = 5
  MaxDepth = 4
  MaxTests = 3
SPECIFICATION Spec
INVARIANTS DefersRunOnExit
CHECK_DEADLOCK FALSE
