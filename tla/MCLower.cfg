CONSTANTS
  NoLabel = NoLabel
  outer = outer
  Budgets <- Programs
  LoopLabels = {outer}
  Conds = {"dyn", "false"}
  Mixed = {}
  MaxStmts = 6
  MaxDepth = 4
  MaxTests = 4
SPECIFICATION Spec
INVARIANTS DefersRunOnExit ErrDefersRunOnFailure TemporariesReleased
CHECK_DEADLOCK FALSE
