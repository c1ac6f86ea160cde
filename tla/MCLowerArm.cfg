CONSTANTS
  NoLabel = NoLabel
  outer = outer
  Budgets <- InArms
  LoopLabels = {outer}
  Conds = {"dyn"}
  Mixed = {"deferInArm"}
  MaxStmts = 5
  MaxDepth = 4
  MaxTests = 3
SPECIFICATION Spec
INVARIANTS DefersRunOnExit
CHECK_DEADLOCK FALSE
