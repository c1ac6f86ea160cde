CONSTANTS
  NoLabel = NoLabel
  outer = outer
  Budgets <- Leaving
  LoopLabels = {outer}
  Conds = {"dyn"}
  Mixed = {}
  MaxStmts = 5
  MaxDepth = 5
  MaxTests = 4
SPECIFICATION Spec
INVARIANTS ReleasesInnermostFirst
CHECK_DEADLOCK FALSE
