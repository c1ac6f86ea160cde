CONSTANTS
  m = m  a = a  m1 = m1  m2 = m2  a1 = a1  a2 = a2  ax = ax
  None = None
  Empty = Empty
  Docs = {a}
  TextsOf <- SoloCrashTexts
  ImportsOf <- SoloCrashImports
  Crashing = {ax}
  Ops = {"open", "openDirty", "change", "close", "closeDirty"}
  Paced = FALSE
  Batched = TRUE
  Asked = {}
  MaxActs = 4
  MaxTasks = 3
SPECIFICATION RequestSpec
INVARIANT SettledShowsText
CHECK_DEADLOCK FALSE
