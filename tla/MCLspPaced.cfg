CONSTANTS
  m = m  a = a  m1 = m1  m2 = m2  a1 = a1  a2 = a2  ax = ax
  None = None
  Empty = Empty
  Docs = {m, a}
  TextsOf <- DropTexts
  ImportsOf <- DropImports
  Crashing = {}
  Ops = {"open", "change", "save", "close", "external", "config"}
  Paced = TRUE
  Batched = TRUE
  Asked = {}
  MaxActs = 6
  MaxTasks = 4
SPECIFICATION RequestSpec
INVARIANT SettledShowsFresh
CHECK_DEADLOCK FALSE
