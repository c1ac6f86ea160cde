CONSTANTS
  m = m  a = a  m1 = m1  m2 = m2  a1 = a1  a2 = a2  ax = ax
  None = None
  Empty = Empty
  Docs = {a}
  TextsOf <- SoloTexts
  ImportsOf <- SoloImports
  Crashing = {}
  Ops = {"open", "change", "close"}
  Paced = FALSE
  Batched = FALSE
  Asked = {}
  MaxActs = 4
  MaxTasks = 3
SPECIFICATION RequestSpec
INVARIANT ClosedIsReleased
CHECK_DEADLOCK FALSE
