CONSTANTS
  k1 = k1  k2 = k2  k3 = k3  v1 = v1  v2 = v2
  None = None
  Keys <- MCKeys
  Values = {v1, v2}
  Hash <- MCHash
  InitCap = 4
  MaxCap = 4
  Fails = {"table", "put"}
  Disturbing = {"insert", "remove"}
SPECIFICATION Spec
INVARIANT LoopVisitsOnce
SYMMETRY MCSymmetry
