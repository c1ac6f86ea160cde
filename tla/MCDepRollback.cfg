CONSTANTS
  a = a  b = b  c = c
  Any = Any  None = None  Root = Root
  Names = {a, b, c}
  MaxVersion = 2
  MaxCommands = 3
  MaxDepth = 5
  Commands = {"add", "build"}
  Constraints <- AllConstraints
  Worlds <- AllWorlds
  Flat = {}
SPECIFICATION Spec
PROPERTY FailedAddRestoresManifest
CHECK_DEADLOCK FALSE
