CONSTANTS
  a = a  b = b  c = c
  Any = Any  None = None  Root = Root
  Names = {a, b, c}
  MaxVersion = 2
  MaxCommands = 4
  MaxDepth = 5
  Commands = {"add", "build", "frozen", "edit"}
  Constraints <- AllConstraints
  Worlds <- AllWorlds
  Flat = {}
SPECIFICATION Spec
PROPERTY FrozenLeavesLib
CHECK_DEADLOCK FALSE
