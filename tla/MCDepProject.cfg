CONSTANTS
  a = a  b = b  c = c
  Any = Any  None = None  Root = Root
  Names = {a, b, c}
  MaxVersion = 2
  MaxCommands = 4
  MaxDepth = 5
  Commands = {"add", "remove", "upgrade", "update", "build", "frozen", "edit"}
  Constraints <- AllConstraints
  Worlds <- AllWorlds
  Flat = {a}
SPECIFICATION FairSpec
INVARIANT GraphIsClosed
PROPERTIES FrozenAcceptsBuild FreshAddRollsBack CommandsEnd
CHECK_DEADLOCK FALSE
