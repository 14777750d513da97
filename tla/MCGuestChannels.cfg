SPECIFICATION Spec
CONSTANTS
  Index = {0, 1}
  Wild = Wild
  Declared <- MCDeclared
  MaxChannels = 4
  PruneMin = 2
INVARIANTS
  Mirrored
CHECK_DEADLOCK FALSE
