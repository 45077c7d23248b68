SPECIFICATION StdinSpec
CONSTANTS
  Lengths = {5}
  ReadSize = 3
  None = None
INVARIANT ForwardsAll
INVARIANT DisconnectsAtLineStart
CHECK_DEADLOCK FALSE
