SPECIFICATION FairSpec
CONSTANTS
  o1 = o1
  o2 = o2
  web = web
  db = db
  lo = lo
  lan = lan
  None = None
  CommandLines <- SpecLists
  Opens <- TwoOpens
  Ephemeral = {9, 80}
  OutputBlocks = 1
  Slots = 1
INVARIANT ReachesItsTarget
PROPERTY EveryOpenAnswered
PROPERTY OutputKeepsFlowing
CHECK_DEADLOCK FALSE
