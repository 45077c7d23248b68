SPECIFICATION FairSpec
CONSTANTS
  m1 = m1  m2 = m2  c1 = c1  c2 = c2
  Masters <- TwoMasters
  Clients <- TwoClients
  None = none
  Wishes <- MCWishes
INVARIANT Reachable
INVARIANT LeftoverHasACause
PROPERTY ByeEndsMaster
PROPERTY EveryClientEnds
CHECK_DEADLOCK FALSE
