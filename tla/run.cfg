SPECIFICATION FairSpec
CONSTANTS
  k1 = k1
  k2 = k2
  None = None
  MaxDepth = 2
  Meets <- AnyOfThese
INVARIANT ExpandsInPlace
INVARIANT BlockOwnsItsLines
INVARIANT OffersOnlyToKnown
INVARIANT AuthUsesWhatItHas
INVARIANT NothingSkipped
PROPERTY Settles
CHECK_DEADLOCK FALSE
