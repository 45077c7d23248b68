SPECIFICATION FairSpec
CONSTANTS
  Scripts <- AnyOrder
  ConnMayDrop = TRUE
  Circumstances <- Circumstance
INVARIANT StatusReported
INVARIANT NoOutputLost
PROPERTY SessionEnds
CHECK_DEADLOCK FALSE
