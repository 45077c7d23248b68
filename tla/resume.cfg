SPECIFICATION FairSpec
CONSTANTS
  Scripts <- AnyOrder
  ConnMayDrop = TRUE
  MasterMayStop = TRUE
INVARIANT EarlyStatusReported
INVARIANT ResumeKeepsOutput
PROPERTY ResumeEnds
CHECK_DEADLOCK FALSE
