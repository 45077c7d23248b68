SPECIFICATION Spec
CONSTANTS
  w1 = w1  w2 = w2  t1 = t1  t2 = t2  old = old
  Writers <- TwoWriters
  TmpNames <- TwoNames
  Dst = dst
  Initial = old
  None = none
  Chunks = 2
  FreshSuffix = FALSE
  LateWriteErrors = TRUE
INVARIANT TypeOK
INVARIANT NoTornDst
INVARIANT LitterHasACause
PROPERTY ReplacesAtomically
CHECK_DEADLOCK FALSE
