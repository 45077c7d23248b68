SPECIFICATION Spec
CONSTANTS
  a = a
  s = s
  x = x
  Tmp = Tmp
  None = None
  Names <- Paths
  Nested <- NestedNames
  Locals <- LocalTrees
  Remotes <- RemoteTrees
  Options <- AllOptions
  Saves <- SavedFiles
  Theirs <- TheirFile
INVARIANT MirrorsWhenDone
INVARIANT LossHasACause
INVARIANT LeavesTheRestAlone
CHECK_DEADLOCK FALSE
