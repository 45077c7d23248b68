SPECIFICATION TasksSpec
CONSTANTS
  Commands <- MCHttpOnly
  Busy = {}
  SshFails = FALSE
  Conns = {c1}
  NoClient = NoClient
INVARIANT ForwardsStay
CHECK_DEADLOCK FALSE
