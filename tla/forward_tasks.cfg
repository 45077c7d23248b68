SPECIFICATION TasksFairSpec
CONSTANTS
  Commands <- MCCommands
  Busy = {3}
  SshFails = TRUE
  Conns = {c1, c2}
  NoClient = NoClient
PROPERTY FailuresPassOn
PROPERTY NoClientForgotten
PROPERTY ListenerSurvives
CHECK_DEADLOCK FALSE
