SPECIFICATION SessionSpec
CONSTANTS
  NumServers = 3
  EventChanSize = 2
  MaxSessions = 2
  MaxZxid = 2
CHECK_DEADLOCK FALSE
INVARIANTS
  SessionType
  NewSessionWelcome
  SocketsAccountedFor
  EventsTellState
  RotationInv
  RoundIsBounded
PROPERTIES
  NeverGoesBack
  SessionKept
  RetryStartAfterFullRound
