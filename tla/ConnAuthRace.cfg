SPECIFICATION Spec
CONSTANTS
  Reqs = {a1}
  AuthReqs = {a1}
  Oversized = {}
  CloseReq = close
  NoReq = none
  NumServers = 2
  SendChanSize = 1
  MaxFaults = 1
  AllowClose = FALSE
CONSTANTS
  a1 = a1
CHECK_DEADLOCK FALSE
INVARIANT AuthSurvivesReconnect
