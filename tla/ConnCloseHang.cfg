SPECIFICATION FairSpec
CONSTANTS
  Reqs = {a1}
  AuthReqs = {a1}
  Oversized = {}
  CloseReq = close
  NoReq = none
  NumServers = 1
  SendChanSize = 1
  MaxFaults = 2
  AllowClose = TRUE
CONSTANTS
  a1 = a1
CHECK_DEADLOCK FALSE
PROPERTY CloseEndsLoop
