SPECIFICATION FairSpec
CONSTANTS
  Reqs = {r1}
  AuthReqs = {}
  Oversized = {}
  CloseReq = close
  NoReq = none
  NumServers = 2
  SendChanSize = 1
  MaxFaults = 1
  AllowClose = TRUE
CONSTANTS
  r1 = r1
CHECK_DEADLOCK FALSE
PROPERTY NoCallHangs
