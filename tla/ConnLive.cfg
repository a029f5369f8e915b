SPECIFICATION FairSpec
CONSTANTS
  Reqs = {r1, big}
  AuthReqs = {}
  Oversized = {big}
  CloseReq = close
  NoReq = none
  NumServers = 2
  SendChanSize = 1
  MaxFaults = 1
  AllowClose = TRUE
CONSTANTS
  r1 = r1
  big = big
CHECK_DEADLOCK FALSE
PROPERTY CallsReturn
