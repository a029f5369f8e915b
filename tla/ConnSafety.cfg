SPECIFICATION Spec
CONSTANTS
  Reqs = {a1, a2}
  AuthReqs = {a1, a2}
  Oversized = {}
  CloseReq = close
  NoReq = none
  NumServers = 3
  SendChanSize = 2
  MaxFaults = 2
  AllowClose = TRUE
CONSTANTS
  a1 = a1
  a2 = a2
SYMMETRY Credentials
CHECK_DEADLOCK FALSE
INVARIANTS
  TypeOK
  NoLostRequest
  OutcomeIsTrue
  NeverResent
  ConnectionsDoNotMix
  AnswerSlotFree
  CleanExit
  OneWriter
  ReauthBeforeRequests
PROPERTY ImplementsRpc
