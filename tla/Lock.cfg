SPECIFICATION FairSpec
CONSTANTS
  Procs = {p1, p2, p3}
  NoProc = nobody
  SeqLimit = 100
  MaxNodes = 4
  MaxCalls = 3
  MaxLosses = 2
  MaxExpiries = 1
CONSTANTS
  p1 = p1
  p2 = p2
  p3 = p3
CHECK_DEADLOCK FALSE
INVARIANTS
  LockInv
  MutualExclusion
  OneLiveHolder
  NoHerd
  OneNodePerCall
  NodesAccountedFor
PROPERTIES
  ImplementsMutex
  LockReturns
