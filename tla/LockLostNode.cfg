SPECIFICATION Spec
CONSTANTS
  Procs = {p1, p2}
  NoProc = nobody
  SeqLimit = 100
  MaxNodes = 2
  MaxCalls = 2
  MaxLosses = 0
  MaxExpiries = 1
CONSTANTS
  p1 = p1
  p2 = p2
SYMMETRY Swaps
CHECK_DEADLOCK FALSE
PROPERTY AcquireHasNode
