SPECIFICATION Spec
CONSTANTS
  Calls = {"getW", "existsW"}
  Kind <- KindOfCall
  BatchSize = 2
  MaxZxid = 2
  MaxBreaks = 2
CHECK_DEADLOCK FALSE
INVARIANT NoMissedChange
