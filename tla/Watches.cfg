SPECIFICATION FairSpec
CONSTANTS
  Calls = {"getW", "existsW", "childrenW"}
  Kind <- KindOfCall
  BatchSize = 2
  MaxZxid = 3
  MaxBreaks = 2
CHECK_DEADLOCK FALSE
INVARIANTS
  TypeOK
  OneEventPerChannel
  WatchesRestored
  ExistenceNeverMissed
  NobodyLeftWaiting
PROPERTY DeletionHeard
