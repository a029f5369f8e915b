SPECIFICATION Spec
CONSTANTS
  Radix = 4
  Nil = nil
  MaxPath = 6
  HalfRange = 4
  NoError = noError
  NoCall = noCall
  Setups <- Calls
  Replies <- ServerReplies
  Askings <- WordsAsked
CHECK_DEADLOCK FALSE
INVARIANTS
  PathsJudged
  SentIfItFits
  RequestFaithful
  ReplyFaithful
  TroubleFlagged
  StatsTold
