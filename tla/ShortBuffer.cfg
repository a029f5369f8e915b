SPECIFICATION Spec
CONSTANTS
  Radix = 4
  Nil = nil
  MaxPath = 1
  HalfRange = 4
  NoError = noError
  NoCall = noCall
  Setups <- Calls
  Replies <- ServerReplies
  Askings <- WordsAsked
CHECK_DEADLOCK FALSE
INVARIANT ShortBufferIsError
