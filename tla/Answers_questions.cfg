SPECIFICATION MCSpec
CONSTANTS
  c1 = c1
  c2 = c2
  word = word
  space = space
  refusal = refusal
  NoCall = NoCall
  Calls = {c1, c2}
  MaxQueue = 1
  Pieces <- MCPieces
  MaxPieces = 4
  MaxRestarts = 1
  HoldBack = 2
  RefusalEnd = refusal
  Blank = space
INVARIANTS
  RefusalHeldBack
  VerdictFitsReply
  ReadStreamsClosed
PROPERTIES
  UsesService
  EveryQuestionEnds
CHECK_DEADLOCK FALSE
