SPECIFICATION MCSpec
CONSTANTS
  c1 = c1
  c2 = c2
  word = word
  space = space
  refusal = refusal
  NoCall = NoCall
  Calls = {c1}
  MaxQueue = 1
  Pieces <- MCPieces
  MaxPieces = 1
  MaxRestarts = 1
  HoldBack = 2
  RefusalEnd = refusal
  Blank = space
INVARIANTS
  ConnectionsClosed
CHECK_DEADLOCK FALSE
