SPECIFICATION ServiceFairSpec
CONSTANTS
  c1 = c1
  c2 = c2
  c3 = c3
  NoCall = NoCall
  Calls = {c1, c2, c3}
  MaxQueue = 2
  Pieces <- MCPieces
  MaxPieces = 1
  MaxRestarts = 1
INVARIANTS
  PlacesCounted
PROPERTIES
  PlacesAreFreed
CHECK_DEADLOCK FALSE
