--------------------------- MODULE MCModelService ---------------------------
EXTENDS ModelService, TLC

CONSTANTS c1, c2, c3

MCPieces == {<<>>}

MCSymmetry == Permutations(Calls)

=============================================================================
