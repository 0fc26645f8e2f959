--------------------------- MODULE MCAdminTokens ----------------------------
EXTENDS AdminTokens, TLC

CONSTANTS first, second

Symmetry == Permutations(Request)
=============================================================================
