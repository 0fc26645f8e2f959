\* Two requests at once, with and without Redis, over the life of a few tokens.
CONSTANTS
    first = first
    second = second
    Request = {first, second}
    Life = 2
    MaxTokens = 3
    MaxTime = 4
SYMMETRY Symmetry
SPECIFICATION Spec
INVARIANTS
    SpentOnce
PROPERTIES
    RevocationHolds
CHECK_DEADLOCK FALSE
