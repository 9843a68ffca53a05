SPECIFICATION Spec
CONSTANTS
    Digits = {0, 9, 15}
    x = x
    X = X
    Space = Space
    Prefix = Prefix
    MaxLength = 5
    Size = 1
INVARIANTS
    WritesInBounds
    Decodes
CHECK_DEADLOCK FALSE
