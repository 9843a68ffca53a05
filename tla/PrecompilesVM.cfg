SPECIFICATION Spec
CONSTANTS
    MaxGas = 31
    MaxSize = 63
    BaseGas = 5
    WordGas = 3
    WordSize = 2
    Gases = {0, 4, 5, 7, 8, 9, 10, 11, 28, 29, 30, 31}
    Sizes = {0, 1, 2, 3, 4, 15, 16, 17, 18, 19, 20, 21, 22, 31, 32, 61, 62, 63}
INVARIANTS
    PaysExactly
PROPERTIES
    ImplementsMetered
