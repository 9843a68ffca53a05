SPECIFICATION RecordsSpec
CONSTANTS
    Hosts = {h1, h2}
    Short = {"s"}
    Long = {"l"}
    Empty = "empty"
    Null = "null"
    Places = {b1, b2, b3, b4, b5, b6}
    MaxRecorded = 2
    ErasersInputs = {"s", "l"}
INVARIANTS
    InputsValid
SYMMETRY Interchangeable
