SPECIFICATION Spec
CONSTANTS
    Results = {r1, r2}
    Structs = {s1, s2}
    VMs = {v1, v2}
    Buffers = {b1, b2, b3}
    Instances = {i1, i2}
    None = None
INVARIANTS
    ReleasedOnce
    DestroyedOnce
PROPERTIES
    OutputKept
