SPECIFICATION Spec
CONSTANTS
    U32 = 4
    WordMax = 7
    WordSize = 1
    StackLimit = 2
    MemLimit = 1
    MaxDepth = 1
    Codes <- OpCodes
    Messages <- OpMessages
    HostResults = {}
    CallData = {6}
    BlockNumber = 5
    MaxRuns = 1
INVARIANTS
    TablesAgree
    MeteredExactly
PROPERTIES
    HeightsMatchTable
CHECK_DEADLOCK FALSE
