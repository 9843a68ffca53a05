SPECIFICATION FairSpec
CONSTANTS
    U32 = 32
    WordMax = 63
    WordSize = 1
    StackLimit = 8
    MemLimit = 2
    MaxDepth = 2
    Codes <- CallTrees
    Messages <- CallMessages
    HostResults <- CallHostResults
    CallData = {0}
    BlockNumber = 5
    MaxRuns = 1
INVARIANTS
    GasConserved
    TypeOK
    BuffersReleased
    StaticInherited
PROPERTIES
    StaticPreservesStorage
    ResultContract
    HeightsMatchTable
    ImplementsMetered
    Terminates
CHECK_DEADLOCK FALSE
