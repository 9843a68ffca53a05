SPECIFICATION BoundSpec
CONSTANTS
    Values = {0, 1}
    Zero = 0
    GWarm = 1
    GSet = 200
    GReset = 29
    RClear = 150
    Address = {"a", "b", "p"}
    Key = {"k"}
    Precompiles = {"p"}
    InitialAccounts <- OneAccountSetups
    MaxRecorded = 2
    MaxCalls = 1
    BlockHash = 1
    Blocks = {5}
    TopicLists = {}
    Buffers <- CopyRequests
    MaxRequests = 4
PROPERTIES
    AccessDocumented
CHECK_DEADLOCK FALSE
