SPECIFICATION BoundSpec
CONSTANTS
    Values = {0, 1, 2, 3}
    Zero = 0
    GWarm = 1
    GSet = 200
    GReset = 29
    RClear = 150
    Address = {"a", "p"}
    Key = {"k"}
    Precompiles = {"p"}
    InitialAccounts <- Setups
    MaxRecorded = 1
    MaxCalls = 1
    BlockHash = 3
    Blocks = {5}
    Buffers <- CopyRequests
    TopicLists <- LogTopics
    MaxRequests = 5
INVARIANTS
    NetMetered
    RefundsCovered
    ColdOnce
    CallsArrive
PROPERTIES
    AccessSound
    WarmForGood
    StatusDocumented
    ImplementsHostStorage
CHECK_DEADLOCK FALSE
