SPECIFICATION Spec
CONSTANTS
    Base = 2
    WordBytes = 2
    Words = 2
    Address <- TwoAddresses
    Key <- TwoKeys
    Values <- TwoValues
    History = 30
    BlockNumber = 42
    Blocks = {3, 41, 42}
    BlockHash <- High
    Buffers <- CopyRequests
    MaxRequests = 4
    LoaderErrors <- Errors
    StatusCodes <- Statuses
    Recipient <- Low
INVARIANTS
    CleansUp
    ReportsTruly
PROPERTIES
    ImplementsHostStorage
CHECK_DEADLOCK FALSE
