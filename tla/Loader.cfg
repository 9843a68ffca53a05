SPECIFICATION FairSpec
CONSTANTS
    Threads = {t1, t2}
    Names = {"good", "plain", "old", "empty", "missing"}
    Libraries = {"good", "plain", "old", "empty"}
    WithFunction = {"good", "plain", "old"}
    Compatible = {"good", "plain"}
    Configurable = {"good"}
    MaxOptions = 2
    MaxCalls = 2
INVARIANTS
    LibrariesBalanced
    VMsMapped
    NoOrphans
    ErrorsTrue
PROPERTIES
    Returns
CHECK_DEADLOCK FALSE
