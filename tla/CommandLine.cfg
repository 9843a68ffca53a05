SPECIFICATION Spec
CONSTANTS
    Main = "main"
    Outputs = {"made", "none"}
    Worlds = {0, 1}
    Fresh = 0
    Gas = 1
    CreateGas = 9
    Target = 3
    Nobody = Nobody
    CreateAddress = CreateAddress
    HexArguments = {"hex", "not hex", "file"}
    Contents = {"hex", "not hex", "missing"}
INVARIANTS
    ReportsFirst
    WarnsTruly
    ExitsTruly
PROPERTIES
    Exits
CHECK_DEADLOCK FALSE
