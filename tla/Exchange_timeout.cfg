SPECIFICATION FairSpec
CONSTANTS
    MaxBytes = 15
    MaxInt = 3
    MaxMillis = 7
    Units <- MCUnits
    ValidNames = {"a", "long"}
    ValidMetadata = {"a"}
    LongWords = {"long"}
    NoValue = NoValue
    Clients = {"library"}
    Commands <- NoCommands
    AcquireCalls <- TimedCalls
    Wires = {}
    MaxLine = 8
    MaxRows = 0
    RowEnds = {"path"}
    NoCall = NoCall
INVARIANTS TimeoutArrives
CHECK_DEADLOCK FALSE
