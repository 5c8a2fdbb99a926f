SPECIFICATION FairSpec
CONSTANTS
    MaxBytes = 15
    MaxInt = 3
    MaxMillis = 7
    Units <- MCUnits
    ValidNames = {"a", "long"}
    ValidMetadata = {"a"}
    LongWords = {"long"}
    NoValue = NoValue
    Clients = {"ctl"}
    Commands <- NodesCommand
    AcquireCalls = {}
    Wires = {}
    MaxLine = 8
    MaxRows = 2
    RowEnds = {"path"}
    NoCall = NoCall
INVARIANTS AnswerWhole
CHECK_DEADLOCK FALSE
