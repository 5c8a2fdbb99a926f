SPECIFICATION FairSpec
CONSTANTS
    MaxBytes = 15
    MaxInt = 3
    MaxMillis = 7
    Units <- MCUnits
    ValidNames = {"a", "long"}
    ValidMetadata = {"a"}
    LongWords = {"long"}
    NoValue = NoValue
    Clients = {"library", "ctl", "raw"}
    Commands <- MCCommands
    AcquireCalls <- MCAcquireCalls
    Wires <- MCWires
    MaxLine = 8
    MaxRows = 2
    RowEnds = {"path", "pathEND"}
    NoCall = NoCall
INVARIANTS FramedAsSent ResponseWhole OutcomeArrives NumbersArrive
PROPERTIES ClientReturns LinesAnswered
CHECK_DEADLOCK FALSE
