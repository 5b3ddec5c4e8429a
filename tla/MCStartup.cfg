SPECIFICATION StartupSpec
CONSTANTS
    Node = {"n1", "n2"}
    MaxNodeID = 2
    MaxRetries = 2
    LocalSpan = 3
    MaxRuns = 2
    MaxLocal = 3
    NodeID <- MCNodeID
    Span = 5
    Item = {"p"}
    Unreadable = {7}
    Limit = 2
    MaxDrawn = 4
    MaxRows = 2
    MaxMarks = 1
    MaxStarts = 2
INVARIANTS
    NodeIDsUnique
    SameIDAfterRestart
    NumbersUnique
    OneRecoversAtATime
PROPERTIES
    ReadsWhatIsMissing
    StartupEnds
CHECK_DEADLOCK FALSE
