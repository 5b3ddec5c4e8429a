SPECIFICATION RecoverySpec
CONSTANTS
    NodeID <- MCNodeID
    Span = 5
    Item = {"p"}
    Unreadable = {}
    Limit = 2
    MaxDrawn = 4
    MaxRows = 2
    MaxMarks = 1
    MaxStarts = 2
PROPERTY
    ValidMissesNothing
CHECK_DEADLOCK FALSE
