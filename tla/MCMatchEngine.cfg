SPECIFICATION Spec
CONSTANTS
    Order <- MCOrder
    SymbolOf <- MCSymbolOf
    None = None
    QueueSize = 1
    Moving = {"a"}
    MaxCancels = 1
INVARIANTS
    MatchedInQueueOrder
    RefusedNeverTrades
PROPERTY
    SubmittedIsMatched
CHECK_DEADLOCK FALSE
