SPECIFICATION ServerSpec
CONSTANTS
    Conn = {c1}
    Symbol = {"a"}
    Msg = {"m1", "m2"}
    SymbolOf <- MCSymbolOf
    Chan <- MCChan
    BufSize = 1
    PoolSizes = {0, 1, 2}
    None = None
INVARIANTS
    EndedHoldsNoSubscription
    DeliveredAsSent
PROPERTY
    QueuedIsHanded
CHECK_DEADLOCK FALSE
