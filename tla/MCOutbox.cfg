SPECIFICATION Spec
CONSTANTS
    d1 = d1
    Event <- ThreeEvents
    Dispatcher <- OneDispatcher
    BatchSize = 2
    MayFail <- OldestFail
    MaxSettled = 2
    MaxCleaned = 1
INVARIANTS
    LostBySenderOnly
    SettledOnce
PROPERTY
    EventuallyDelivered
CHECK_DEADLOCK FALSE
