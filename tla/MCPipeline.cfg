SPECIFICATION Spec
CONSTANTS
    Producer <- TwoProducers
    Processor <- MCProcessor
    Entry <- RequestsAndReplay
    Checkpointing = TRUE
    MayFail = TRUE
    MaxSeq = 2
INVARIANTS
    AppliedInOrder
    WriteAhead
    CheckpointNotAhead
    ReturnedOrOvertaken
PROPERTY
    CallReturns
CHECK_DEADLOCK FALSE
