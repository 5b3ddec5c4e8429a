SPECIFICATION OwnershipSpec
CONSTANTS
    n1 = n1
    n2 = n2
    n3 = n3
    s1 = s1
    c1 = c1
    c2 = c2
    NoNode = NoNode
    Node <- ThreeNodes
    Symbol <- MCSymbol
    Caller <- MCCaller
    MigrationTimeout = 1
    MaxSeq = 1
    MaxVersion = 11
    MaxTransfers = 2
    u1 = u1
    u2 = u2
    o1 = o1
    o2 = o2
    Updater <- MCUpdater
    Owner <- MCOwner
    NoOwner = NoOwner
    Free = Free
    Cache = {"k"}
    MaxEpoch = 3
SYMMETRY Symmetries
INVARIANTS
    CheckpointBehindProcessed
    TransferRecordIsCurrent
    NewOwnerConfirmed
    EpochIdentifiesOwner
    FencingDetectsMigration
PROPERTIES
    OwnerChangesByCommit
    EpochNeverFalls
