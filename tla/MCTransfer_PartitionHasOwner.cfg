SPECIFICATION ProtocolSpec
CONSTANTS
    n1 = n1
    n2 = n2
    n3 = n3
    s1 = s1
    c1 = c1
    c2 = c2
    NoNode = NoNode
    Node <- MCNode
    Symbol <- MCSymbol
    Caller <- MCCaller
    MigrationTimeout = 1
    MaxSeq = 1
    MaxVersion = 12
    MaxTransfers = 2
INVARIANT
    PartitionHasOwner
