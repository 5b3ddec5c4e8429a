SPECIFICATION TableSpec
CONSTANTS
    Node <- MCNode
    Symbol <- MCSymbol
    Time = {"t1"}
    IdleWorker = "n2"
    Load <- MCLoad
    FirstTable <- MCFirstTable
    MaxChanges = 2
INVARIANT
    SymbolsPlaced
PROPERTY
    NodesFollowTable
