SPECIFICATION Spec
CONSTANTS
    i1 = i1
    i2 = i2
    User <- MCUser
    Trade <- MCTrade
    InitialPositions <- MCInitialPositions
    Instance <- MCInstance
    Deployments <- EveryDeployment
    MaxID = 5
    MaxEffects = 4
SYMMETRY Instances
INVARIANTS
    TypeOK
    AlonePositionsMatchOutbox
    AveragePriceInRange
    LegsAtMostOnce
PROPERTY
    SettlesAtomically
