SPECIFICATION Spec
CONSTANTS
    Price <- MCPrice
    MaxQty = 2
    MaxOrders = 3
INVARIANTS
    QuantityConserved
    TradeIDsUnique
PROPERTIES
    TimePriority
    CancelStopsTrading
    MatchOrderReturns
CHECK_DEADLOCK FALSE
