SPECIFICATION Spec
CONSTANTS
    Price <- MCPrice
    MaxQty = 2
    MaxOrders = 3
INVARIANT
    BookUncrossed
CHECK_DEADLOCK FALSE
