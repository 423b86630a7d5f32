SPECIFICATION Spec
CONSTANTS
    Orders <- MCOrders
    MaxOrders = 4
INVARIANTS BookSound IndexSound FokAllOrNothing
PROPERTIES RefinesOracle
CHECK_DEADLOCK FALSE
