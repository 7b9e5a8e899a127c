CONSTANTS
    o1 = o1
    o2 = o2
    o3 = o3
    a = a
    OrderId <- MCOrderId
    Symbol = {a}
    Price = {10, 20}
    Qty = {1, 2}
    InitialCash = 30
    Impact <- MCImpact
    Cost <- MCCost
    Orders <- MCOrders
    MaxObjects = 3
SPECIFICATION Spec
PROPERTIES KillSwitchStopsFills
