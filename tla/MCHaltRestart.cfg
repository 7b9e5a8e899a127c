CONSTANTS
    o1 = o1
    o2 = o2
    a = a
    OrderId = {o1, o2}
    Symbol = {a}
    Price = {10, 20}
    Qty = {1}
    InitialCash = 30
    Impact <- MCImpact
    Cost <- MCCost
    Orders <- MCOrders
    MaxObjects = 2
    Thread = {t1, t2}
    System = System
    DbFailures = TRUE
    Restarts = TRUE
SPECIFICATION Spec
PROPERTIES
    HaltEndsByResumeOnly
