CONSTANTS
    s1 = s1  s2 = s2  r1 = r1  None = None
    Sessions = {s1}
    Returns = {r1}
    Requests <- ReturnRequests
    MaxFaults = 0
    PerProduct = 1
    InitProduct = 0
    InitGood = 0
SPECIFICATION Spec
INVARIANT ConfirmedIsStockedOnce
CHECK_DEADLOCK FALSE
