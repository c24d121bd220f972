CONSTANTS
    s1 = s1  s2 = s2  r1 = r1  None = None
    Sessions = {s1, s2}
    Returns = {r1}
    Requests <- PartRequests
    MaxFaults = 0
    PerProduct = 1
    InitProduct = 1
    InitGood = 2
SPECIFICATION Spec
INVARIANT PartsMatchLedger
CHECK_DEADLOCK FALSE
