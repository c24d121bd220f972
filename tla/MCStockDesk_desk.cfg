CONSTANTS
    s1 = s1  s2 = s2  r1 = r1  None = None
    Sessions = {s1, s2}
    Returns = {r1}
    Requests <- DeskRequests
    MaxFaults = 1
    PerProduct = 2
    InitProduct = 1
    InitGood = 0
SYMMETRY Overlap
SPECIFICATION Spec
INVARIANTS TypeOK ClickActsOnce LockedWritersLoseNothing
CHECK_DEADLOCK FALSE
