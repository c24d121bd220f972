SPECIFICATION Spec
CONSTANTS
    s1 = s1
    s2 = s2
    s3 = s3
    o1 = o1
    o2 = o2
    f1 = f1
    f2 = f2
    None = None
    Sessions = {s1, s2, s3}
    Orders = {o1, o2}
    FOs = {f1, f2}
    Requests = {"move"}
    InitPhysical = 1
    InitStock = 2
SYMMETRY
    Symmetry
INVARIANTS
    LockedMatchesLedger
    LocksSettleOnce
    OneLiveFactoryOrder
PROPERTIES
    PartPromiseKept
CHECK_DEADLOCK FALSE
