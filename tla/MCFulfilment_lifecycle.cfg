SPECIFICATION Spec
CONSTANTS
    o1 = o1
    o2 = o2
    o3 = o3
    f1 = f1
    f2 = f2
    f3 = f3
    m1 = m1
    p1 = p1
    None = None
    Orders = {o1, o2}
    FOs = {f1, f2}
    Materials = {m1}
    Products = {p1}
    ProductOf <- SameProduct
    QtyOf <- OneEach
    Need <- OnePart
    Refill = {}
    InitPhysical <- OneLeft
    InitStock <- OneUnit
    RestockQty = {}
    Forced = {o1}
    Confirmable = {}
    Imported = {o2}
    Tracked = {}
    BookNames = {}
SYMMETRY Symmetry
INVARIANTS
    LockedMatchesLedger
    LocksSettleOnce
    OneLiveFactoryOrder
PROPERTIES
    VoidedIsFinal
    PartPromiseKept
CHECK_DEADLOCK FALSE
