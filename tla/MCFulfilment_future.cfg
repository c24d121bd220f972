SPECIFICATION FairSpec
CONSTANTS
    o1 = o1
    o2 = o2
    o3 = o3
    f1 = f1
    f2 = f2
    f3 = f3
    m1 = m1
    p1 = p1
    None = None
    Orders = {o1, o2, o3}
    FOs = {f1, f2}
    Materials = {m1}
    Products = {p1}
    ProductOf <- OneUncoded
    QtyOf <- OneEach
    Need <- OnePart
    Refill = {o1}
    InitPhysical <- OneLeft
    InitStock <- NoUnit
    RestockQty = {}
    Forced = {}
    Confirmable = {}
    Imported = {o2}
    Tracked = {}
    BookNames = {}
PROPERTIES
    FutureOrderActivates
    PaymentLockFailureFlagged
CHECK_DEADLOCK FALSE
