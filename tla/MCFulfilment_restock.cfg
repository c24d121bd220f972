SPECIFICATION Spec
CONSTANTS
    o1 = o1
    o2 = o2
    o3 = o3
    f1 = f1
    f2 = f2
    f3 = f3
    m1 = m1
    p1 = p1
    None = None
    Orders = {o1}
    FOs = {f1, f2}
    Materials = {m1}
    Products = {p1}
    ProductOf <- SameProduct
    QtyOf <- TwoEach
    Need <- OnePart
    Refill = {}
    InitPhysical <- OneLeft
    InitStock <- OneUnit
    RestockQty = {1, 2}
    Forced = {o1}
    Confirmable = {o1}
    Imported = {o1}
    Tracked = {o1}
    BookNames = {o1, None}
SYMMETRY Symmetry
INVARIANTS
    TypeOK
    ReversalMirrorsOriginal
    StockCoversMovements
PROPERTIES
    HistoricalNotAdvanced
CHECK_DEADLOCK FALSE
