CONSTANTS
    w1 = w1  w2 = w2  None = None
    Workers = {w1, w2}
    Callers = {w1, w2}
    Lines = {1, 2}
    Ambiguous = {}
    Changes = {"refund", "delay"}
    Limit = 2
    MaxCrashes = 1
SYMMETRY SymmetricWorkers
SPECIFICATION Spec
INVARIANTS OneSheetPerGeneration NumbersAreDistinct OneVoidNotice
CHECK_DEADLOCK FALSE
