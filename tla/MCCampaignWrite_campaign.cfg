CONSTANTS
    c1 = c1  c2 = c2  c3 = c3  i1 = i1  i2 = i2  i3 = i3  full = full  pending = pending  None = None
    Calls = {c1, c2, c3}
    Items = {i1, i2, i3}
    Manifests = {full, pending}
    Pending = pending
    MaxCrashes = 2
SPECIFICATION Spec
INVARIANTS TypeOK SignupNeedsDiscount NewRowsOnce CompletedIsRegistered
PROPERTIES SignupIsOneShot
CHECK_DEADLOCK FALSE
