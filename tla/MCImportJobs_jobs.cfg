CONSTANTS
    j1 = j1  j2 = j2  t1 = t1  t2 = t2  None = None
    Jobs = {j1, j2}
    Threads = {t1, t2}
    MaxStops = 2
SPECIFICATION FairSpec
INVARIANTS TypeOK DoneIsImported RunningHasItsFile
PROPERTIES CancelledWaitingNeverRuns JobsEnd
CHECK_DEADLOCK FALSE
