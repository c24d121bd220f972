CONSTANTS
    w1 = w1  w2 = w2  None = None
    Workers = {w1, w2}
    Callers = {w1}
    Lines = {1}
    Ambiguous = {1}
    Changes = {"refund", "delay", "activate", "edit"}
    Limit = 1
    MaxCrashes = 2
SPECIFICATION FairSpec
INVARIANTS TypeOK OneVoidNotice OneExplanation
PROPERTIES SheetIsOneShot RefundIsAnswered ReplyIsTakenUp
CHECK_DEADLOCK FALSE
