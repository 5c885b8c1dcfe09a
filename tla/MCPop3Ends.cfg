CONSTANTS
    small = small
    big = big
    Msgs = {big}
    Big = {big}
    NoMsg = NoMsg
    MaxRequests = 2
    MaxMarks = 1
    WriteEvery = 1
    Methods = 2
    MaxPrompts = 1
    Keep = {"never", "always", "days"}
    Faults = {"err", "auth", "lost", "disk", "busy", "crash"}
    Overlap = FALSE
SPECIFICATION Spec
PROPERTY EveryRequestAnswered
CHECK_DEADLOCK FALSE
