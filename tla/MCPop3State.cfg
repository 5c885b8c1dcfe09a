CONSTANTS
    small = small
    big = big
    Msgs = {small, big}
    Big = {big}
    NoMsg = NoMsg
    MaxRequests = 3
    MaxMarks = 1
    WriteEvery = 1
    Methods = 1
    MaxPrompts = 1
    Keep = {"never", "always", "days"}
    Faults = {"err", "lost", "crash"}
    Overlap = FALSE
SPECIFICATION Spec
INVARIANTS TypeOK NothingLost StoredOnce
CHECK_DEADLOCK FALSE
