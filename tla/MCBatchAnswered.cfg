CONSTANTS
    b1 = b1
    f1 = f1
    f2 = f2
    f3 = f3
    None = None
    Batches = {b1}
    Folders = {f1, f2, f3}
    Compactable = {f1, f2}
    Offline = {}
    Callers = {"direct", "all"}
    kMaxAttempts = 2
    Failable <- AllFail
SPECIFICATION FairSpec
INVARIANTS
    ExpungeFirst
PROPERTIES
    EveryRequestAnswered
