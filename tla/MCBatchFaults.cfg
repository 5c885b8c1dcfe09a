CONSTANTS
    b1 = b1
    b2 = b2
    f1 = f1
    f2 = f2
    f3 = f3
    None = None
    Batches = {b1, b2}
    Folders = {f1, f2}
    Compactable = {f1, f2}
    Offline = {f1, f2}
    Callers = {"direct", "one"}
    kMaxAttempts = 3
    Failable <- AllButTimer
SPECIFICATION Spec
SYMMETRY Symmetric
INVARIANTS
    TypeOK
    EveryFolderAccounted
    GivenUpAfterEveryAttempt
    ToldTheTruth
    CompletedWereCompacted
    OneAtATime
