SPECIFICATION Spec
CONSTANTS
    m2 = m2
    m1 = m1
    Msgs = {m1, m2}
    MaxMbox = 3
    Failable <- AllFail
    Unattended = FALSE
    ConcurrentDelete = TRUE
SYMMETRY Symmetric
INVARIANTS
    TypeOK
    Recoverable
    VetoHonoured
    SpaceReclaimed
