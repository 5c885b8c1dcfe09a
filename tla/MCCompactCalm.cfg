SPECIFICATION FairSpec
CONSTANTS
    m2 = m2
    m1 = m1
    Msgs = {m1, m2}
    MaxMbox = 3
    Failable <- AllNoticed
    Unattended = FALSE
    ConcurrentDelete = FALSE
PROPERTIES
    NoMessageLost
    RefinesAtomicFolder
    CompactionEnds
