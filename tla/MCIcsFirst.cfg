CONSTANTS
    i1 = i1
    i2 = i2
    Ids = {i1, i2}
    MaxOps = 2
    MaxOthers = 1
    MaxFaults = 1
    Cases = {"first"}
SPECIFICATION Spec

PROPERTY NothingUnseenOverwritten
CHECK_DEADLOCK FALSE
