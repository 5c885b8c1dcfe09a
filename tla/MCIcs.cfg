CONSTANTS
    i1 = i1
    i2 = i2
    Ids = {i1, i2}
    MaxOps = 2
    MaxOthers = 1
    MaxFaults = 1
    Cases = {"noetag", "untagged"}
SPECIFICATION Spec
INVARIANT TypeOK
PROPERTIES NothingUnseenOverwritten EveryOperationAnswered ShowsTheFile
CHECK_DEADLOCK FALSE
