CONSTANTS
    c1 = c1
    c2 = c2
    Cards = {c1, c2}
    MaxChanges = 2
    MaxFaults = 2
    Cases = {"offline", "many"}
SPECIFICATION Spec
INVARIANT ChangesRemembered
CHECK_DEADLOCK FALSE
