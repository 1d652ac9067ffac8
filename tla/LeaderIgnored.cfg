SPECIFICATION LockSpec
CONSTANTS
    Pods = {p1, p2}
    NoPod = none
    MaxFailures = 1
CHECK_DEADLOCK FALSE
INVARIANTS LeadsBeforeProceeding
