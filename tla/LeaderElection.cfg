SPECIFICATION FairLockSpec
CONSTANTS
    Pods = {p1, p2, p3, p4}
    NoPod = none
    MaxFailures = 2
CHECK_DEADLOCK FALSE
INVARIANTS LockIInv OneRuns
PROPERTIES WaitsBesideALeader
