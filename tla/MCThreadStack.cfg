SPECIFICATION Spec
CONSTANTS
    NTHR = 4
    Locks = {l1}
    ExtConds = {cv}
    NULL = NULL
    MaxStackPages = 2
    MaxLockCnt = 1
INVARIANT
    StackFreedAfterExit
