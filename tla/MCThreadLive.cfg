\* Progress of thread_join under fair scheduling.
SPECIFICATION FairSpec
CONSTANTS
    NTHR = 4
    Locks = {}
    ExtConds = {}
    NULL = NULL
    MaxStackPages = 2
    MaxLockCnt = 1
PROPERTY
    JoinReturns
