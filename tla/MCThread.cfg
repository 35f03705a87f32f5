\* Safety of the thread manager: two spawned threads beside main and idle,
\* one lock, one device condition, three stack pages.
SPECIFICATION Spec
CONSTANTS
    NTHR = 4
    Locks = {l1}
    ExtConds = {cv}
    NULL = NULL
    MaxStackPages = 3
    MaxLockCnt = 2
INVARIANTS
    TypeOK
    SchedulerConsistent
    OrphansAdopted
    NoLostLockWakeup
PROPERTIES
    ReadyListFifo
