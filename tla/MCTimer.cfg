\* Main and thread 2 sleep through the system call, thread 1 is a thread of
\* the kernel that calls alarm_sleep itself.
SPECIFICATION FairSpec
CONSTANTS
    NTHR = 4
    NULL = NULL
    KernelThreads = {1}
    UINT64_MAX = 15
    MaxTime = 3
    PREEMPTION_INTERVAL = 2
    Tcnts <- MCTcnts
INVARIANTS
    TypeOK
    ComparatorCoversEarliest
    SyscallSleeperQueued
PROPERTIES
    UserThreadIsPreempted
    AlarmFires
