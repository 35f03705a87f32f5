\* Thread 1 is a thread of the kernel that calls alarm_sleep with
\* interrupts enabled.
SPECIFICATION Spec
CONSTANTS
    NTHR = 4
    NULL = NULL
    KernelThreads = {1}
    UINT64_MAX = 15
    MaxTime = 3
    PREEMPTION_INTERVAL = 2
    Tcnts <- MCTcnts
INVARIANT
    EverySleeperQueued
