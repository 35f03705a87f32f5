SPECIFICATION Spec
CONSTANTS
    NULL = NULL
    Procs = {p1}
    MAIN = p1
    Uios = {1, 2, 3}
    NUART = 2
    Machines <- MCMachines
    BLKSZ = 2
    CAPACITY = 4
    RTC_BLKSZ = 2
    VIORNG_BUFSZ = 2
    MountNames <- MCMountNames
    FileNames <- MCFileNames
    Lens = {0, 1, 3, 4}
    Bufs <- MCBufs
    Positions = {1, 5}
    FailedServes = TRUE
    MaxCalls = 4
CHECK_DEADLOCK FALSE
VIEW View
INVARIANT RegisteredDevicesAreReady
