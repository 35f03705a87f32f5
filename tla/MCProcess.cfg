\* pipes between main and one child: descriptors, data, wake-ups
SPECIFICATION Spec
CONSTANTS
    NTHR = 3
    NPROC = 2
    PROCESS_UIOMAX = 2
    ConsoleFds = {0}
    Pipes = {1}
    Handles = {}
    Files = {}
    Executables = {"init"}
    INITEXE = "init"
    Bytes = {1, 2}
    Bufs <- MCBufs
    Lens = {1, 2}
    capacity = 2
    KTFS_MAX_FILE_SIZE = 2
    AllocFaults = FALSE
    ArgvFaults = FALSE
    Valid = {0}
    MaxSent = 4
    InitFiles <- MCInitFiles
    NULL = NULL
VIEW Kernel
CHECK_DEADLOCK FALSE
INVARIANTS
    PipeIsFifo
    NoLostWakeup
