\* files and the console in main and one child
SPECIFICATION Spec
CONSTANTS
    NTHR = 3
    NPROC = 2
    PROCESS_UIOMAX = 2
    ConsoleFds = {0}
    Pipes = {}
    Handles = {1}
    Files = {"init"}
    Executables = {"init"}
    INITEXE = "init"
    Bytes = {1, 2}
    Bufs <- MCBufs
    Lens = {1, 2}
    capacity = 2
    KTFS_MAX_FILE_SIZE = 2
    AllocFaults = TRUE
    ArgvFaults = FALSE
    Valid <- MCValid
    MaxSent = 3
    InitFiles <- MCInitFiles
    NULL = NULL
VIEW Kernel
CHECK_DEADLOCK FALSE
INVARIANTS
    RefcntCountsReferences
