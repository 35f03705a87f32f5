\* a redirection typed without blanks: wc <in>out
SPECIFICATION Spec
CONSTANTS
    NTHR = 4
    NPROC = 3
    PROCESS_UIOMAX = 7
    ConsoleFds = {0, 1, 2}
    Pipes = {1}
    Handles = {1, 2, 3, 4, 5}
    Files <- MCFiles
    Executables <- MCExecutables
    INITEXE = "shell"
    Bytes <- MCBytes
    Bufs = {}
    Lens = {}
    capacity = 2
    KTFS_MAX_FILE_SIZE = 8
    AllocFaults = FALSE
    ArgvFaults = FALSE
    Valid = {0}
    MaxSent = 8
    InitFiles <- MCInitFiles
    NULL = NULL
    Lines <- MCLines
    Jobs <- MCJobs
    MaxLines = 2
CHECK_DEADLOCK FALSE
INVARIANT
    OperatorsRecognized
