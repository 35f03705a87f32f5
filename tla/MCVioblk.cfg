\* The block driver: a process that transfers blocks, one that sleeps
\* elsewhere, the idle thread and the device; three requests.
SPECIFICATION Spec
VIEW View
CONSTANTS
    NTHR = 3
    NULL = NULL
    VIOBLK_QSIZE = 8
    QueueNumMaxes = {0, 4, 8}
    IDX_MOD = 16
    SECTOR = 1
    BLKSZ = 2
    CAPACITY = 5
    Positions = {0, 1, 4, 6}
    Sizes = {0, 1, 2, 6}
    Faults = TRUE
    Serialized = TRUE
    MaxReq = 3
INVARIANTS
    DescriptorsConserved
    RingsAccountForChains
PROPERTIES
    TransferIsExact
