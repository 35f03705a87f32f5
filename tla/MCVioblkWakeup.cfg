\* The block driver's comment on its wait for the device: violated.
SPECIFICATION Spec
VIEW View
CONSTANTS
    NTHR = 3
    NULL = NULL
    VIOBLK_QSIZE = 8
    QueueNumMaxes = {8}
    IDX_MOD = 16
    SECTOR = 1
    BLKSZ = 2
    CAPACITY = 5
    Positions = {0, 1, 4, 6}
    Sizes = {0, 1, 2, 6}
    Faults = TRUE
    Serialized = TRUE
    MaxReq = 3
INVARIANT
    NoLostCompletion
