SPECIFICATION Spec
CONSTANTS
    Threads = {t1, t2}
    Uios = {u1, u2}
    t1 = t1
    t2 = t2
    u1 = u1
    u2 = u2
    Names = {1, 2}
    Vals = {1}
    Lens = {3}
    Offsets = {0, 5}
    KTFS_BLKSZ = 2
    KTFS_NUM_DIRECT_DATA_BLOCKS = 1
    KTFS_NUM_DINDIRECT_BLOCKS = 1
    INODES_PER_BLOCK = 3
    BITS_PER_BLOCK = 16
    super <- SmallSuper
    Images <- FilledOnly
    ReadFaults = TRUE
    UnlinkOpenFiles = FALSE
    MaxWrites = 2
    NULL = NULL
SYMMETRY Symm

INVARIANT AllocationFailureIsReported
