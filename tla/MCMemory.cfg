SPECIFICATION Spec
CONSTANTS
    PAGE_SIZE = 2
    PTE_CNT = 8
    ADDR_MOD = 4096
    RAM_START_PMA = 256
    RAM_END_PMA = 304
    FREE_BASE = 133
    UMEM_START_VMA = 384
    UMEM_END_VMA = 512
    Programs <- MCPrograms
    ProtFlags <- MCProtFlags
    NPROC = 2
INVARIANTS
    EveryPageHasOneHolder
    KernelMappingsIntact
    ValidateMatchesAccess
    RangeOperationsAreExact
