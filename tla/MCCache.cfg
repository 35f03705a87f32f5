SPECIFICATION Spec
CONSTANTS
    NTHR = 3
    NULL = NULL
    NENT = 2
    Blocks <- MCBlocks
    ValsOf <- MCValsOf
    Faults = {"refused"}
INVARIANTS
    TypeOK
    PinnedForHolder
    UniqueBlock
PROPERTIES
    OnlyHolderWrites
