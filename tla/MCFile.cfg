SPECIFICATION Spec
CONSTANTS
    None = None
    Unhurt = Unhurt
    ATTACHED = 1
    CHILDREN = 2
    MAX_PAGES = 3
    Faults = {"write", "fflush", "crypto", "encrypt", "path"}
    InitialSizes = {2, 3}
    MaxBlocks = 4
    MaxWrites = 2
    MaxFaults = 2
INVARIANTS ReadsBack CleanIsStored CacheIsTree
PROPERTIES ImplementsAtomicFile RetryRepairs
