\* A call may never return: see Recover.
CONSTANTS
    Cpu = {c1, c2}
    MemoryMap <- Regions
    PAGE_SIZE = 2
    CacheMaxOrder = 1
    MaxNodes = 5
    MaxRefs = 2
    MaxCached = 1
    None = None
SPECIFICATION FairSpec
CHECK_DEADLOCK FALSE
INVARIANT MemoryExact
PROPERTIES ImplementsFrameStore CallReturns
