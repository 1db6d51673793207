CONSTANTS
    t1 = t1
    t2 = t2
    m1 = m1
    m2 = m2
    h1 = h1
    v1 = v1
    q1 = q1
    \* Namespace
    NsThread = {t1, t2}
    FileName = {"a", "b"}
    MaxDepth = 2
    MaxNodes = 5
    FirstTrees <- MCTrees
    LinkTargets <- MCTargets
    NsBudgets <- MCNsBudgets
    \* Inotify
    InoFile = {i1}
    InoThread = {t1, t2}
    WatchTarget = {w1, w2}
    WatchMasks <- MCWatchMasks
    MaxWd = 2
    MaxInoCalls = 4
    MaxInoEvents = 2
    \* PageCache
    PcThread = {t1, t2}
    FilePages = 2
    CacheFrames = {m1, m2}
    CacheLimit = 1
    PrefetchLimit = 1
    FirstSizes = {4}
    MaxPcCalls = 3
    \* BlockDevice
    wholeDisk = wholeDisk
    part1 = part1
    BlkThread = {t1, t2}
    BlkFile = {wholeDisk, part1}
    Extents <- MCExtents
    DiskBlocks = 3
    MaxBlkCalls = 2
    NoLease = NoLease
    \* SysvShm
    ShmThread = {h1, h2}
    ShmSpace = {v1, v2}
    ShmKey = {"k"}
    ShmSizes = {1}
    MaxShmId = 2
    MaxShmCalls = 6
    NoSpace = NoSpace
    \* Memfd
    MfThread = {t1, t2}
    MfPages = 2
    SealSets <- MCSealSets
    MfBudgets <- MCMfBudgets
    NoHolder = NoHolder
    \* MmapRegions
    RgThread = {q1, q2}
    RgPages = 3
    RgLengths = {1, 2}
    RgRequests <- MCRequests
    MaxRgCalls = 3
    \* FileIo
    IoThread = {t1, t2}
    IoFile = {m1, m2}
    FirstLength = 3
    MaxLength = 14
    ChannelRoom = 2
    ChunkSize = 2
    IoVectors <- MCIoVectors
    IoSetups <- MCIoSetups
    Unlocked = Unlocked
SPECIFICATION MCSpec
SYMMETRY MCSymmetry
CHECK_DEADLOCK FALSE
INVARIANTS
    
    WatchesSound
    
    BlockWritesKept
    AttachmentsCounted
    
PROPERTIES
    MemfdSound
    
