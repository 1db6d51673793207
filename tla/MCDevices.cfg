CONSTANTS
    p1 = p1
    p2 = p2
    c1 = c1
    c2 = c2
    \* ChildWait
    Root = init
    Pid = {init, p1, p2}
    Cpu = {c1, c2}
    MaxEvents = 2
    None = None
    \* DrmDevice
    DrmClient = {p1, p2}
    DrmTick = tick
    MaxHandles = 2
    MaxFrames = 2
    MaxBlobs = 1
    Commits <- MCCommits
    VblankPeriods = {0, 2}
    MaxReady = 2
    MaxPending = 2
    DrmBudgets <- MCDrmBudgets
    NoDeadline = 99
    \* VtScreen
    VtThread = {p1, p2}
    VtCount = 2
    Cell = {x1, x2}
    Colour = {BLACK, white}
    BLACK = BLACK
    NoPixels = NoPixels
    MaxVtCalls = 4
    \* Ps2Input
    Keys = {"ctrlL", "ctrlR", "a"}
    MaxBytes = 3
    QueueCapacity = 3
    MaxMoves = 3
SPECIFICATION MCSpec
SYMMETRY MCSymmetry
CHECK_DEADLOCK FALSE
INVARIANTS
    ChildEventsExact
    VforkSuspends
    
    ScreensKept
    
