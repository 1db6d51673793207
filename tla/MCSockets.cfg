CONSTANTS
    t1 = t1
    t2 = t2
    \* UnixSocket
    Socket = {s1, s2, s3}
    SockThread = {t1, t2}
    Address = {a1}
    Buffer = 2
    BufferSizes = {1}
    Backlogs = {1}
    SockBudget <- MCSockBudgets
    NoSocket = NoSocket
    Dead = Dead
    \* Uevents
    UeThread = {t1, t2}
    UeSocket = {s1, s2}
    UeDevice = {"d"}
    UePorts = {1}
    MaxHistory = 1
    RcvSlots = 2
    MaxUeCalls = 5
    NoUeSocket = NoUeSocket
    \* Pty
    PtyThread = {t1, t2}
    InputSize = 2
    Typed <- MCTyped
    MaxOutput = 2
    MaxPtyCalls = 7
    \* Epoll
    Thread = {t1, t2}
    Writer = {w1, w2}
    Fd = {f1}
    Mode = {"LT", "ET", "ONESHOT"}
    MaxEvents = 1
    QueueBound = 2
    None = None
SPECIFICATION MCSpec
SYMMETRY MCSymmetry
CHECK_DEADLOCK FALSE
INVARIANTS
    
    
    UeventsHeard
    PtySound
    
