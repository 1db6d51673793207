CONSTANTS
    \* Signals
    Sig = {11, 17, 18, 19}
    SigThread = {t1, t2}
    Leader = t1
    SigActions <- MCActions
    SigMasks <- MCMasks
    AltStack = {x}
    SigBudgets <- MCSigBudgets
    MaxFrames = 2
    \* Timers
    TimerFd = {f1, f2}
    TimeReader = {r1}
    TimeClass = {1, 2}
    TimeCpu = {c1, c2}
    TimerGroup = {g1}
    TimerValues = {0, 1, 2}
    TimerIntervals = {0, 1}
    MaxTime = 4
    MaxLag = 1
    MaxTimerCalls = 4
    Never = 99
    \* JobControl
    MaxPid = 3
    JcCpus = 2
    JcBudgets <- MCJcBudgets
    \* Futex
    Thread = {t1, t2, t3}
    Key = {k1, k2}
    Val = {v1}
    Bit = {b1}
    None = None
SPECIFICATION MCSpec
CHECK_DEADLOCK FALSE
INVARIANTS
    SignalsSound
    TimersExact
    
    FutexIndexExact
