\* Both threads may close both ends of the pipe, after which nothing is left to do.
CONSTANTS
    Thread = {t1, t2}
    Kind = {"eventfd", "semaphore", "pipe"}
    Max = 2
    Polls <- MCPolls
    None = None
SPECIFICATION FairSpec
CHECK_DEADLOCK FALSE
INVARIANT WakeupsExact
PROPERTY ReadyWakes
