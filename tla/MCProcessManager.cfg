CONSTANTS
    Pid = {p1, p2}
    NoPid = NoPid
    InitPid = p1
    Cpu = {c1, c2}
    Kind = {"File", "Poll", "Timer", "Vfork", "WaitChild"}
    MaxTime = 1
SPECIFICATION FairSpec
INVARIANTS  RunQueueExact WaitsExact
PROPERTIES RunnableRuns GroupExitCompletes
