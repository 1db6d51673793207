CONSTANTS
    Task = {t1, t2}
    File = {f1, f2}
    Inode = {i1}
    MaxFd = 1
    Cloexec = {TRUE}
    NonBlock = {FALSE}
    Passing = {FALSE, TRUE}
    None = None
SPECIFICATION Spec
SYMMETRY Symmetry
INVARIANT FlockSound
PROPERTY LockSurvivesClose
CHECK_DEADLOCK FALSE
