CONSTANTS
    Task = {t1, t2}
    File = {f1, f2}
    Inode = {i1}
    MaxFd = 1
    Cloexec = {FALSE, TRUE}
    NonBlock = {TRUE}
    Passing = {FALSE}
    None = None
SPECIFICATION Spec
SYMMETRY Symmetry
PROPERTIES UnshareIsPrivate
CHECK_DEADLOCK FALSE
