CONSTANTS
    Space = {s1, s2}
    f1 = f1
    Frame = {f1, f2, f3}
    one = one
    Value = {zero, one}
    Zero = zero
    BrkLimit = 1
    MmapTop = 3
    Limit = 3
    Image <- MCImage
    Segments <- MCSegments
    ShmPages <- MCShmPages
    Device = device
    Writable = {TRUE}
    Offset = {1}
    Stored = {one}
    MaxFailures = 1
    MaxCalls = 2
    None = None
SPECIFICATION Spec
SYMMETRY Symmetry
INVARIANTS ReadsOwnImage 
CHECK_DEADLOCK FALSE
