CONSTANTS
    Objects = {o1, o2}
    Files = {f1}
    OnDisk = {f1}
    None = None
    MaxId = 5
    MaxRequests = 6
    MaxUndo = 1
    Sharing = TRUE
SPECIFICATION Spec
INVARIANT EditsAreKept
CHECK_DEADLOCK FALSE
