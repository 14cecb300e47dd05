CONSTANTS
    Objects = {o1, o2}
    Files = {f1}
    OnDisk = {f1}
    None = None
    MaxId = 6
    MaxRequests = 5
    MaxUndo = 1
    Sharing = FALSE
SPECIFICATION Spec
PROPERTY LoadRestoresEveryStage
CHECK_DEADLOCK FALSE
