CONSTANTS
    Objects = {o1, o2}
    Files = {f1, f2}
    OnDisk = {f1}
    None = None
    MaxId = 6
    MaxRequests = 5
    MaxUndo = 1
    Sharing = FALSE
SPECIFICATION Spec
INVARIANTS TypeOK MapFindsEveryStageObject PromptsOnce InterruptsEndWithTheSave EditsAreKept
PROPERTIES CancelledSaveWritesNothing LoadRestoresOwnStages
CHECK_DEADLOCK FALSE
