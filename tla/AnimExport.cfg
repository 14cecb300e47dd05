CONSTANTS
    Objects = {"o1", "o2"}
    Horizon = 13
    Configs <- Ranges
    Validities <- KeyedPairs
    Never = Never
SPECIFICATION Spec
INVARIANTS FramesAreExact OneGoPerTime
PROPERTIES Terminates
CHECK_DEADLOCK FALSE
