CONSTANTS
    Nodes = {1, 2, 3, 4}
    SceneRoot = 0
    Words = {"_empty", "class", "root", "Box", "Shape", "Point", "Object"}
    Scenes <- LostHelpers
    ValidIdentifier <- Identifiers
    AllowNestedGprims = FALSE
    TranslateHidden = FALSE
    AllowPrimOverwrites = FALSE
SPECIFICATION Spec
INVARIANTS InstancesHaveNoChildren
CHECK_DEADLOCK FALSE
