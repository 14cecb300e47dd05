CONSTANTS
    Nodes = {1, 2, 3, 4}
    SceneRoot = 0
    Words = {"_empty", "class", "root", "Box", "Shape", "Point", "Object"}
    Scenes <- Namesakes
    ValidIdentifier <- Identifiers
    AllowNestedGprims = FALSE
    TranslateHidden = FALSE
    AllowPrimOverwrites = FALSE
SPECIFICATION Spec
INVARIANTS ObjectsHavePrimsOfTheirOwn
CHECK_DEADLOCK FALSE
