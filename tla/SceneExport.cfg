CONSTANTS
    Nodes = {1, 2, 3, 4}
    SceneRoot = 0
    Words = {"_empty", "class", "root", "Box", "Shape", "Point", "Object"}
    Scenes <- KeptHelpers
    ValidIdentifier <- Identifiers
    AllowNestedGprims = FALSE
    TranslateHidden = FALSE
    AllowPrimOverwrites = FALSE
SPECIFICATION Spec
INVARIANTS PassesAgree NodesHavePrimsOfTheirOwn TransformsCompose PrototypesServeTheirInstances
CHECK_DEADLOCK FALSE
