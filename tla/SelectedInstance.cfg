CONSTANTS
    Faces = {"f1"}
    Materials = {}
    Shapes = {"s1", "s2"}
    VertexCount <- Sizes
    Gizmos = {}
    MaxTriangles = 10
    MaxCellSize = 10
    MaxInstanceCount = 10
    Paths = {"a", "b"}
    Times = {0}
    RenderTagSets = {{"default"}}
    Views = {{"a", "b"}}
    Configs <- AppearanceConfigs
    Animations = {}
    Bindings = {}
    Colors = {}
    DisplayModes = {}
    RenderTags = {}
    Selections = {{"a"}}
    FirstPrim <- PlainFirst
    Edits = {"selection", "instances"}
    SubsetsMayAppear = FALSE
    MaxEdits = 1
SPECIFICATION Spec
INVARIANTS
    HighlightFlagIsRight
CHECK_DEADLOCK FALSE
