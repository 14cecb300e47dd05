CONSTANTS
    Faces = {"f1"}
    Materials = {}
    Shapes = {"s1", "s2", "big"}
    VertexCount <- Sizes
    Gizmos = {}
    MaxTriangles = 10
    MaxCellSize = 10
    MaxInstanceCount = 10
    Paths = {"a", "b"}
    Times = {0, 1}
    RenderTagSets = {{"default"}}
    Views = {{"a", "b"}, {"b"}}
    Configs <- AnimationConfigs
    Animations <- Resized
    Bindings = {}
    Colors = {}
    DisplayModes = {}
    RenderTags = {}
    Selections = {}
    FirstPrim <- AnimationFirst
    Edits = {"points", "visibility"}
    SubsetsMayAppear = FALSE
    MaxEdits = 1
SPECIFICATION Spec
INVARIANTS
    OneConsolidation
PROPERTIES
    ViewportShowsTheScene
CHECK_DEADLOCK FALSE
