CONSTANTS
    Faces = {"f1"}
    Materials = {1, 2}
    Shapes = {"s1", "s2"}
    VertexCount <- Sizes
    Gizmos = {}
    MaxTriangles = 10
    MaxCellSize = 10
    MaxInstanceCount = 10
    Paths = {"a", "b", "c"}
    Times = {0, 1}
    RenderTagSets = {{"default"}}
    Views = {{"a", "b", "c"}}
    Configs <- DynamicOnly
    Animations = {}
    Bindings = {}
    Colors = {}
    DisplayModes = {}
    RenderTags = {}
    Selections = {}
    FirstPrim <- SwappedFirst
    Edits = {"destroy"}
    SubsetsMayAppear = FALSE
    MaxEdits = 1
SPECIFICATION Spec
PROPERTIES
    ViewportShowsTheScene
CHECK_DEADLOCK FALSE
