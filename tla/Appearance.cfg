CONSTANTS
    Faces = {"f1"}
    Materials = {1}
    Shapes = {"s1"}
    VertexCount <- Sizes
    Gizmos = {}
    MaxTriangles = 10
    MaxCellSize = 10
    MaxInstanceCount = 10
    Paths = {"a", "b"}
    Times = {0}
    RenderTagSets = {{"default"}, {"default", "guide"}}
    Views = {{"a", "b"}, {"a"}}
    Configs <- AppearanceConfigs
    Animations = {}
    Bindings = {}
    Colors = {"red", "blue"}
    DisplayModes = {"USDPreviewSurface", "USDDisplayColor", "WireColor"}
    RenderTags = {"guide"}
    Selections = {}
    FirstPrim <- AppearanceFirst
    Edits = {"color", "displayMode", "instances", "renderTag"}
    SubsetsMayAppear = FALSE
    MaxEdits = 1
SPECIFICATION Spec
PROPERTIES
    ViewportShowsTheScene
CHECK_DEADLOCK FALSE
