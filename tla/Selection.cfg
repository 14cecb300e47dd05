CONSTANTS
    Faces = {"f1"}
    Materials = {1}
    Shapes = {"s1"}
    VertexCount <- Sizes
    Gizmos = {"g1", "g2"}
    MaxTriangles = 10
    MaxCellSize = 10
    MaxInstanceCount = 10
    Paths = {"g1", "g2", "m1", "m2"}
    Times = {0}
    RenderTagSets = {{"default"}}
    Views = {{"g1", "g2", "m1", "m2"}}
    Configs <- SelectionConfigs
    Animations = {}
    Bindings = {}
    Colors = {}
    DisplayModes = {}
    RenderTags = {}
    Selections = {{}, {"m1"}, {"g1", "m2"}}
    FirstPrim <- SelectionFirst
    Edits = {"selection", "visibility"}
    SubsetsMayAppear = FALSE
    MaxEdits = 1
SPECIFICATION Spec
INVARIANTS
    FlaggedSubsetsAreConsolidated
    HighlightFlagIsRight
PROPERTIES
    SelectionKeepsConsolidation
    ViewportShowsTheScene
CHECK_DEADLOCK FALSE
