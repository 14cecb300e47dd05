CONSTANTS
    Faces = {"f1", "f2"}
    Materials = {1, 2}
    Shapes = {"s1", "s2"}
    VertexCount <- Sizes
    Gizmos = {}
    MaxTriangles = 10
    MaxCellSize = 10
    MaxInstanceCount = 10
    Paths = {"a", "b"}
    Times = {0}
    RenderTagSets = {{"default"}}
    Views = {{"a", "b"}}
    Configs <- AppearanceConfigs
    Animations = {}
    Bindings <- JustMixed
    Colors = {}
    DisplayModes = {}
    RenderTags = {}
    Selections = {}
    FirstPrim <- SecondMaterialFirst
    Edits = {"binding"}
    SubsetsMayAppear = TRUE
    MaxEdits = 1
SPECIFICATION Spec
INVARIANTS
    FlaggedSubsetsAreConsolidated
CHECK_DEADLOCK FALSE
