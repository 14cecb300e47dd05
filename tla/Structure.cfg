CONSTANTS
    Faces = {"f1", "f2"}
    Materials = {1, 2}
    Shapes = {"s1"}
    VertexCount <- Sizes
    Gizmos = {}
    MaxTriangles = 10
    MaxCellSize = 3
    MaxInstanceCount = 10
    Paths = {"a", "b", "c"}
    Times = {0}
    RenderTagSets = {{"default"}}
    Views = {{"a", "b", "c"}}
    Configs <- StructureConfigs
    Animations = {}
    Bindings <- Narrowed
    Colors = {}
    DisplayModes = {}
    RenderTags = {}
    Selections = {}
    FirstPrim <- StructureFirst
    Edits = {"binding", "create", "destroy"}
    SubsetsMayAppear = FALSE
    MaxEdits = 2
SPECIFICATION Spec
INVARIANTS
    FlaggedSubsetsAreConsolidated
    CleanSubsetsAreLoaded
    CellsRespectLimits
PROPERTIES
    ViewportShowsTheScene
CHECK_DEADLOCK FALSE
