CONSTANTS
    Items <- MCItems
    Parent <- MCParent
    Ancestors <- MCAncestors
    Root = "r"
    Inactive = {"b"}
    Empty = "empty"
    Matches <- MCMatches
    Outside = {"o"}
    MaxEdits = 1
SPECIFICATION Spec
INVARIANTS TreeShowsTheSelection CallbacksKnowThePicks
PROPERTIES SelectionIsTheUsers
