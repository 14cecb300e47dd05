CONSTANTS
    Items <- MCItems
    Parent <- MCParent
    Ancestors <- MCAncestors
    Root = "r"
    Inactive = {"b"}
    Empty = "empty"
    Matches <- MCMatches
    MaxEdits = 2
SPECIFICATION Spec
INVARIANTS TreeFollowsTheScene UnfilteredTreeIsComplete SearchMissesNothing DisabledOnlyWhileSearching
PROPERTIES SearchFindsWhatStays ImplementsSearchBox TreeIsUsableAgain
