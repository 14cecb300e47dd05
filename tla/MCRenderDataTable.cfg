\* Five rprims: enough for a freed slot in the middle, at the end, and for a
\* second removal that moves an entry moved before.
CONSTANTS
    Paths = {p1, p2, p3, p4, p5}
    Invalid = Invalid
    MaxIndex = 6
SPECIFICATION Spec
SYMMETRY PathSymmetry
INVARIANTS
    TypeOK
    MapInvertsVector
    EachRprimHasItsTable
    SafeGetFindsTheRprim
PROPERTIES
    OnlyTheLastEntryMoves
