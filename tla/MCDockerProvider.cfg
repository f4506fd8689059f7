\* Four calls one after the other, each cut short wherever it may be.
SPECIFICATION Spec
CONSTANTS
    Calls = {c1, c2, c3, c4}
    NoBox = NoBox
    Foreign = Foreign
    Ops <- AllOperations
    Overlap = FALSE
    Outsiders = FALSE
SYMMETRY CallSymmetry
INVARIANT NothingIsWedged
PROPERTIES ReturnMeansDone
\* Calls come to an end.
CHECK_DEADLOCK FALSE
