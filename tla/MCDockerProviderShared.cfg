\* Three calls that overlap, on a host where the names may be taken.
SPECIFICATION Spec
CONSTANTS
    Calls = {c1, c2, c3}
    NoBox = NoBox
    Foreign = Foreign
    Ops <- AllOperations
    Overlap = TRUE
    Outsiders = TRUE
SYMMETRY CallSymmetry
INVARIANT RefusalsTouchNothing
PROPERTIES ForeignBoxLeftAlone ForeignHomeLeftAlone
\* Calls come to an end.
CHECK_DEADLOCK FALSE
