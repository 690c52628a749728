SPECIFICATION Spec
CONSTANTS
    Packets = {p1, p2, p3}
    None = None
    N = 3
    Type <- ReverseType
    Kind <- HttpKind
    Returns <- Plugins
    StartMayFail = TRUE
SYMMETRY Symmetry
INVARIANTS
    Ownership
    NoOrphan
    NeverPastTheEnd
    DirectionAgrees
    TeardownOrder
CHECK_DEADLOCK FALSE
