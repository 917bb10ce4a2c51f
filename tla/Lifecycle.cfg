SPECIFICATION Spec
CONSTANTS
    Sessions = {s1, s2}
    None = None
SYMMETRY Symmetry
INVARIANTS
    NothingElseDropped
    ClosedWhenDone
    BodyConnected
CHECK_DEADLOCK FALSE
