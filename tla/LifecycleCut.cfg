SPECIFICATION Spec
CONSTANTS
    Sessions = {s1}
    None = None
INVARIANTS
    ContextManagerCloses
CHECK_DEADLOCK FALSE
