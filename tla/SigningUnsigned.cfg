SPECIFICATION Spec
CONSTANTS
    Dicts <- EmptyDicts
    Balances = {0, 1, 2}
    MaxAttempts = 2
    Absent = Absent
INVARIANTS
    SpendsAreSigned
CHECK_DEADLOCK FALSE
