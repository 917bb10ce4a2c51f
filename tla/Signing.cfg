SPECIFICATION Spec
CONSTANTS
    Dicts <- AllDicts
    Balances = {0, 1, 2}
    MaxAttempts = 3
    Absent = Absent
INVARIANTS
    SignaturesCoverSent
    GuaranteedSignedByOwner
    ResentAlike
CHECK_DEADLOCK FALSE
