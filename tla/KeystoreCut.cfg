SPECIFICATION KeystoreSpec
CONSTANTS
    Processes = {p1}
    Secrets = {1, 2}
    Passwords = {w1}
    MaxSaves = 2
INVARIANTS
    StoredSafely
CHECK_DEADLOCK FALSE
