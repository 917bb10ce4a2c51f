SPECIFICATION KeystoreSpec
CONSTANTS
    Processes = {p1, p2}
    Secrets = {1, 2}
    Passwords = {w1, w2}
    MaxSaves = 3
INVARIANTS
    LoadedIsGenuine
    SaveReplaces
CHECK_DEADLOCK FALSE
