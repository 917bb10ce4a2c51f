\* The tree at depth 3, with a position used twice and one out of bounds; a
\* curve of 56 points; path elements of 3 bits.
SPECIFICATION MCSpec
CONSTANTS
    Unused = Unused
    Depth = 3
    Notes = {n1, n2}
    Indices = {0, 1, 5, 7, 8}
    MaxCoins = 3
    Zero = Zero
    None = None
    P = 53
    D = 3
    GU = 5
    GV = 17
    Order = 7
    Messages <- MCMessages
    Unhashed = Unhashed
    Mnemonics = {m1, m2, bad}
    Valid = {m1, m2}
    Accounts = {0, 1, 3, 4, 5, 7, 8}
    KeyIndices = {0, 1, 3, 7, 8}
    Pending = Pending
    WordBits = 3
    Environments = {"sr25519", "blake2b"}
INVARIANTS
    RootIsComplete
    ProofsVerify
    CommitmentsAdd
    SpongeSeparates
    KeysSeparate
CHECK_DEADLOCK FALSE
