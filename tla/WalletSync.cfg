SPECIFICATION FairSpec
CONSTANTS
    Calls = {c1, c2}
    Coins = {k1, k2}
    MaxEvents = 2
INVARIANTS
    SessionsClosed
    CoinsComplete
PROPERTIES
    EndsAfterStream
CHECK_DEADLOCK FALSE
