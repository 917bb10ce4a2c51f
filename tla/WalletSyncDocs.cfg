\* What docstrings say of the coins a synchronisation finds.
SPECIFICATION Spec
CONSTANTS
    Calls = {c1}
    Coins = {k1, k2}
    MaxEvents = 2
INVARIANTS
    CollectsUnspent
    StateSynced
CHECK_DEADLOCK FALSE
