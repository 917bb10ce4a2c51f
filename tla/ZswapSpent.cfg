\* Coins whose nullifier is reported.
SPECIFICATION ZswapSpec
CONSTANTS
    Depth = 3
    Notes = {n1, n2}
    Indices = {0, 1, 5, 7, 8}
    MaxCoins = 3
    Zero = Zero
    None = None
PROPERTIES
    MarkSpentRemoves
