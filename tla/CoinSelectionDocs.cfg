\* The documented minimum of an output, and of the balance what transfers can spend.
SPECIFICATION Spec
CONSTANTS
    MaxUtxos = 2
    Values = {1, 2, 5}
    Outpoints <- MCOutpoints
    Responses <- MCResponses
    Tokens <- MCTokens
    NIGHT = "NIGHT"
    Amounts = {0, 1, 4}
    Fees = {0, 2}
    None = None
    MIN_FEE = 1
    DUST_THRESHOLD = 3
INVARIANTS
    NoOutputBelowThreshold
    BalanceIsSpendable
