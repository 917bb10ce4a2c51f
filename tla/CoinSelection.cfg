\* Every answer of up to three UTXOs, values around the dust threshold.
SPECIFICATION Spec
CONSTANTS
    MaxUtxos = 3
    Values = {0, 1, 2, 5}
    Outpoints <- MCOutpoints
    Responses <- MCResponses
    Tokens <- MCTokens
    NIGHT = "NIGHT"
    Amounts = {0, 1, 4}
    Fees = {0, 2}
    None = None
    MIN_FEE = 1
    DUST_THRESHOLD = 3
INVARIANTS
    ValueConserved
    InsufficientOnlyWhenShort
    InputsDistinctAndEligible
    DustProtection
    FewestInputs
    LoopsMatchSelections
