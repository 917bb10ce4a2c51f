\* Bytes and texts are read back as what was written, and as nothing else.
SPECIFICATION MCSpec
CONSTANTS
    Numbers <- MCIntegers
    Arguments <- MCArguments
    Transactions <- MCTransactions
    MaxNesting = 2
    ProofSize = 2
    NoOffer = NoOffer
    Addresses <- MCAddresses
    Typed = {113, 112, 49}
    MaxErrors = 2
    MaxSlips = 3
INVARIANTS
    ReadBack
    RoundTrip
    ErrorsDetected
    Canonical
CHECK_DEADLOCK FALSE
