\* Addresses as the wallets hand them out.
SPECIFICATION MCSpec
CONSTANTS
    Numbers = {}
    Arguments = {}
    Transactions = {}
    MaxNesting = 0
    ProofSize = 2
    NoOffer = NoOffer
    Addresses <- RealAddresses
    Typed = {113}
    MaxErrors = 0
    MaxSlips = 0
INVARIANTS
    RecipientHas32Bytes
CHECK_DEADLOCK FALSE
