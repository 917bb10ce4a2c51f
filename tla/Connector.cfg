\* Three calls of balance_transaction on one dict.
SPECIFICATION Spec
CONSTANTS
    Calls = {c1, c2, c3}
    Utxos <- MCUtxos
    Offers <- MCOffers
    MIN_FEE = 1
SYMMETRY Symmetry
INVARIANTS
    NoDuplicateInputs
    NeverUnderfunded
PROPERTIES
    RebalanceIsExact
