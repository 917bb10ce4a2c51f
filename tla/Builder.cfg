\* Two concurrent calls of any kind, by a wallet without shielded coins, so
\* that a shielded transfer of 0 has only circuits that can be proved.  The
\* indexer writes results as the testkit's does: with the key the query asks
\* for no receipt would ever come.
SPECIFICATION Spec
CONSTANTS
    Tasks = {t1, t2}
    Kinds = {"unshielded", "shielded", "contract_call", "contract_deploy"}
    Amounts = {0, 2}
    Fees = {1}
    DUST_THRESHOLD = 2
    Genesis <- MCGenesis
    Coins <- NoCoins
    ResultKey = "transaction_result"
    NoCall = NoCall
INVARIANTS
    ErrorMeansNoEffect
    ReceiptTruthful
    NoSharedSpend
    AppliedOnce
    FundsAccountedFor
PROPERTIES
    EveryCallEnds
    KeepsContract
