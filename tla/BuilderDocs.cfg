\* Exceptions of call_contract and of a shielded transfer by a wallet without
\* coins, and what stands at the address deploy returns.
SPECIFICATION Spec
CONSTANTS
    Tasks = {t1, t2}
    Kinds = {"shielded", "contract_call", "contract_deploy"}
    Amounts = {0, 2}
    Fees = {1}
    DUST_THRESHOLD = 2
    Genesis <- MCGenesis
    Coins <- NoCoins
    ResultKey = "transaction_result"
    NoCall = NoCall
SYMMETRY Symmetry
INVARIANTS
    ConstructionErrorsWrapped
    InstancesHaveContracts
