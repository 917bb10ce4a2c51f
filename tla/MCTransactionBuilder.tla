------------------------ MODULE MCTransactionBuilder ------------------------
(***************************************************************************)
(* TransactionBuilder with two concurrent calls on a wallet whose UTXOs    *)
(* are too few for both to have their own, so that selections overlap.     *)
(***************************************************************************)
EXTENDS ContractService, TLC

Utxo(id, owner, value) == [id |-> <<"genesis", id>>, owner |-> owner, value |-> value]

\* Two NIGHT UTXOs and one DUST UTXO.
MCGenesis == {Utxo(1, "unshielded", 4), Utxo(2, "unshielded", 3), Utxo(3, "dust", 4)}

\* One shielded coin.
MCCoins == {[id |-> 1, value |-> 2]}

\* No shielded coin.
NoCoins == {}

Symmetry == Permutations(Tasks)
=============================================================================
