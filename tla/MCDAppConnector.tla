--------------------------- MODULE MCDAppConnector ---------------------------
(***************************************************************************)
(* Three calls on one transaction; the dApp's offer starts empty, with an  *)
(* output, or with an input of its own that the indexer also shows: too    *)
(* little, just enough or too much for the output and the fee.             *)
(***************************************************************************)
EXTENDS DAppConnector, TLC

Utxo(id, value) == [id |-> id, value |-> value]

MCUtxos == {Utxo(1, 1), Utxo(2, 2), Utxo(3, 4), Utxo(4, 7)}

MCOffers ==
    {[inputs |-> {}, outputs |-> 0], [inputs |-> {}, outputs |-> 3],
     [inputs |-> {Utxo(2, 2)}, outputs |-> 4], [inputs |-> {Utxo(3, 4)}, outputs |-> 3],
     [inputs |-> {Utxo(4, 7)}, outputs |-> 3]}

Symmetry == Permutations(Calls)
=============================================================================
