------------------------------ MODULE UtxoOps ------------------------------
(***************************************************************************)
(* UTXO selection as a relation between the eligible UTXOs and the value   *)
(* to cover.  The order of the indexer's list decides between UTXOs of     *)
(* equal value and is not specified, so several selections may be possible *)
(* for one set.  CoinSelection shows that the loops of                     *)
(* _build_unshielded_transfer compute a member of this relation;           *)
(* TransactionBuilder uses the relation.                                   *)
(***************************************************************************)
EXTENDS Integers, FiniteSetsExt

Total(S) == MapThenSumSet(LAMBDA u : u.value, S)

\* UTXOs that cover the requirement exactly (Step A).
ExactMatches(E, required) == {u \in E : u.value = required}

\* Every chosen UTXO is at least as large as every one left behind.
LargestFirst(S, E) == \A u \in S, w \in E \ S : u.value >= w.value

\* The greedy loop stopped at S: the last one taken, a smallest of S, was
\* needed, or was the first one tried.
StopsAt(S, required) ==
    \E last \in S :
        /\ \A u \in S : u.value >= last.value
        /\ S = {last} \/ Total(S \ {last}) < required

\* Step B: what the greedy loop over a descending list may end with.  It
\* takes at least one UTXO when there is one; {} when all are too little.
GreedySelections(E, required) ==
    {S \in SUBSET E :
        /\ LargestFirst(S, E)
        /\ Total(S) >= required
        /\ S = {} \/ StopsAt(S, required)
        /\ S = {} => E = {}}

\* The input sets the builder may choose; {} when the balance is too small.
Selections(E, required) ==
    IF ExactMatches(E, required) # {}
    THEN {{u} : u \in ExactMatches(E, required)}
    ELSE GreedySelections(E, required)
=============================================================================
