----------------------------- MODULE ValueSums -----------------------------
(***************************************************************************)
(* Totals of transaction inputs and outputs.  A line of an offer is any    *)
(* record with a natural number field "value"; SumValues adds them up the  *)
(* way the ledger balances an unshielded offer.                            *)
(*                                                                         *)
(* SumValues is a recursive function of the length of the prefix, so that  *)
(* the proofs can reason about it (OperatorProofs).                        *)
(***************************************************************************)
EXTENDS Integers, Sequences

\* PrefixSums(s)[i] is the total value of the first i elements of s.
PrefixSums(s) ==
    LET f[i \in 0 .. Len(s)] == IF i = 0 THEN 0 ELSE f[i - 1] + s[i].value
    IN  f

SumValues(s) == PrefixSums(s)[Len(s)]

\* Every element of s carries a natural number value.
Valued(s) == \A i \in 1 .. Len(s) : s[i].value \in Nat
=============================================================================
