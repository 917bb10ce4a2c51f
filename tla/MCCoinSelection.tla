-------------------------- MODULE MCCoinSelection --------------------------
(***************************************************************************)
(* CoinSelection on every indexer answer of up to MaxUtxos UTXOs, with     *)
(* values on both sides of the dust threshold, of the exact match and of   *)
(* zero.  Outpoint i is at position i, so answers differ by values, tokens *)
(* and token forms.                                                        *)
(***************************************************************************)
EXTENDS CoinSelection

CONSTANTS MaxUtxos, Values

MCOutpoints == 1 .. MaxUtxos

MCTokens == {"NIGHT", "OTHER"}

\* The written forms matter only per UTXO: one of each form.
Raw(key, form, name) == [key |-> key, form |-> form, name |-> name]

MCRaw == {Raw("token_type", "hex", "NIGHT"), Raw("token_type", "absent", "OTHER"),
          Raw("token_type", "object", "OTHER"), Raw("tokenType", "0xHEX", "OTHER")}

MCResponses ==
    UNION {{[i \in 1 .. n |-> [outpoint |-> i, value |-> f[i][1], token |-> f[i][2]]] :
               f \in [1 .. n -> Values \X MCRaw]} : n \in 0 .. MaxUtxos}
=============================================================================
