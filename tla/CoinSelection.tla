--------------------------- MODULE CoinSelection ---------------------------
(***************************************************************************)
(* UTXO selection and offer construction of                                *)
(* TransactionBuilder._build_unshielded_transfer, from the moment          *)
(* get_utxos has returned to the finished envelope or the raised           *)
(* TransactionError.  One action per loop iteration of the code, so that   *)
(* the loops, their early exits and the rewriting of real_fee by the dust  *)
(* protection are all visible.                                             *)
(***************************************************************************)
EXTENDS Integers, Sequences, FiniteSets, Functions, ValueSums, UtxoOps

CONSTANTS
    Outpoints,       \* (intentHash, outputNo) pairs
    Responses,       \* the UTXO lists the indexer may return
    Tokens,          \* token types
    NIGHT,           \* the native token, 32 zero bytes
    Amounts,         \* amounts a caller may ask for
    Fees,            \* fees a caller may pass
    None,            \* "fee" left out by the caller
    MIN_FEE,         \* config.min_fee
    DUST_THRESHOLD   \* TransactionBuilder.DUST_THRESHOLD

\* How the indexer may write the token type of a UTXO: a hex string, with or
\* without 0x and in any case, an object {"hex": ...}, or nothing at all.
TokenForms == {"hex", "0xHEX", "object", "absent"}

\* Tests answer with token_type, the indexer, as GET_UTXOS asks it, with tokenType.
RawTokens == [key : {"token_type", "tokenType"}, form : TokenForms, name : Tokens]

ASSUME ParameterAssumption ==
    /\ NIGHT \in Tokens
    /\ Amounts \subseteq Nat
    /\ Fees \subseteq Nat
    /\ None \notin Nat
    /\ MIN_FEE \in Nat
    /\ DUST_THRESHOLD \in Nat

Utxo == [outpoint : Outpoints, value : Nat, token : RawTokens]

\* An indexer response is a list of distinct outpoints.
ASSUME ResponseAssumption ==
    /\ Responses \subseteq Seq(Utxo)
    /\ \A r \in Responses : \A i, j \in 1 .. Len(r) :
          r[i].outpoint = r[j].outpoint => i = j

VARIABLES
    pc,             \* where the coroutine is
    utxos,          \* the indexer's answer
    token_type,     \* token asked for
    amount,         \* amount asked for
    real_fee,       \* fee argument or min_fee, later plus the absorbed change
    required,       \* amount + fee, fixed before the dust protection
    eligible,       \* UTXOs of the token asked for
    selected,       \* UTXOs chosen so far
    current_total,  \* value of the UTXOs chosen so far
    idx,            \* index of the running for loop
    inputs,         \* UtxoSpend lines of the offer
    outputs,        \* UtxoOutput lines of the offer
    bound_fee       \* value inside the binding commitment

args == <<utxos, token_type, amount>>
offer == <<inputs, outputs, bound_fee>>
vars == <<pc, args, real_fee, required, eligible, selected, current_total, idx, offer>>

\* The normalised token of a UTXO: an absent type counts as NIGHT, every
\* written form compares by its lower-case hex digits.
TokenOf(u) == IF u.token.form = "absent" THEN NIGHT ELSE u.token.name

Init ==
    /\ pc = "filter"
    /\ utxos \in Responses
    /\ token_type \in Tokens
    /\ amount \in Amounts
    /\ \E fee \in Fees \cup {None} : real_fee = IF fee = None THEN MIN_FEE ELSE fee
    /\ required = 0
    /\ eligible = <<>>
    /\ selected = <<>>
    /\ current_total = 0
    /\ idx = 1
    /\ inputs = <<>>
    /\ outputs = <<>>
    /\ bound_fee = 0

-----------------------------------------------------------------------------
\* for utxo in utxos: keep the ones of the token asked for
FilterStep ==
    /\ pc = "filter"
    /\ idx <= Len(utxos)
    /\ eligible' = IF TokenOf(utxos[idx]) = token_type
                   THEN Append(eligible, utxos[idx])
                   ELSE eligible
    /\ idx' = idx + 1
    /\ UNCHANGED <<pc, args, real_fee, required, selected, current_total, offer>>

\* the filter is exhausted: fix the amount to cover
FilterDone ==
    /\ pc = "filter"
    /\ idx > Len(utxos)
    /\ required' = amount + real_fee
    /\ idx' = 1
    /\ pc' = "exact"
    /\ UNCHANGED <<args, real_fee, eligible, selected, current_total, offer>>

\* Faulty: the exact match is never taken.
ExactNeverTaken ==
    /\ pc = "exact"
    /\ idx <= Len(eligible)
    /\ idx' = idx + 1
    /\ UNCHANGED <<pc, args, real_fee, required, eligible, selected, current_total, offer>>

\* Step A, one iteration: a single UTXO that covers amount and fee exactly
ExactStep ==
    /\ pc = "exact"
    /\ idx <= Len(eligible)
    /\ \/ /\ eligible[idx].value = required
          /\ selected' = <<eligible[idx]>>
          /\ current_total' = required
          /\ pc' = "check"
          /\ UNCHANGED idx
       \/ /\ eligible[idx].value # required
          /\ idx' = idx + 1
          /\ UNCHANGED <<pc, selected, current_total>>
    /\ UNCHANGED <<args, real_fee, required, eligible, offer>>

\* Faulty: reverse=True forgotten.
SortsAscending(p, s) ==
    \A i, j \in 1 .. Len(s) :
        i < j => \/ s[p[i]].value < s[p[j]].value
                 \/ s[p[i]].value = s[p[j]].value /\ p[i] < p[j]

\* p lists the positions of s by descending value; equal values keep their
\* order, as list.sort(reverse=True) does.
SortsDescending(p, s) ==
    \A i, j \in 1 .. Len(s) :
        i < j => \/ s[p[i]].value > s[p[j]].value
                 \/ s[p[i]].value = s[p[j]].value /\ p[i] < p[j]

\* Step B: no exact match; sort and start the greedy loop
SortEligible ==
    /\ pc = "exact"
    /\ idx > Len(eligible)
    /\ \E p \in Bijection(1 .. Len(eligible), 1 .. Len(eligible)) :
          /\ SortsDescending(p, eligible)
          /\ eligible' = [i \in 1 .. Len(eligible) |-> eligible[p[i]]]
    /\ current_total' = 0
    /\ idx' = 1
    /\ pc' = "greedy"
    /\ UNCHANGED <<args, real_fee, required, selected, offer>>

\* Faulty: the loop takes the same UTXO again.
GreedyRepeats ==
    /\ pc = "greedy"
    /\ idx <= Len(eligible)
    /\ selected' = Append(selected, eligible[idx])
    /\ current_total' = current_total + eligible[idx].value
    /\ pc' = IF current_total' >= required \/ Len(selected) > 2 THEN "check" ELSE "greedy"
    /\ UNCHANGED <<idx, args, real_fee, required, eligible, offer>>

\* Step B, one iteration: take the next largest, stop once it is enough
GreedyStep ==
    /\ pc = "greedy"
    /\ idx <= Len(eligible)
    /\ selected' = Append(selected, eligible[idx])
    /\ current_total' = current_total + eligible[idx].value
    /\ pc' = IF current_total' >= required THEN "check" ELSE "greedy"
    /\ idx' = idx + 1
    /\ UNCHANGED <<args, real_fee, required, eligible, offer>>

\* Step B: nothing left to take
GreedyExhausted ==
    /\ pc = "greedy"
    /\ idx > Len(eligible)
    /\ pc' = "check"
    /\ UNCHANGED <<args, real_fee, required, eligible, selected, current_total, idx, offer>>

\* Faulty: raised although the total is just enough.
RaiseAtExactTotal ==
    /\ pc = "check"
    /\ current_total <= required
    /\ pc' = "insufficient"
    /\ UNCHANGED <<args, real_fee, required, eligible, selected, current_total, idx, offer>>

\* raise TransactionError("Insufficient unshielded balance ...")
RaiseInsufficient ==
    /\ pc = "check"
    /\ current_total < required
    /\ pc' = "insufficient"
    /\ UNCHANGED <<args, real_fee, required, eligible, selected, current_total, idx, offer>>

\* The change left over after amount and fee.
Change == current_total - required

\* Faulty: tiny change is dropped from the outputs but not added to the fee.
AbsorbedNowhere == 0

\* Faulty: change of exactly the threshold is absorbed.
AbsorbedAtThreshold == IF Change <= DUST_THRESHOLD THEN Change ELSE 0

\* Change too small for a UTXO of its own is given to the fee.
Absorbed == IF Change < DUST_THRESHOLD THEN Change ELSE 0

PaymentOutput ==
    IF amount > 0 THEN <<[value |-> amount, owner |-> "recipient"]>> ELSE <<>>

ChangeOutput ==
    IF Change >= DUST_THRESHOLD /\ Change > 0
    THEN <<[value |-> Change, owner |-> "self"]>>
    ELSE <<>>

\* inputs, outputs, dust protection and the binding commitment over the fee
BuildOffer ==
    /\ pc = "check"
    /\ current_total >= required
    /\ inputs' = [i \in 1 .. Len(selected) |->
                     [value |-> selected[i].value, outpoint |-> selected[i].outpoint]]
    /\ outputs' = PaymentOutput \o ChangeOutput
    /\ real_fee' = real_fee + Absorbed
    /\ bound_fee' = real_fee'
    /\ pc' = "built"
    /\ UNCHANGED <<args, required, eligible, selected, current_total, idx>>

\* The coroutine has returned or raised.
Finished ==
    /\ pc \in {"built", "insufficient"}
    /\ UNCHANGED vars

Next ==
    \/ FilterStep
    \/ FilterDone
    \/ ExactStep
    \/ SortEligible
    \/ GreedyStep
    \/ GreedyExhausted
    \/ RaiseInsufficient
    \/ BuildOffer
    \/ Finished

Spec == Init /\ [][Next]_vars

-----------------------------------------------------------------------------
Input == [value : Nat, outpoint : Outpoints]
Output == [value : Nat, owner : {"recipient", "self"}]

\* The state of the coroutine of _build_unshielded_transfer.
TypeOK ==
    /\ pc \in {"filter", "exact", "greedy", "check", "insufficient", "built"}
    /\ utxos \in Seq(Utxo)
    /\ token_type \in Tokens
    /\ amount \in Nat
    /\ real_fee \in Nat
    /\ required \in Nat
    /\ eligible \in Seq(Utxo)
    /\ selected \in Seq(Utxo)
    /\ current_total \in Nat
    /\ idx \in Nat \ {0}
    /\ inputs \in Seq(Input)
    /\ outputs \in Seq(Output)
    /\ bound_fee \in Nat

\* The UTXOs of the answer that carry the token asked for.
EligibleSet == {u \in Range(utxos) : TokenOf(u) = token_type}

\* The offer balances: what the inputs bring in is what the outputs pay out
\* plus the fee the transaction reports and commits to, whichever way the
\* inputs were found and wherever the change went (lines 186-264).
ValueConserved ==
    pc = "built" => /\ SumValues(inputs) = SumValues(outputs) + real_fee
                    /\ bound_fee = real_fee

\* "Insufficient unshielded balance" is raised only after every UTXO of the
\* token has been counted and all of them together are too little.
InsufficientOnlyWhenShort ==
    pc = "insufficient" => /\ Range(selected) = EligibleSet
                           /\ SumValues(selected) < required

\* No outpoint is spent twice by the offer, and every input is a UTXO of the
\* token asked for.
InputsDistinctAndEligible ==
    pc = "built" =>
        /\ \A i, j \in 1 .. Len(inputs) : inputs[i].outpoint = inputs[j].outpoint => i = j
        /\ \A i \in 1 .. Len(inputs) : \E u \in EligibleSet :
              u.outpoint = inputs[i].outpoint /\ u.value = inputs[i].value

\* The dust protection never costs the caller DUST_THRESHOLD or more on top
\* of the fee asked for, and never creates a change output below it.
DustProtection ==
    pc = "built" =>
        /\ real_fee > required - amount => real_fee - (required - amount) < DUST_THRESHOLD
        /\ \A i \in 1 .. Len(outputs) :
              outputs[i].owner = "self" => outputs[i].value >= DUST_THRESHOLD

\* "Sort descending by value to minimize inputs": no set of eligible UTXOs
\* with fewer members covers a positive requirement.
FewestInputs ==
    (pc = "built" /\ required > 0) =>
        \A S \in SUBSET EligibleSet :
            Total(S) >= required => Len(inputs) <= Cardinality(S)

\* What the loops compute is what the relation Selections of UtxoOps says,
\* and they raise exactly when that relation is empty.
LoopsMatchSelections ==
    /\ pc = "built" => Range(selected) \in Selections(EligibleSet, required)
    /\ pc = "insufficient" => Selections(EligibleSet, required) = {}

\* The text under which UnshieldedWallet.get_balance counts a UTXO: it reads
\* token_type only, and takes what it finds as it is written.
BalanceText(u) ==
    CASE u.token.key = "tokenType" \/ u.token.form = "absent" -> [form |-> "hex", name |-> NIGHT]
      [] u.token.form = "object" -> [form |-> "hex", name |-> u.token.name]
      [] OTHER -> [form |-> u.token.form, name |-> u.token.name]

\* get_balance()[token.hex()]
Balance(token) ==
    LET counted == {i \in DOMAIN utxos : BalanceText(utxos[i]) = [form |-> "hex", name |-> token]}
    IN  Total({utxos[i] : i \in counted})

\* The answers of GET_UTXOS, the only query: it asks for tokenType.
Queried == \A u \in Range(utxos) : u.token.key = "tokenType"

\* wallet/unshielded.py:60 "Returns {token_type_hex: amount_specks}": what the
\* wallet shows of a token is what the selection has to spend of it.
BalanceIsSpendable ==
    (Queried /\ pc # "filter") => SumValues(eligible) = Balance(token_type)

\* DUST_THRESHOLD is documented as the "Minimum UTXO value to avoid spam":
\* no output of a finished offer is below it.
NoOutputBelowThreshold ==
    pc = "built" => \A i \in 1 .. Len(outputs) : outputs[i].value >= DUST_THRESHOLD
=============================================================================
