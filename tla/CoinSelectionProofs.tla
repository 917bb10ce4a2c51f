------------------------ MODULE CoinSelectionProofs ------------------------
(***************************************************************************)
(* Invariants of CoinSelection for every indexer answer, amount, fee and   *)
(* dust threshold.  The inductive invariant SelInv says what each loop has *)
(* established so far; the properties of the finished offer follow.        *)
(***************************************************************************)
EXTENDS CoinSelection, OperatorProofs, SequenceTheorems

\* The elements of a list of UTXOs are spendable once: outpoints differ.
DistinctOutpoints(s) == \A i, j \in 1 .. Len(s) : s[i].outpoint = s[j].outpoint => i = j

\* The part of the answer the filter loop has looked at.
Scanned == IF pc = "filter" THEN idx - 1 ELSE Len(utxos)

\* What the filter loop keeps: exactly the scanned UTXOs of the token.
FilterInv ==
    /\ DistinctOutpoints(utxos)
    /\ Scanned <= Len(utxos)
    /\ \A i \in 1 .. Len(eligible) :
          \E k \in 1 .. Scanned : eligible[i] = utxos[k] /\ TokenOf(utxos[k]) = token_type
    /\ \A k \in 1 .. Scanned :
          TokenOf(utxos[k]) = token_type => \E i \in 1 .. Len(eligible) : eligible[i] = utxos[k]
    /\ DistinctOutpoints(eligible)

\* What the selection loops keep: selected holds distinct eligible UTXOs
\* worth current_total, and falls short only when it holds all of them.
SelectInv ==
    /\ pc \in {"filter", "exact"} => selected = <<>> /\ current_total = 0
    /\ pc = "greedy" => /\ Len(selected) = idx - 1 /\ idx - 1 <= Len(eligible)
                        /\ \A i \in 1 .. Len(selected) : selected[i] = eligible[i]
    /\ \A i \in 1 .. Len(selected) : \E j \in 1 .. Len(eligible) : selected[i] = eligible[j]
    /\ DistinctOutpoints(selected)
    /\ SumValues(selected) = current_total
    /\ (pc \in {"check", "insufficient", "built"} /\ current_total < required) =>
          /\ Len(selected) = Len(eligible)
          /\ \A i \in 1 .. Len(selected) : selected[i] = eligible[i]

\* The amount to cover is fixed after the filter; the fee grows only by the
\* absorbed change when the offer is built.
FeeInv ==
    /\ pc \notin {"filter", "built"} => required = amount + real_fee
    /\ pc = "insufficient" => current_total < required
    /\ pc = "built" => /\ current_total >= required /\ required >= amount
                       /\ real_fee = required - amount + Absorbed
                       /\ outputs = PaymentOutput \o ChangeOutput
                       /\ bound_fee = real_fee
                       /\ Len(inputs) = Len(selected)
                       /\ \A i \in 1 .. Len(selected) :
                             /\ inputs[i].value = selected[i].value
                             /\ inputs[i].outpoint = selected[i].outpoint

SelInv == TypeOK /\ FilterInv /\ SelectInv /\ FeeInv

-----------------------------------------------------------------------------
\* Every state of _build_unshielded_transfer is well typed; in particular the
\* change, and so the fee, is never negative.
THEOREM TypeCorrect == Spec => []TypeOK
<1>1. Init => TypeOK
  BY ParameterAssumption, ResponseAssumption DEF Init, TypeOK
<1>2. TypeOK /\ [Next]_vars => TypeOK'
  <2> SUFFICES ASSUME TypeOK, [Next]_vars
               PROVE  TypeOK'
    OBVIOUS
  <2> USE DEF TypeOK
  <2>1. CASE FilterStep
    <3>1. utxos[idx] \in Utxo
      BY <2>1 DEF FilterStep
    <3>2. eligible' \in Seq(Utxo)
      BY <2>1, <3>1 DEF FilterStep
    <3> QED
      BY <2>1, <3>2 DEF FilterStep, args, offer
  <2>2. CASE FilterDone
    BY <2>2 DEF FilterDone, args, offer
  <2>3. CASE ExactStep
    <3>1. eligible[idx] \in Utxo
      BY <2>3 DEF ExactStep
    <3>2. selected' \in Seq(Utxo)
      <4>1. <<eligible[idx]>> \in Seq(Utxo)
        BY <3>1
      <4> QED
        BY <2>3, <4>1 DEF ExactStep
    <3>3. pc' \in {"exact", "check"} /\ current_total' \in Nat /\ idx' \in Nat \ {0}
      BY <2>3 DEF ExactStep
    <3> QED
      BY <2>3, <3>2, <3>3 DEF ExactStep, args, offer
  <2>4. CASE SortEligible
    <3>1. PICK p \in Bijection(1 .. Len(eligible), 1 .. Len(eligible)) :
              eligible' = [i \in 1 .. Len(eligible) |-> eligible[p[i]]]
      BY <2>4 DEF SortEligible
    <3>2. p \in [1 .. Len(eligible) -> 1 .. Len(eligible)]
      BY <3>1 DEF Bijection, Injection
    <3>3. eligible' \in Seq(Utxo)
      BY <3>1, <3>2
    <3> QED
      BY <2>4, <3>3 DEF SortEligible, args, offer
  <2>5. CASE GreedyStep
    <3>1. eligible[idx] \in Utxo
      BY <2>5 DEF GreedyStep
    <3>2. selected' \in Seq(Utxo)
      BY <2>5, <3>1 DEF GreedyStep
    <3>3. eligible[idx].value \in Nat
      BY <3>1 DEF Utxo
    <3>4. current_total' \in Nat
      BY <2>5, <3>3 DEF GreedyStep
    <3>5. pc' \in {"greedy", "check"} /\ idx' \in Nat \ {0}
      BY <2>5 DEF GreedyStep
    <3> QED
      BY <2>5, <3>2, <3>4, <3>5 DEF GreedyStep, args, offer
  <2>6. CASE GreedyExhausted
    BY <2>6 DEF GreedyExhausted, args, offer
  <2>7. CASE RaiseInsufficient
    BY <2>7 DEF RaiseInsufficient, args, offer
  <2>8. CASE BuildOffer
    <3>1. Change \in Nat
      BY <2>8 DEF BuildOffer, Change
    <3>2. real_fee' \in Nat /\ bound_fee' \in Nat
      BY <2>8, <3>1, ParameterAssumption DEF BuildOffer, Absorbed
    <3>3. inputs' \in Seq(Input)
      <4>1. \A i \in 1 .. Len(selected) :
                [value |-> selected[i].value, outpoint |-> selected[i].outpoint] \in Input
        <5> SUFFICES ASSUME NEW i \in 1 .. Len(selected)
                     PROVE  [value |-> selected[i].value, outpoint |-> selected[i].outpoint] \in Input
          OBVIOUS
        <5>1. selected[i] \in Utxo
          OBVIOUS
        <5>2. selected[i].value \in Nat /\ selected[i].outpoint \in Outpoints
          BY <5>1 DEF Utxo
        <5> QED
          BY <5>2 DEF Input
      <4> QED
        BY <2>8, <4>1 DEF BuildOffer
    <3>4. outputs' \in Seq(Output)
      <4>1. PaymentOutput \in Seq(Output)
        <5>1. [value |-> amount, owner |-> "recipient"] \in Output
          BY DEF Output
        <5> QED
          BY <5>1 DEF PaymentOutput
      <4>2. ChangeOutput \in Seq(Output)
        <5>1. [value |-> Change, owner |-> "self"] \in Output
          BY <3>1 DEF Output
        <5> QED
          BY <5>1 DEF ChangeOutput
      <4> QED
        BY <2>8, <4>1, <4>2 DEF BuildOffer
    <3> QED
      BY <2>8, <3>2, <3>3, <3>4 DEF BuildOffer, args
  <2>9. CASE Finished
    BY <2>9 DEF Finished, vars, args, offer
  <2>10. CASE UNCHANGED vars
    BY <2>10 DEF vars, args, offer
  <2> QED
    BY <2>1, <2>2, <2>3, <2>4, <2>5, <2>6, <2>7, <2>8, <2>9, <2>10 DEF Next
<1> QED
  BY <1>1, <1>2, PTL DEF Spec

-----------------------------------------------------------------------------
\* Lists of UTXOs can be totalled.
LEMMA ValuedSelection ==
    ASSUME NEW s \in Seq(Utxo)
    PROVE  Valued(s)
<1> SUFFICES ASSUME NEW i \in 1 .. Len(s)
             PROVE  s[i].value \in Nat
  BY DEF Valued
<1>1. s[i] \in Utxo
  OBVIOUS
<1> QED
  BY <1>1 DEF Utxo

\* The filter loop appends a UTXO it has not seen before.
LEMMA FilterStepInv ==
    ASSUME SelInv, FilterStep
    PROVE  FilterInv' /\ SelectInv' /\ FeeInv'
<1> USE DEF SelInv
<1>1. /\ pc = "filter" /\ pc' = "filter" /\ idx \in 1 .. Len(utxos) /\ idx' = idx + 1
      /\ utxos' = utxos /\ token_type' = token_type /\ eligible \in Seq(Utxo)
      /\ Len(utxos) \in Nat /\ utxos[idx] \in Utxo
      /\ Scanned = idx - 1 /\ Scanned' = idx
  BY DEF FilterStep, TypeOK, args, Scanned
<1>2. FilterInv'
  <2>1. CASE TokenOf(utxos[idx]) = token_type
    <3>1. /\ eligible' = Append(eligible, utxos[idx])
          /\ Len(eligible') = Len(eligible) + 1 /\ Len(eligible) \in Nat
          /\ eligible'[Len(eligible) + 1] = utxos[idx]
          /\ \A i \in 1 .. Len(eligible) : eligible'[i] = eligible[i]
      BY <1>1, <2>1 DEF FilterStep
    <3>2. \A i \in 1 .. Len(eligible') :
             \E k \in 1 .. idx : eligible'[i] = utxos[k] /\ TokenOf(utxos[k]) = token_type
      <4> SUFFICES ASSUME NEW i \in 1 .. Len(eligible')
                   PROVE  \E k \in 1 .. idx : eligible'[i] = utxos[k]
                                              /\ TokenOf(utxos[k]) = token_type
        OBVIOUS
      <4>1. CASE i = Len(eligible) + 1
        BY <1>1, <2>1, <3>1, <4>1
      <4>2. CASE i # Len(eligible) + 1
        <5>1. i \in 1 .. Len(eligible)
          BY <3>1, <4>2
        <5>2. PICK k \in 1 .. (idx - 1) : eligible[i] = utxos[k] /\ TokenOf(utxos[k]) = token_type
          BY <1>1, <5>1 DEF FilterInv
        <5> QED
          BY <1>1, <3>1, <5>1, <5>2
      <4> QED
        BY <4>1, <4>2
    <3>3. \A k \in 1 .. idx : TokenOf(utxos[k]) = token_type =>
             \E i \in 1 .. Len(eligible') : eligible'[i] = utxos[k]
      <4> SUFFICES ASSUME NEW k \in 1 .. idx, TokenOf(utxos[k]) = token_type
                   PROVE  \E i \in 1 .. Len(eligible') : eligible'[i] = utxos[k]
        OBVIOUS
      <4>1. CASE k = idx
        BY <3>1, <4>1
      <4>2. CASE k # idx
        <5>1. k \in 1 .. Scanned
          BY <1>1, <4>2
        <5>2. PICK i \in 1 .. Len(eligible) : eligible[i] = utxos[k]
          BY <5>1 DEF FilterInv
        <5> QED
          BY <3>1, <5>2
      <4> QED
        BY <4>1, <4>2
    <3>4. DistinctOutpoints(eligible')
      <4>1. \A i \in 1 .. Len(eligible) : eligible[i].outpoint # utxos[idx].outpoint
        <5> SUFFICES ASSUME NEW i \in 1 .. Len(eligible)
                     PROVE  eligible[i].outpoint # utxos[idx].outpoint
          OBVIOUS
        <5>1. PICK k \in 1 .. (idx - 1) : eligible[i] = utxos[k]
          BY <1>1 DEF FilterInv
        <5>2. k \in 1 .. Len(utxos) /\ k # idx
          BY <1>1
        <5> QED
          BY <1>1, <5>1, <5>2 DEF FilterInv, DistinctOutpoints
      <4>2. \A i, j \in 1 .. Len(eligible) :
               eligible[i].outpoint = eligible[j].outpoint => i = j
        BY DEF FilterInv, DistinctOutpoints
      <4> QED
        BY <3>1, <4>1, <4>2 DEF DistinctOutpoints
    <3> QED
      BY <1>1, <3>2, <3>3, <3>4 DEF FilterInv
  <2>2. CASE TokenOf(utxos[idx]) # token_type
    <3>1. eligible' = eligible
      BY <2>2 DEF FilterStep
    <3>2. \A k \in 1 .. idx : k \in 1 .. (idx - 1) \/ k = idx
      BY <1>1
    <3> QED
      BY <1>1, <2>2, <3>1, <3>2 DEF FilterInv
  <2> QED
    BY <2>1, <2>2
<1>3. SelectInv'
  <2>1. selected' = <<>> /\ current_total' = 0 /\ selected = selected' /\ Len(selected') = 0
    BY <1>1 DEF FilterStep, SelectInv
  <2>2. SumValues(selected') = current_total'
    BY <2>1, SumEmpty
  <2> QED
    BY <1>1, <2>1, <2>2 DEF SelectInv, DistinctOutpoints
<1>4. FeeInv'
  BY <1>1 DEF FeeInv
<1> QED
  BY <1>2, <1>3, <1>4

\* The end of the filter fixes the requirement.
LEMMA FilterDoneInv ==
    ASSUME SelInv, FilterDone
    PROVE  FilterInv' /\ SelectInv' /\ FeeInv'
<1> USE DEF SelInv
<1>1. /\ pc = "filter" /\ pc' = "exact" /\ idx > Len(utxos) /\ Len(utxos) \in Nat
      /\ UNCHANGED <<utxos, token_type, amount, real_fee, eligible, selected, current_total>>
      /\ Scanned = idx - 1 /\ Scanned' = Len(utxos) /\ idx \in Nat
      /\ required' = amount + real_fee
  BY DEF FilterDone, TypeOK, args, Scanned
<1>2. Scanned' = Scanned
  BY <1>1 DEF FilterInv
<1>3. FilterInv'
  BY <1>1, <1>2 DEF FilterInv, DistinctOutpoints
<1>4. SelectInv'
  BY <1>1 DEF SelectInv, DistinctOutpoints
<1>5. FeeInv'
  BY <1>1 DEF FeeInv
<1> QED
  BY <1>3, <1>4, <1>5

\* Once the filter is done, an action that leaves the answer and the eligible
\* list alone keeps FilterInv.
LEMMA FilterInvKept ==
    ASSUME FilterInv, pc # "filter", pc' # "filter",
           UNCHANGED <<utxos, token_type, eligible>>
    PROVE  FilterInv'
<1>1. Scanned' = Scanned
  BY DEF Scanned
<1> QED
  BY <1>1 DEF FilterInv, DistinctOutpoints

\* An exact match selects one eligible UTXO worth the requirement.
LEMMA ExactStepInv ==
    ASSUME SelInv, ExactStep
    PROVE  FilterInv' /\ SelectInv' /\ FeeInv'
<1> USE DEF SelInv
<1>1. /\ pc = "exact" /\ pc' \in {"exact", "check"} /\ idx \in 1 .. Len(eligible)
      /\ UNCHANGED <<utxos, token_type, amount, real_fee, required, eligible>>
      /\ eligible \in Seq(Utxo) /\ required \in Nat
  BY DEF ExactStep, TypeOK, args
<1>2. FilterInv'
  BY <1>1, FilterInvKept
<1>3. FeeInv'
  BY <1>1 DEF FeeInv
<1>4. SelectInv'
  <2>1. CASE eligible[idx].value = required
    <3>1. /\ selected' = <<eligible[idx]>> /\ current_total' = required /\ pc' = "check"
          /\ Len(selected') = 1 /\ selected'[1] = eligible[idx]
      BY <2>1 DEF ExactStep
    <3>2. eligible[idx] \in Utxo
      BY <1>1
    <3>3. SumValues(selected') = required
      <4>1. <<>> \in Seq(Utxo) /\ Valued(<<>>) /\ eligible[idx].value \in Nat
        BY <1>1, <2>1 DEF Valued
      <4>2. SumValues(Append(<<>>, eligible[idx])) = SumValues(<<>>) + eligible[idx].value
        BY <3>2, <4>1, SumAppend
      <4>3. Append(<<>>, eligible[idx]) = <<eligible[idx]>>
        OBVIOUS
      <4> QED
        BY <1>1, <2>1, <3>1, <4>2, <4>3, SumEmpty
    <3> QED
      BY <1>1, <3>1, <3>3 DEF SelectInv, DistinctOutpoints
  <2>2. CASE eligible[idx].value # required
    BY <1>1, <2>2 DEF ExactStep, SelectInv, DistinctOutpoints
  <2> QED
    BY <2>1, <2>2
<1> QED
  BY <1>2, <1>3, <1>4

\* Sorting permutes the eligible list: its elements stay the same, and each
\* appears once.
LEMMA SortEligibleInv ==
    ASSUME SelInv, SortEligible
    PROVE  FilterInv' /\ SelectInv' /\ FeeInv'
<1> USE DEF SelInv
<1> DEFINE n == Len(eligible)
<1>1. /\ pc = "exact" /\ pc' = "greedy" /\ idx' = 1 /\ current_total' = 0
      /\ UNCHANGED <<utxos, token_type, amount, real_fee, required, selected>>
      /\ n \in Nat /\ Scanned' = Scanned
      /\ selected = <<>> /\ current_total = 0 /\ Len(selected) = 0
  BY DEF SortEligible, TypeOK, args, Scanned, SelectInv
<1>2. PICK p \in Bijection(1 .. n, 1 .. n) : eligible' = [i \in 1 .. n |-> eligible[p[i]]]
  BY DEF SortEligible
<1>3. /\ p \in [1 .. n -> 1 .. n]
      /\ \A i, j \in 1 .. n : p[i] = p[j] => i = j
      /\ \A k \in 1 .. n : \E i \in 1 .. n : p[i] = k
  BY <1>2 DEF Bijection, Injection, Surjection, IsInjective
<1>4. Len(eligible') = n /\ \A i \in 1 .. n : p[i] \in 1 .. n /\ eligible'[i] = eligible[p[i]]
  BY <1>1, <1>2, <1>3
<1> HIDE DEF n
<1>5. FilterInv'
  <2>1. \A i \in 1 .. n :
           \E k \in 1 .. Scanned : eligible'[i] = utxos[k] /\ TokenOf(utxos[k]) = token_type
    <3> SUFFICES ASSUME NEW i \in 1 .. n
                 PROVE  \E k \in 1 .. Scanned : eligible'[i] = utxos[k]
                                                /\ TokenOf(utxos[k]) = token_type
      OBVIOUS
    <3>1. p[i] \in 1 .. n /\ eligible'[i] = eligible[p[i]]
      BY <1>4
    <3>2. \E k \in 1 .. Scanned : eligible[p[i]] = utxos[k] /\ TokenOf(utxos[k]) = token_type
      BY <3>1 DEF FilterInv, n
    <3> QED
      BY <3>1, <3>2
  <2>2. \A k \in 1 .. Scanned :
           TokenOf(utxos[k]) = token_type => \E i \in 1 .. n : eligible'[i] = utxos[k]
    <3> SUFFICES ASSUME NEW k \in 1 .. Scanned, TokenOf(utxos[k]) = token_type
                 PROVE  \E i \in 1 .. n : eligible'[i] = utxos[k]
      OBVIOUS
    <3>1. PICK j \in 1 .. n : eligible[j] = utxos[k]
      BY DEF FilterInv, n
    <3>2. PICK i \in 1 .. n : p[i] = j
      BY <1>3, <3>1
    <3> QED
      BY <1>4, <3>1, <3>2
  <2>3. DistinctOutpoints(eligible')
    <3> SUFFICES ASSUME NEW i \in 1 .. n, NEW j \in 1 .. n,
                        eligible'[i].outpoint = eligible'[j].outpoint
                 PROVE  i = j
      BY <1>4 DEF DistinctOutpoints
    <3>1. p[i] \in 1 .. n /\ p[j] \in 1 .. n
      BY <1>4
    <3>2. eligible[p[i]].outpoint = eligible[p[j]].outpoint
      BY <1>4
    <3>3. p[i] = p[j]
      BY <3>1, <3>2 DEF FilterInv, DistinctOutpoints, n
    <3> QED
      BY <1>3, <3>3
  <2> QED
    BY <1>1, <1>4, <2>1, <2>2, <2>3 DEF FilterInv
<1>6. SelectInv'
  BY <1>1, <1>4 DEF SelectInv, DistinctOutpoints
<1>7. FeeInv'
  BY <1>1 DEF FeeInv
<1> QED
  BY <1>5, <1>6, <1>7

\* The greedy loop takes the next UTXO of the sorted list.
LEMMA GreedyStepInv ==
    ASSUME SelInv, GreedyStep
    PROVE  FilterInv' /\ SelectInv' /\ FeeInv'
<1> USE DEF SelInv
<1> DEFINE n == Len(selected)
           u == eligible[idx]
<1>1. /\ pc = "greedy" /\ pc' \in {"greedy", "check"} /\ idx \in 1 .. Len(eligible)
      /\ idx' = idx + 1
      /\ UNCHANGED <<utxos, token_type, amount, real_fee, required, eligible>>
      /\ eligible \in Seq(Utxo) /\ selected \in Seq(Utxo) /\ required \in Nat
      /\ current_total \in Nat
      /\ Len(eligible) \in Nat /\ n \in Nat /\ u \in Utxo
      /\ n = idx - 1
      /\ \A i \in 1 .. n : selected[i] = eligible[i]
  <2>1. /\ pc = "greedy" /\ pc' \in {"greedy", "check"} /\ idx <= Len(eligible)
        /\ idx' = idx + 1
    BY DEF GreedyStep
  <2>2. UNCHANGED <<utxos, token_type, amount, real_fee, required, eligible>>
    BY DEF GreedyStep, args
  <2>3. /\ eligible \in Seq(Utxo) /\ selected \in Seq(Utxo) /\ required \in Nat
        /\ current_total \in Nat /\ idx \in Nat \ {0}
    BY DEF TypeOK
  <2>4. n = idx - 1 /\ \A i \in 1 .. n : selected[i] = eligible[i]
    BY <2>1 DEF SelectInv
  <2>5. Len(eligible) \in Nat /\ n \in Nat /\ idx \in 1 .. Len(eligible)
    BY <2>1, <2>3
  <2>6. u \in Utxo
    BY <2>3, <2>5
  <2> QED
    BY <2>1, <2>2, <2>3, <2>4, <2>5, <2>6
<1>2. /\ selected' = Append(selected, u) /\ Len(selected') = n + 1 /\ selected'[n + 1] = u
      /\ \A i \in 1 .. n : selected'[i] = selected[i]
  BY <1>1 DEF GreedyStep
<1>3. u.value \in Nat /\ current_total' = current_total + u.value
      /\ pc' = IF current_total' >= required THEN "check" ELSE "greedy"
  BY <1>1 DEF GreedyStep, Utxo
<1>4. \A i \in 1 .. Len(selected') : i \in 1 .. Len(eligible) /\ selected'[i] = eligible[i]
  <2> SUFFICES ASSUME NEW i \in 1 .. Len(selected')
               PROVE  i \in 1 .. Len(eligible) /\ selected'[i] = eligible[i]
    OBVIOUS
  <2>1. CASE i = n + 1
    BY <1>1, <1>2, <2>1
  <2>2. CASE i # n + 1
    BY <1>1, <1>2, <2>2
  <2> QED
    BY <2>1, <2>2
<1>5. SumValues(selected') = current_total'
  <2>1. Valued(selected)
    BY <1>1, ValuedSelection
  <2>2. SumValues(Append(selected, u)) = SumValues(selected) + u.value
    BY <1>1, <1>3, <2>1, SumAppend
  <2> QED
    BY <1>2, <1>3, <2>2 DEF SelectInv
<1>6. DistinctOutpoints(selected')
  BY <1>4 DEF FilterInv, DistinctOutpoints
<1> HIDE DEF n, u
<1>7. SelectInv'
  <2>1. idx' - 1 = n + 1 /\ n + 1 <= Len(eligible)
    BY <1>1
  <2>2. (pc' = "check" => current_total' >= required) /\ current_total' \in Nat
    BY <1>1, <1>3
  <2> QED
    BY <1>1, <1>2, <1>4, <1>5, <1>6, <2>1, <2>2 DEF SelectInv
<1>8. FilterInv'
  BY <1>1, FilterInvKept
<1>9. FeeInv'
  BY <1>1 DEF FeeInv
<1> QED
  BY <1>7, <1>8, <1>9

\* The greedy loop ran out of UTXOs: all of them are selected.
LEMMA GreedyExhaustedInv ==
    ASSUME SelInv, GreedyExhausted
    PROVE  FilterInv' /\ SelectInv' /\ FeeInv'
<1> USE DEF SelInv
<1>1. /\ pc = "greedy" /\ pc' = "check" /\ idx > Len(eligible) /\ idx \in Nat
      /\ Len(eligible) \in Nat
      /\ UNCHANGED <<utxos, token_type, amount, real_fee, required, eligible, selected,
                     current_total, idx>>
  BY DEF GreedyExhausted, TypeOK, args
<1>2. FilterInv'
  BY <1>1, FilterInvKept
<1>3. SelectInv'
  BY <1>1 DEF SelectInv, DistinctOutpoints
<1>4. FeeInv'
  BY <1>1 DEF FeeInv
<1> QED
  BY <1>2, <1>3, <1>4

\* The error leaves everything the loops computed in place.
LEMMA RaiseInsufficientInv ==
    ASSUME SelInv, RaiseInsufficient
    PROVE  FilterInv' /\ SelectInv' /\ FeeInv'
<1> USE DEF SelInv
<1>1. /\ pc = "check" /\ pc' = "insufficient" /\ current_total < required
      /\ UNCHANGED <<utxos, token_type, amount, real_fee, required, eligible, selected,
                     current_total, idx>>
  BY DEF RaiseInsufficient, args
<1>2. FilterInv'
  BY <1>1, FilterInvKept
<1>3. SelectInv'
  BY <1>1 DEF SelectInv, DistinctOutpoints
<1>4. FeeInv'
  BY <1>1 DEF FeeInv
<1> QED
  BY <1>2, <1>3, <1>4

\* The offer lists the selected UTXOs; its fee is the one asked for plus the
\* absorbed change.
LEMMA BuildOfferInv ==
    ASSUME SelInv, BuildOffer
    PROVE  FilterInv' /\ SelectInv' /\ FeeInv'
<1> USE DEF SelInv
<1>1. /\ pc = "check" /\ pc' = "built" /\ current_total >= required
      /\ UNCHANGED <<utxos, token_type, amount, required, eligible, selected, current_total, idx>>
      /\ amount \in Nat /\ real_fee \in Nat /\ required = amount + real_fee
      /\ current_total \in Nat
      /\ Len(selected) \in Nat
      /\ real_fee' = real_fee + Absorbed /\ bound_fee' = real_fee'
      /\ outputs' = PaymentOutput \o ChangeOutput
      /\ inputs' = [i \in 1 .. Len(selected) |->
                       [value |-> selected[i].value, outpoint |-> selected[i].outpoint]]
  BY DEF BuildOffer, TypeOK, args, FeeInv
<1>2. FilterInv'
  BY <1>1, FilterInvKept
<1>3. SelectInv'
  BY <1>1 DEF SelectInv, DistinctOutpoints
<1>4. FeeInv'
  <2>1. Absorbed' = Absorbed /\ PaymentOutput' = PaymentOutput /\ ChangeOutput' = ChangeOutput
    BY <1>1 DEF Absorbed, PaymentOutput, ChangeOutput, Change
  <2>2. Len(inputs') = Len(selected)
    BY <1>1
  <2>3. \A i \in 1 .. Len(selected) : inputs'[i].value = selected[i].value
                                     /\ inputs'[i].outpoint = selected[i].outpoint
    BY <1>1
  <2>4. required >= amount /\ real_fee = required - amount
    BY <1>1
  <2>5. real_fee' = required' - amount' + Absorbed'
    BY <1>1, <2>1, <2>4
  <2> QED
    BY <1>1, <2>1, <2>2, <2>3, <2>4, <2>5 DEF FeeInv
<1> QED
  BY <1>2, <1>3, <1>4

-----------------------------------------------------------------------------
\* The inductive invariant: what each loop has established so far.
THEOREM SelectionInvariant == Spec => []SelInv
<1>1. Init => SelInv
  <2> SUFFICES ASSUME Init PROVE SelInv
    OBVIOUS
  <2>1. TypeOK
    BY ParameterAssumption, ResponseAssumption DEF Init, TypeOK
  <2>2. utxos \in Seq(Utxo) /\ DistinctOutpoints(utxos)
    BY ResponseAssumption DEF Init, DistinctOutpoints
  <2>3. Len(eligible) = 0 /\ Len(selected) = 0 /\ Scanned = 0 /\ Len(utxos) \in Nat
    BY <2>2 DEF Init, Scanned
  <2>4. FilterInv
    BY <2>2, <2>3 DEF FilterInv, DistinctOutpoints
  <2>5. SelectInv
    BY <2>3, SumEmpty DEF SelectInv, DistinctOutpoints, Init
  <2>6. FeeInv
    BY DEF FeeInv, Init
  <2> QED
    BY <2>1, <2>4, <2>5, <2>6 DEF SelInv
<1>2. TypeOK /\ TypeOK' /\ SelInv /\ [Next]_vars => SelInv'
  <2> SUFFICES ASSUME TypeOK', SelInv, [Next]_vars
               PROVE  FilterInv' /\ SelectInv' /\ FeeInv'
    BY DEF SelInv
  <2>1. CASE FilterStep
    BY <2>1, FilterStepInv
  <2>2. CASE FilterDone
    BY <2>2, FilterDoneInv
  <2>3. CASE ExactStep
    BY <2>3, ExactStepInv
  <2>4. CASE SortEligible
    BY <2>4, SortEligibleInv
  <2>5. CASE GreedyStep
    BY <2>5, GreedyStepInv
  <2>6. CASE GreedyExhausted
    BY <2>6, GreedyExhaustedInv
  <2>7. CASE RaiseInsufficient
    BY <2>7, RaiseInsufficientInv
  <2>8. CASE BuildOffer
    BY <2>8, BuildOfferInv
  <2>9. CASE UNCHANGED vars
    BY <2>9 DEF vars, args, offer, SelInv, FilterInv, SelectInv, FeeInv, DistinctOutpoints,
                Scanned, Absorbed, PaymentOutput, ChangeOutput, Change
  <2>10. CASE Finished
    BY <2>9, <2>10 DEF Finished
  <2> QED
    BY <2>1, <2>2, <2>3, <2>4, <2>5, <2>6, <2>7, <2>8, <2>9, <2>10 DEF Next
<1> QED
  BY <1>1, <1>2, TypeCorrect, PTL DEF Spec

\* The outputs of an offer with these two optional lines total their values.
LEMMA OutputsTotal ==
    ASSUME amount \in Nat, Change \in Nat, DUST_THRESHOLD \in Nat
    PROVE  SumValues(PaymentOutput \o ChangeOutput) = amount + Change - Absorbed
<1> DEFINE pay == [value |-> amount, owner |-> "recipient"]
           change == [value |-> Change, owner |-> "self"]
<1>1. pay \in Output /\ change \in Output /\ pay.value = amount /\ change.value = Change
  BY DEF Output
<1>2. SumValues(<<pay>>) = amount
  <2>1. <<>> \in Seq(Output) /\ Valued(<<>>)
    BY DEF Valued
  <2>2. SumValues(Append(<<>>, pay)) = SumValues(<<>>) + amount
    BY <1>1, <2>1, SumAppend
  <2> QED
    BY <2>2, SumEmpty
<1>3. SumValues(<<change>>) = Change
  <2>1. <<>> \in Seq(Output) /\ Valued(<<>>)
    BY DEF Valued
  <2>2. SumValues(Append(<<>>, change)) = SumValues(<<>>) + Change
    BY <1>1, <2>1, SumAppend
  <2> QED
    BY <2>2, SumEmpty
<1>4. SumValues(Append(<<pay>>, change)) = amount + Change
  <2>1. <<pay>> \in Seq(Output) /\ Valued(<<pay>>)
    BY <1>1 DEF Valued
  <2>2. SumValues(Append(<<pay>>, change)) = SumValues(<<pay>>) + Change
    BY <1>1, <2>1, SumAppend
  <2> QED
    BY <1>2, <2>2
<1> HIDE DEF pay, change
<1>5. PaymentOutput = IF amount > 0 THEN <<pay>> ELSE <<>>
  BY DEF PaymentOutput, pay
<1>6. ChangeOutput = IF Change >= DUST_THRESHOLD /\ Change > 0 THEN <<change>> ELSE <<>>
  BY DEF ChangeOutput, change
<1>7. CASE Change >= DUST_THRESHOLD /\ Change > 0
  <2>1. Absorbed = 0
    BY <1>7 DEF Absorbed
  <2>2. CASE amount > 0
    <3>1. PaymentOutput \o ChangeOutput = Append(<<pay>>, change)
      <4>1. <<pay>> \o <<change>> = Append(<<pay>>, change)
        BY <1>1, AppendIsConcat
      <4>2. PaymentOutput = <<pay>> /\ ChangeOutput = <<change>>
        BY <1>5, <1>6, <1>7, <2>2
      <4> QED
        BY <4>1, <4>2
    <3> QED
      BY <1>4, <2>1, <3>1
  <2>3. CASE amount = 0
    <3>1. PaymentOutput \o ChangeOutput = <<change>>
      BY <1>5, <1>6, <1>7, <2>3
    <3> QED
      BY <1>3, <2>1, <2>3, <3>1
  <2> QED
    BY <2>2, <2>3
<1>8. CASE ~(Change >= DUST_THRESHOLD /\ Change > 0)
  <2>1. Absorbed = Change
    BY <1>8 DEF Absorbed
  <2>2. CASE amount > 0
    <3>1. PaymentOutput \o ChangeOutput = <<pay>>
      <4>1. <<pay>> \o <<>> = <<pay>>
        OBVIOUS
      <4>2. PaymentOutput = <<pay>> /\ ChangeOutput = <<>>
        BY <1>5, <1>6, <1>8, <2>2
      <4> QED
        BY <4>1, <4>2
    <3> QED
      BY <1>2, <2>1, <3>1
  <2>3. CASE amount = 0
    <3>1. PaymentOutput \o ChangeOutput = <<>>
      BY <1>5, <1>6, <1>8, <2>3
    <3> QED
      BY <2>1, <2>3, <3>1, SumEmpty
  <2> QED
    BY <2>2, <2>3
<1> QED
  BY <1>7, <1>8

\* A finished offer balances: inputs are worth outputs plus the fee that the
\* transaction reports and the binding commitment fixes.
THEOREM OfferBalances == Spec => []ValueConserved
<1>1. SelInv => ValueConserved
  <2> SUFFICES ASSUME SelInv, pc = "built"
               PROVE  /\ SumValues(inputs) = SumValues(outputs) + real_fee
                      /\ bound_fee = real_fee
    BY DEF ValueConserved
  <2>1. /\ amount \in Nat /\ required \in Nat /\ current_total \in Nat /\ real_fee \in Nat
        /\ current_total >= required
        /\ real_fee = required - amount + Absorbed /\ bound_fee = real_fee
        /\ outputs = PaymentOutput \o ChangeOutput
        /\ selected \in Seq(Utxo)
    BY DEF SelInv, TypeOK, FeeInv
  <2>2. SumValues(inputs) = current_total
    <3>1. Len(selected) \in Nat /\ Valued(selected)
      BY <2>1, ValuedSelection
    <3>2. Len(inputs) = Len(selected) /\ \A i \in 1 .. Len(selected) :
              inputs[i].value = selected[i].value
      BY DEF SelInv, FeeInv
    <3>3. SumValues(inputs) = SumValues(selected)
      BY <3>1, <3>2, SumSameValues
    <3> QED
      BY <3>3 DEF SelInv, SelectInv
  <2>3. Change \in Nat /\ Change = current_total - required
    BY <2>1 DEF Change
  <2>4. SumValues(outputs) = amount + Change - Absorbed
    BY <2>1, <2>3, OutputsTotal, ParameterAssumption
  <2>5. Absorbed \in Nat
    BY <2>3 DEF Absorbed
  <2> QED
    BY <2>1, <2>2, <2>3, <2>4, <2>5
<1> QED
  BY <1>1, SelectionInvariant, PTL

\* The error is raised only when every UTXO of the token has been counted
\* and they do not cover amount and fee.
THEOREM InsufficientIsReal == Spec => []InsufficientOnlyWhenShort
<1>1. SelInv => InsufficientOnlyWhenShort
  <2> SUFFICES ASSUME SelInv, pc = "insufficient"
               PROVE  Range(selected) = EligibleSet /\ SumValues(selected) < required
    BY DEF InsufficientOnlyWhenShort
  <2>1. /\ selected \in Seq(Utxo) /\ eligible \in Seq(Utxo) /\ utxos \in Seq(Utxo)
        /\ Len(selected) = Len(eligible)
        /\ \A i \in 1 .. Len(selected) : selected[i] = eligible[i]
        /\ SumValues(selected) = current_total /\ current_total < required
        /\ Scanned = Len(utxos)
    BY DEF SelInv, TypeOK, SelectInv, FeeInv, Scanned
  <2>2. ASSUME NEW u \in Range(selected) PROVE u \in EligibleSet
    <3>1. PICK i \in 1 .. Len(eligible) : u = eligible[i]
      BY <2>1 DEF Range
    <3>2. PICK k \in 1 .. Len(utxos) : eligible[i] = utxos[k] /\ TokenOf(utxos[k]) = token_type
      BY <2>1 DEF SelInv, FilterInv
    <3> QED
      BY <2>1, <3>1, <3>2 DEF EligibleSet, Range
  <2>3. ASSUME NEW u \in EligibleSet PROVE u \in Range(selected)
    <3>1. PICK k \in 1 .. Len(utxos) : u = utxos[k]
      BY <2>1 DEF EligibleSet, Range
    <3>2. TokenOf(utxos[k]) = token_type
      BY <3>1 DEF EligibleSet
    <3>3. PICK i \in 1 .. Len(eligible) : eligible[i] = utxos[k]
      BY <2>1, <3>2 DEF SelInv, FilterInv
    <3> QED
      BY <2>1, <3>1, <3>3 DEF Range
  <2> QED
    BY <2>1, <2>2, <2>3
<1> QED
  BY <1>1, SelectionInvariant, PTL

\* No outpoint is spent twice within an offer, and nothing but UTXOs of the
\* token asked for is spent.
THEOREM InputsSound == Spec => []InputsDistinctAndEligible
<1>1. SelInv => InputsDistinctAndEligible
  <2> SUFFICES ASSUME SelInv, pc = "built" PROVE InputsDistinctAndEligible
    BY DEF InputsDistinctAndEligible
  <2>1. /\ selected \in Seq(Utxo) /\ utxos \in Seq(Utxo)
        /\ Len(inputs) = Len(selected)
        /\ \A i \in 1 .. Len(selected) : /\ inputs[i].value = selected[i].value
                                         /\ inputs[i].outpoint = selected[i].outpoint
        /\ DistinctOutpoints(selected)
        /\ Scanned = Len(utxos)
    BY DEF SelInv, TypeOK, SelectInv, FeeInv, Scanned
  <2>2. \A i, j \in 1 .. Len(inputs) : inputs[i].outpoint = inputs[j].outpoint => i = j
    BY <2>1 DEF DistinctOutpoints
  <2>3. ASSUME NEW i \in 1 .. Len(inputs)
        PROVE  \E u \in EligibleSet :
                  u.outpoint = inputs[i].outpoint /\ u.value = inputs[i].value
    <3>1. PICK j \in 1 .. Len(eligible) : selected[i] = eligible[j]
      BY <2>1 DEF SelInv, SelectInv
    <3>2. PICK k \in 1 .. Len(utxos) : eligible[j] = utxos[k] /\ TokenOf(utxos[k]) = token_type
      BY <2>1 DEF SelInv, FilterInv
    <3>3. utxos[k] \in EligibleSet
      BY <2>1, <3>2 DEF EligibleSet, Range
    <3> QED
      BY <2>1, <3>1, <3>2, <3>3
  <2> QED
    BY <2>2, <2>3 DEF InputsDistinctAndEligible
<1> QED
  BY <1>1, SelectionInvariant, PTL

\* The caller never pays DUST_THRESHOLD or more on top of the fee, and a
\* change output is never below it.
THEOREM DustBounded == Spec => []DustProtection
<1>1. SelInv => DustProtection
  <2> SUFFICES ASSUME SelInv, pc = "built" PROVE DustProtection
    BY DEF DustProtection
  <2>1. /\ amount \in Nat /\ required \in Nat /\ current_total \in Nat
        /\ current_total >= required
        /\ real_fee = required - amount + Absorbed
        /\ outputs = PaymentOutput \o ChangeOutput
    BY DEF SelInv, TypeOK, FeeInv
  <2>2. Change \in Nat
    BY <2>1 DEF Change
  <2>3. real_fee > required - amount => real_fee - (required - amount) < DUST_THRESHOLD
    BY <2>1, <2>2, ParameterAssumption DEF Absorbed
  <2>4. ASSUME NEW i \in 1 .. Len(outputs), outputs[i].owner = "self"
        PROVE  outputs[i].value >= DUST_THRESHOLD
    <3> DEFINE pay == [value |-> amount, owner |-> "recipient"]
               change == [value |-> Change, owner |-> "self"]
    <3>1. pay.owner = "recipient" /\ change.owner = "self" /\ change.value = Change
      OBVIOUS
    <3>2. PaymentOutput \in {<<pay>>, <<>>}
      BY DEF PaymentOutput
    <3>3. \/ ChangeOutput = <<change>> /\ Change >= DUST_THRESHOLD
          \/ ChangeOutput = <<>>
      BY DEF ChangeOutput
    <3> HIDE DEF pay, change
    <3>4. \/ outputs[i] = pay
          \/ outputs[i] = change /\ Change >= DUST_THRESHOLD
      <4>1. CASE PaymentOutput = <<pay>> /\ ChangeOutput = <<change>>
        <5>1. <<pay>> \in Seq({pay, change}) /\ <<change>> \in Seq({pay, change})
          OBVIOUS
        <5>2. outputs \in Seq({pay, change})
          BY <2>1, <4>1, <5>1
        <5>3. outputs[i] \in {pay, change}
          BY <2>4, <5>2
        <5> QED
          BY <3>3, <4>1, <5>3
      <4>2. CASE PaymentOutput = <<pay>> /\ ChangeOutput = <<>>
        <5>1. outputs = <<pay>>
          BY <2>1, <4>2
        <5> QED
          BY <5>1
      <4>3. CASE PaymentOutput = <<>> /\ ChangeOutput = <<change>>
        <5>1. outputs = <<change>>
          BY <2>1, <4>3
        <5> QED
          BY <3>3, <4>3, <5>1
      <4>4. CASE PaymentOutput = <<>> /\ ChangeOutput = <<>>
        <5>1. outputs = <<>>
          BY <2>1, <4>4
        <5> QED
          BY <5>1
      <4> QED
        BY <3>2, <3>3, <4>1, <4>2, <4>3, <4>4
    <3> QED
      BY <2>4, <3>1, <3>4
  <2> QED
    BY <2>3, <2>4 DEF DustProtection
<1> QED
  BY <1>1, SelectionInvariant, PTL

-----------------------------------------------------------------------------
(* What the loops compute, against the relation Selections.                *)

\* No eligible UTXO covers the requirement exactly.
NoExact == \A i \in 1 .. Len(eligible) : eligible[i].value # required

Descending ==
    \A i, j \in 1 .. Len(eligible) : i < j => eligible[i].value >= eligible[j].value

\* How the loops came to the selection: by the first exact match, or by the
\* largest of the sorted list, the last of which was needed or the only one.
ByExact ==
    /\ current_total = required
    /\ \E i \in 1 .. Len(eligible) :
          selected = <<eligible[i]>> /\ eligible[i].value = required

ByGreedy ==
    /\ NoExact /\ Descending
    /\ Len(selected) <= Len(eligible)
    /\ \A i \in 1 .. Len(selected) : selected[i] = eligible[i]
    /\ Len(selected) = 0 => Len(eligible) = 0
    /\ Len(selected) > 1 => current_total - selected[Len(selected)].value < required

\* What is known of the list while it is searched and after.
PathInv ==
    /\ pc = "exact" =>
          /\ idx <= Len(eligible) + 1
          /\ \A i \in 1 .. idx - 1 : eligible[i].value # required
    /\ pc = "greedy" => NoExact /\ Descending /\ (idx = 1 \/ current_total < required)
    /\ pc \in {"check", "insufficient", "built"} => ByExact \/ ByGreedy

\* The lists of the loops and their values.
LEMMA ListTypes ==
    ASSUME SelInv
    PROVE  /\ eligible \in Seq(Utxo) /\ Len(eligible) \in Nat
           /\ selected \in Seq(Utxo) /\ Len(selected) \in Nat
           /\ \A i \in 1 .. Len(eligible) : eligible[i] \in Utxo /\ eligible[i].value \in Nat
           /\ \A i \in 1 .. Len(selected) : selected[i] \in Utxo /\ selected[i].value \in Nat
<1>1. eligible \in Seq(Utxo) /\ selected \in Seq(Utxo)
  BY DEF SelInv, TypeOK
<1>2. \A u \in Utxo : u.value \in Nat
  BY DEF Utxo
<1>3. /\ Len(eligible) \in Nat /\ Len(selected) \in Nat
      /\ \A i \in 1 .. Len(eligible) : eligible[i] \in Utxo
      /\ \A i \in 1 .. Len(selected) : selected[i] \in Utxo
  BY <1>1
<1> QED
  BY <1>1, <1>2, <1>3

\* The eligible list and its set are worth the same.
LEMMA SpendableSet ==
    ASSUME SelInv, pc # "filter"
    PROVE  /\ EligibleSet = {eligible[i] : i \in 1 .. Len(eligible)}
           /\ ValuedSet(EligibleSet)
           /\ Total(EligibleSet) = SumValues(eligible)
<1>1. /\ eligible \in Seq(Utxo) /\ utxos \in Seq(Utxo)
      /\ Len(eligible) \in Nat /\ Scanned = Len(utxos)
      /\ \A i \in 1 .. Len(eligible) : eligible[i].value \in Nat
  BY ListTypes DEF SelInv, TypeOK, Scanned
<1>2. ASSUME NEW u \in EligibleSet PROVE \E i \in 1 .. Len(eligible) : u = eligible[i]
  <2>1. PICK k \in 1 .. Len(utxos) : u = utxos[k] /\ TokenOf(utxos[k]) = token_type
    BY <1>1 DEF EligibleSet, Range
  <2> QED
    BY <1>1, <2>1 DEF SelInv, FilterInv
<1>3. ASSUME NEW i \in 1 .. Len(eligible) PROVE eligible[i] \in EligibleSet
  <2>1. PICK k \in 1 .. Len(utxos) : eligible[i] = utxos[k] /\ TokenOf(utxos[k]) = token_type
    BY <1>1 DEF SelInv, FilterInv
  <2> QED
    BY <1>1, <2>1 DEF EligibleSet, Range
<1>4. EligibleSet = {eligible[i] : i \in 1 .. Len(eligible)}
  BY <1>2, <1>3
<1>5. Valued(eligible)
  BY <1>1 DEF Valued
<1>6. \A i, j \in 1 .. Len(eligible) : eligible[i] = eligible[j] => i = j
  BY DEF SelInv, FilterInv, DistinctOutpoints
<1> QED
  BY <1>1, <1>4, <1>5, <1>6, SumIsTotal

\* The selected list has as many elements as its set, worth current_total.
LEMMA SelectedSet ==
    ASSUME SelInv
    PROVE  /\ Range(selected) = {selected[i] : i \in 1 .. Len(selected)}
           /\ ValuedSet(Range(selected))
           /\ Total(Range(selected)) = current_total
           /\ Cardinality(Range(selected)) = Len(selected)
<1>1. /\ selected \in Seq(Utxo) /\ Len(selected) \in Nat /\ SumValues(selected) = current_total
      /\ \A i \in 1 .. Len(selected) : selected[i].value \in Nat
  BY ListTypes DEF SelInv, SelectInv
<1>2. Range(selected) = {selected[i] : i \in 1 .. Len(selected)}
  BY <1>1 DEF Range
<1>3. Valued(selected)
  BY <1>1 DEF Valued
<1>4. \A i, j \in 1 .. Len(selected) : selected[i] = selected[j] => i = j
  BY DEF SelInv, SelectInv, DistinctOutpoints
<1> DEFINE S == {selected[i] : i \in 1 .. Len(selected)}
<1>5. ValuedSet(S) /\ Total(S) = SumValues(selected) /\ Cardinality(S) = Len(selected)
  BY <1>1, <1>3, <1>4, SumIsTotal
<1> HIDE DEF S
<1>6. Range(selected) = S
  BY <1>2 DEF S
<1> QED
  BY <1>1, <1>2, <1>5, <1>6

\* What is selected is eligible.
LEMMA SelectedEligible ==
    ASSUME SelInv, pc # "filter"
    PROVE  Range(selected) \in SUBSET EligibleSet
<1>1. \A i \in 1 .. Len(selected) : \E j \in 1 .. Len(eligible) : selected[i] = eligible[j]
  BY DEF SelInv, SelectInv
<1> QED
  BY <1>1, SpendableSet, SelectedSet

\* The loop for an exact match found one, or has looked at one more UTXO.
LEMMA ExactStepPath ==
    ASSUME SelInv, PathInv, ExactStep
    PROVE  PathInv'
<1>1. /\ pc = "exact" /\ idx \in 1 .. Len(eligible) /\ UNCHANGED <<eligible, required>>
      /\ eligible \in Seq(Utxo)
  BY DEF ExactStep, SelInv, TypeOK
<1>2. CASE eligible[idx].value = required
  <2>1. selected' = <<eligible[idx]>> /\ current_total' = required /\ pc' = "check"
    BY <1>2 DEF ExactStep
  <2> QED
    BY <1>1, <1>2, <2>1 DEF PathInv, ByExact
<1>3. CASE eligible[idx].value # required
  <2>1. pc' = "exact" /\ idx' = idx + 1
    BY <1>1, <1>3 DEF ExactStep
  <2>2. \A i \in 1 .. idx' - 1 : eligible'[i].value # required'
    BY <1>1, <1>3, <2>1 DEF PathInv
  <2> QED
    BY <1>1, <2>1, <2>2 DEF PathInv
<1> QED
  BY <1>2, <1>3

\* Sorting leaves a descending list, without exact matches as before.
LEMMA SortEligiblePath ==
    ASSUME SelInv, PathInv, SortEligible
    PROVE  PathInv'
<1> DEFINE n == Len(eligible)
<1>1. /\ pc = "exact" /\ pc' = "greedy" /\ idx' = 1 /\ UNCHANGED required
      /\ idx > n /\ n \in Nat /\ idx \in Nat
      /\ \A i \in 1 .. n : eligible[i].value \in Nat
  BY ListTypes DEF SortEligible, SelInv, TypeOK
<1>2. PICK p \in Bijection(1 .. n, 1 .. n) :
          /\ SortsDescending(p, eligible)
          /\ eligible' = [i \in 1 .. n |-> eligible[p[i]]]
  BY DEF SortEligible
<1>3. /\ \A i \in 1 .. n : p[i] \in 1 .. n
      /\ Len(eligible') = n /\ \A i \in 1 .. n : eligible'[i] = eligible[p[i]]
  BY <1>1, <1>2 DEF Bijection, Injection
<1>4. \A i \in 1 .. n : eligible[i].value # required
  BY <1>1 DEF PathInv
<1>5. NoExact'
  BY <1>1, <1>3, <1>4 DEF NoExact
<1>6. Descending'
  <2> SUFFICES ASSUME NEW i \in 1 .. n, NEW j \in 1 .. n, i < j
               PROVE  eligible[p[i]].value >= eligible[p[j]].value
    BY <1>3 DEF Descending
  <2>1. eligible[p[i]].value > eligible[p[j]].value \/ eligible[p[i]].value = eligible[p[j]].value
    BY <1>2 DEF SortsDescending
  <2>2. eligible[p[i]].value \in Nat /\ eligible[p[j]].value \in Nat
    BY <1>1, <1>3
  <2> QED
    BY <2>1, <2>2
<1> QED
  BY <1>1, <1>5, <1>6 DEF PathInv

\* The greedy loop goes on only while it has too little.
LEMMA GreedyStepPath ==
    ASSUME SelInv, PathInv, GreedyStep
    PROVE  PathInv'
<1> DEFINE n == Len(selected)
           u == eligible[idx]
<1>1. /\ pc = "greedy" /\ idx \in 1 .. Len(eligible) /\ idx' = idx + 1
      /\ UNCHANGED <<eligible, required>>
      /\ eligible \in Seq(Utxo) /\ selected \in Seq(Utxo) /\ Len(eligible) \in Nat
      /\ n = idx - 1 /\ \A i \in 1 .. n : selected[i] = eligible[i]
      /\ required \in Nat /\ current_total \in Nat
      /\ NoExact /\ Descending /\ (idx = 1 \/ current_total < required)
  BY DEF GreedyStep, SelInv, TypeOK, SelectInv, PathInv
<1>2. u \in Utxo /\ u.value \in Nat
  BY <1>1, ListTypes
<1>3. /\ selected' = Append(selected, u) /\ current_total' = current_total + u.value
      /\ pc' = IF current_total' >= required THEN "check" ELSE "greedy"
  BY DEF GreedyStep
<1>4. /\ Len(selected') = n + 1 /\ selected'[n + 1] = u
      /\ \A i \in 1 .. n : selected'[i] = selected[i]
  BY <1>1, <1>3
<1>5. NoExact' /\ Descending'
  BY <1>1 DEF NoExact, Descending
<1>6. \A i \in 1 .. Len(selected') : selected'[i] = eligible'[i]
  <2> SUFFICES ASSUME NEW i \in 1 .. n + 1 PROVE selected'[i] = eligible[i]
    BY <1>1, <1>4
  <2>1. CASE i = n + 1
    BY <1>1, <1>4, <2>1
  <2>2. CASE i # n + 1
    BY <1>1, <1>4, <2>2
  <2> QED
    BY <2>1, <2>2
<1> HIDE DEF n, u
<1>7. ByGreedy'
  <2>1. Len(selected') <= Len(eligible') /\ Len(selected') # 0
    BY <1>1, <1>4
  <2>2. Len(selected') > 1 => current_total' - selected'[Len(selected')].value < required'
    BY <1>1, <1>2, <1>3, <1>4
  <2> QED
    BY <1>5, <1>6, <2>1, <2>2 DEF ByGreedy
<1>8. pc' = "greedy" => current_total' < required'
  BY <1>1, <1>2, <1>3
<1>9. pc' \in {"check", "greedy"}
  BY <1>3
<1> QED
  BY <1>5, <1>7, <1>8, <1>9 DEF PathInv

LEMMA GreedyExhaustedPath ==
    ASSUME SelInv, PathInv, GreedyExhausted
    PROVE  PathInv'
<1>1. /\ pc = "greedy" /\ pc' = "check" /\ idx > Len(eligible) /\ idx \in Nat \ {0}
      /\ UNCHANGED <<eligible, selected, required, current_total>>
      /\ eligible \in Seq(Utxo) /\ selected \in Seq(Utxo) /\ Len(eligible) \in Nat
      /\ Len(selected) \in Nat
      /\ Len(selected) = idx - 1 /\ idx - 1 <= Len(eligible)
      /\ \A i \in 1 .. Len(selected) : selected[i] = eligible[i]
      /\ required \in Nat /\ current_total \in Nat
      /\ NoExact /\ Descending /\ (idx = 1 \/ current_total < required)
  BY DEF GreedyExhausted, SelInv, TypeOK, SelectInv, PathInv
<1>2. Len(selected) > 1 => current_total - selected[Len(selected)].value < required
  <2> SUFFICES ASSUME Len(selected) > 1
               PROVE  current_total - selected[Len(selected)].value < required
    OBVIOUS
  <2>1. selected[Len(selected)].value \in Nat
    BY ListTypes
  <2> QED
    BY <1>1, <2>1
<1>3. ByGreedy
  BY <1>1, <1>2 DEF ByGreedy
<1> QED
  BY <1>1, <1>3 DEF PathInv, ByGreedy, ByExact, NoExact, Descending

\* Other steps, after the selection and before it.
LEMMA OtherStepPath ==
    ASSUME SelInv, PathInv,
           FilterStep \/ FilterDone \/ RaiseInsufficient \/ BuildOffer \/ UNCHANGED vars
    PROVE  PathInv'
<1>1. CASE FilterStep
  <2>1. pc' = "filter"
    BY <1>1 DEF FilterStep
  <2> QED
    BY <2>1 DEF PathInv
<1>2. CASE FilterDone
  <2>1. pc' = "exact" /\ idx' = 1 /\ eligible' = eligible /\ Len(eligible) \in Nat
    BY <1>2 DEF FilterDone, SelInv, TypeOK
  <2> QED
    BY <2>1 DEF PathInv
<1>3. CASE RaiseInsufficient \/ BuildOffer
  <2>1. /\ pc = "check" /\ pc' \in {"insufficient", "built"}
        /\ UNCHANGED <<eligible, selected, required, current_total>>
    BY <1>3 DEF RaiseInsufficient, BuildOffer
  <2> QED
    BY <2>1 DEF PathInv, ByGreedy, ByExact, NoExact, Descending
<1>4. CASE UNCHANGED vars
  BY <1>4 DEF vars, PathInv, ByGreedy, ByExact, NoExact, Descending
<1> QED
  BY <1>1, <1>2, <1>3, <1>4

LEMMA PathInvariant == Spec => [](SelInv /\ PathInv)
<1>1. Init => PathInv
  BY DEF Init, PathInv
<1>2. SelInv /\ PathInv /\ [Next]_vars => PathInv'
  <2> SUFFICES ASSUME SelInv, PathInv, [Next]_vars PROVE PathInv'
    OBVIOUS
  <2>1. CASE ExactStep
    BY <2>1, ExactStepPath
  <2>2. CASE SortEligible
    BY <2>2, SortEligiblePath
  <2>3. CASE GreedyStep
    BY <2>3, GreedyStepPath
  <2>4. CASE GreedyExhausted
    BY <2>4, GreedyExhaustedPath
  <2>5. CASE FilterStep \/ FilterDone \/ RaiseInsufficient \/ BuildOffer \/ UNCHANGED vars
    BY <2>5, OtherStepPath
  <2> QED
    BY <2>1, <2>2, <2>3, <2>4, <2>5 DEF Next, Finished
<1> QED
  BY <1>1, <1>2, SelectionInvariant, PTL DEF Spec

\* A list taken by the greedy loop, and enough, is one of GreedySelections.
LEMMA GreedyListChosen ==
    ASSUME SelInv, ByGreedy, pc # "filter", current_total >= required
    PROVE  /\ Range(selected) \in GreedySelections(EligibleSet, required)
           /\ ExactMatches(EligibleSet, required) = {}
<1> DEFINE n == Len(selected)
           S == Range(selected)
           E == EligibleSet
<1>1. /\ n \in Nat /\ Len(eligible) \in Nat /\ n <= Len(eligible)
      /\ \A i \in 1 .. n : selected[i] = eligible[i]
      /\ \A i \in 1 .. Len(eligible) : eligible[i].value \in Nat
      /\ required \in Nat /\ current_total \in Nat
  BY ListTypes DEF SelInv, TypeOK, ByGreedy
<1>2. /\ S = {selected[i] : i \in 1 .. n} /\ E = {eligible[i] : i \in 1 .. Len(eligible)}
      /\ ValuedSet(S) /\ Total(S) = current_total /\ S \in SUBSET E
  BY SpendableSet, SelectedSet, SelectedEligible
<1> HIDE DEF S, E, n
<1>3. ExactMatches(E, required) = {}
  BY <1>2 DEF ExactMatches, ByGreedy, NoExact
<1>4. LargestFirst(S, E)
  <2> SUFFICES ASSUME NEW i \in 1 .. n, NEW j \in 1 .. Len(eligible), eligible[j] \notin S
               PROVE  eligible[i].value >= eligible[j].value
    BY <1>1, <1>2 DEF LargestFirst
  <2>1. ~(j <= n)
    BY <1>1, <1>2
  <2>2. i \in 1 .. Len(eligible) /\ i < j
    BY <1>1, <2>1
  <2> QED
    BY <2>2 DEF ByGreedy, Descending
<1>5. S = {} => E = {}
  <2> SUFFICES ASSUME S = {} PROVE E = {}
    OBVIOUS
  <2>1. n = 0
    <3> SUFFICES ASSUME n # 0 PROVE FALSE
      OBVIOUS
    <3>1. 1 \in 1 .. n
      BY <1>1
    <3>2. S = {selected[i] : i \in 1 .. n}
      BY <1>2
    <3>3. selected[1] \in S
      BY ONLY <3>1, <3>2
    <3> QED
      BY <3>3
  <2>2. Len(eligible) = 0
    BY <2>1 DEF ByGreedy, n
  <2> QED
    BY <1>2, <2>2
<1>6. S = {} \/ StopsAt(S, required)
  <2> SUFFICES ASSUME S # {} PROVE StopsAt(S, required)
    OBVIOUS
  <2>1. n > 0 /\ n \in 1 .. n
    BY <1>1, <1>2
  <2> DEFINE last == selected[n]
  <2>2. last \in S /\ last = eligible[n] /\ last.value \in Nat
    BY <1>1, <1>2, <2>1
  <2>3. \A w \in S : w.value >= last.value
    <3> SUFFICES ASSUME NEW i \in 1 .. n PROVE eligible[i].value >= eligible[n].value
      BY <1>1, <1>2, <2>2
    <3>1. i \in 1 .. Len(eligible) /\ n \in 1 .. Len(eligible)
      BY <1>1, <2>1
    <3>2. CASE i = n
      BY <1>1, <3>1, <3>2
    <3>3. CASE i # n
      BY <3>1, <3>3 DEF ByGreedy, Descending
    <3> QED
      BY <3>2, <3>3
  <2>4. CASE n = 1
    <3>1. S = {last}
      BY <1>2, <2>4
    <3> QED
      BY <2>2, <2>3, <3>1 DEF StopsAt
  <2>5. CASE n > 1
    <3>1. current_total - last.value < required
      BY <2>5 DEF ByGreedy, n
    <3>2. Total(S) = last.value + Total(S \ {last}) /\ Total(S \ {last}) \in Nat
      <4>1. S \ {last} \in SUBSET S
        OBVIOUS
      <4> QED
        BY <1>2, <2>2, <4>1, TotalRemove, TotalSubset, TotalInNat
    <3>3. Total(S \ {last}) < required
      BY <1>1, <1>2, <2>2, <3>1, <3>2
    <3> QED
      BY <2>2, <2>3, <3>3 DEF StopsAt
  <2> QED
    BY <1>1, <2>1, <2>4, <2>5
<1> QED
  BY <1>2, <1>3, <1>4, <1>5, <1>6 DEF GreedySelections, S, E

\* The loops of _build_unshielded_transfer compute a member of the relation
\* Selections, for every answer of the indexer and every requirement, and the
\* error is raised exactly when that relation is empty.
THEOREM LoopsComputeSelections == Spec => []LoopsMatchSelections
<1>1. ASSUME SelInv, PathInv, pc = "built"
      PROVE  Range(selected) \in Selections(EligibleSet, required)
  <2>1. current_total >= required
    BY <1>1 DEF SelInv, FeeInv
  <2>2. CASE ByExact
    <3>1. PICK i \in 1 .. Len(eligible) : selected = <<eligible[i]>> /\ eligible[i].value = required
      BY <2>2 DEF ByExact
    <3>2. Range(selected) = {eligible[i]}
      BY <1>1, <3>1, SelectedSet
    <3>3. eligible[i] \in ExactMatches(EligibleSet, required)
      BY <1>1, <3>1, SpendableSet DEF ExactMatches
    <3> QED
      BY <3>2, <3>3 DEF Selections
  <2>3. CASE ByGreedy
    BY <1>1, <2>1, <2>3, GreedyListChosen DEF Selections
  <2> QED
    BY <1>1, <2>2, <2>3 DEF PathInv
<1>2. ASSUME SelInv, PathInv, pc = "insufficient"
      PROVE  Selections(EligibleSet, required) = {}
  <2>1. /\ current_total < required /\ current_total \in Nat /\ required \in Nat
        /\ eligible \in Seq(Utxo) /\ selected \in Seq(Utxo) /\ Len(eligible) \in Nat
        /\ Len(selected) = Len(eligible)
        /\ \A i \in 1 .. Len(selected) : selected[i] = eligible[i]
    BY <1>2 DEF SelInv, TypeOK, SelectInv, FeeInv
  <2>2. NoExact
    BY <1>2, <2>1 DEF PathInv, ByExact, ByGreedy
  <2>3. ExactMatches(EligibleSet, required) = {}
    BY <1>2, <2>2, SpendableSet DEF ExactMatches, NoExact
  <2>4. ValuedSet(EligibleSet) /\ Total(EligibleSet) = current_total
    <3>1. Range(selected) = EligibleSet
      BY <1>2, <2>1, SelectedSet, SpendableSet
    <3> QED
      BY <1>2, <3>1, SelectedSet
  <2>5. ASSUME NEW S \in SUBSET EligibleSet PROVE ~(Total(S) >= required)
    <3>1. Total(S) <= Total(EligibleSet) /\ Total(S) \in Nat
      BY <2>4, TotalSubset, TotalInNat
    <3> QED
      BY <2>1, <2>4, <3>1
  <2> QED
    BY <2>3, <2>5 DEF Selections, GreedySelections
<1> QED
  BY <1>1, <1>2, PathInvariant, PTL DEF LoopsMatchSelections

\* Sorting by descending value does minimise the inputs: no set of eligible
\* UTXOs with fewer members covers amount and fee.
THEOREM InputsAreFewest == Spec => []FewestInputs
<1>1. ASSUME SelInv, LoopsMatchSelections PROVE FewestInputs
  <2> SUFFICES ASSUME pc = "built", required > 0,
                      NEW S \in SUBSET EligibleSet, Total(S) >= required
               PROVE  Len(inputs) <= Cardinality(S)
    BY DEF FewestInputs
  <2>1. ValuedSet(EligibleSet) /\ required \in Nat \ {0}
    BY <1>1, SpendableSet DEF SelInv, TypeOK
  <2>2. Range(selected) \in Selections(EligibleSet, required)
    BY <1>1 DEF LoopsMatchSelections
  <2>3. Cardinality(Range(selected)) <= Cardinality(S)
    BY <2>1, <2>2, SelectionsAreSmallest
  <2> QED
    BY <1>1, <2>3, SelectedSet DEF SelInv, FeeInv
<1> QED
  BY <1>1, SelectionInvariant, LoopsComputeSelections, PTL

=============================================================================
