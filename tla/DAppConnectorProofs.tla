------------------------- MODULE DAppConnectorProofs -------------------------
(***************************************************************************)
(* However many calls of balance_transaction edit one offer, and whatever  *)
(* the indexer answers them, no outpoint is spent twice by it, and once a  *)
(* call has returned it covers its outputs and the fee.                    *)
(***************************************************************************)
EXTENDS DAppConnector, OperatorProofs

InputsInv == DOMAIN added = Calls /\ NoDuplicateInputs

\* Inputs that nobody uses may be appended by one call.
LEMMA AppendUnused ==
    ASSUME InputsInv, NEW c \in Calls, NEW more, more \cap Used = {},
           added' = [added EXCEPT ![c] = more], UNCHANGED offer
    PROVE  InputsInv'
<1>1. /\ DOMAIN added' = Calls /\ added'[c] = more
      /\ \A d \in Calls \ {c} : added'[d] = added[d]
  BY DEF InputsInv
<1>2. more \cap offer.inputs = {} /\ \A d \in Calls : more \cap added[d] = {}
  BY DEF Used
<1>3. \A d \in Calls : added'[d] \cap offer.inputs = {}
  BY <1>1, <1>2 DEF InputsInv, NoDuplicateInputs
<1>4. ASSUME NEW d \in Calls, NEW e \in Calls, d # e PROVE added'[d] \cap added'[e] = {}
  <2>1. CASE d = c
    BY <1>1, <1>2, <1>4, <2>1
  <2>2. CASE e = c
    BY <1>1, <1>2, <1>4, <2>2
  <2>3. CASE d # c /\ e # c
    BY <1>1, <1>4, <2>3 DEF InputsInv, NoDuplicateInputs
  <2> QED
    BY <2>1, <2>2, <2>3
<1> QED
  BY <1>1, <1>3, <1>4 DEF InputsInv, NoDuplicateInputs

\* What an answer appends is none of the inputs in the offer at that moment:
\* the greedy loop takes from the eligible ones, or takes them all.
LEMMA AnsweredKeeps ==
    ASSUME InputsInv, NEW c \in Calls, Answered(c)
    PROVE  InputsInv'
<1>1. UNCHANGED offer
  BY DEF Answered
<1>2. PICK answer \in SUBSET Utxos :
          \/ added' = [added EXCEPT ![c] = Eligible(answer)]
          \/ \E more \in GreedySelections(Eligible(answer), required[c] - inputs_val[c]) :
                added' = [added EXCEPT ![c] = more]
  BY DEF Answered
<1>3. \A more \in SUBSET Eligible(answer) : more \cap Used = {}
  BY DEF Eligible
<1>4. CASE added' = [added EXCEPT ![c] = Eligible(answer)]
  BY <1>1, <1>3, <1>4, AppendUnused
<1>5. CASE \E more \in GreedySelections(Eligible(answer), required[c] - inputs_val[c]) :
               added' = [added EXCEPT ![c] = more]
  <2>1. PICK more \in SUBSET Eligible(answer) : added' = [added EXCEPT ![c] = more]
    BY <1>5 DEF GreedySelections
  <2> QED
    BY <1>1, <1>3, <2>1, AppendUnused
<1> QED
  BY <1>2, <1>4, <1>5

LEMMA InitInputs == Init => InputsInv
<1> SUFFICES ASSUME Init PROVE InputsInv
  OBVIOUS
<1>1. added = [c \in Calls |-> {}]
  BY DEF Init
<1> QED
  BY <1>1 DEF InputsInv, NoDuplicateInputs

LEMMA NextInputs == InputsInv /\ [Next]_vars => InputsInv'
<1> SUFFICES ASSUME InputsInv, [Next]_vars PROVE InputsInv'
  OBVIOUS
<1>1. ASSUME UNCHANGED <<offer, added>> PROVE InputsInv'
  BY <1>1 DEF InputsInv, NoDuplicateInputs
<1>2. ASSUME NEW c \in Calls, Balance(c) \/ QueryFails(c) \/ Submit(c) PROVE InputsInv'
  BY <1>1, <1>2 DEF Balance, QueryFails, Submit, dict
<1>3. CASE UNCHANGED vars
  BY <1>1, <1>3 DEF vars, dict
<1> QED
  BY <1>2, <1>3, AnsweredKeeps DEF Next

\* The offer never spends an outpoint twice: the used ones are read after the
\* query has returned, so a concurrent call's inputs are among them
\* (DAppConnector.balance_transaction).
THEOREM InputsAreDistinct == Spec => []NoDuplicateInputs
<1>1. InputsInv => NoDuplicateInputs
  BY DEF InputsInv
<1> QED
  BY <1>1, InitInputs, NextInputs, PTL DEF Spec

-----------------------------------------------------------------------------
(* The totals of the offer.                                                *)

\* What the offer has beyond its outputs and the fee.
Slack == InputsTotal - OutputsTotal - MIN_FEE

\* What a call has found missing (below zero) before its query.
Found(c) == inputs_val[c] - required[c]

\* A call under way has appended nothing, found something missing, and no step
\* of another call makes the slack less than it found; without an overlap the
\* slack is what it found.  Once a call has returned, the slack is no deficit.
FundsKept ==
    /\ \A c \in Calls : pc[c] \in {"idle", "fetch"} => added[c] = {} /\ change[c] = 0
    /\ \A c \in UnderWay : Found(c) < 0 /\ Slack >= Found(c)
    /\ ~overlapped => \A c \in UnderWay : Slack = Found(c) /\ UnderWay = {c}
    /\ Returned # {} => Slack >= 0 /\ (~overlapped => Slack = 0)

FundsInv == TypeOK /\ InputsInv /\ FundsKept

\* Inputs and outputs are finitely many and have values.
LEMMA TotalsTyped ==
    ASSUME TypeOK
    PROVE  /\ InputsTotal \in Nat /\ OutputsTotal \in Nat
           /\ \A c \in Calls : ValuedSet(added[c]) /\ Total(added[c]) \in Nat
           /\ MIN_FEE \in Nat
<1>1. ValuedSet(offer.inputs) /\ offer.outputs \in Nat /\ MIN_FEE \in Nat
  BY ConnectorAssumption DEF TypeOK, ValuedSet
<1>2. ValuedSet(Utxos) /\ IsFiniteSet(Calls)
  BY ConnectorAssumption DEF ValuedSet
<1>3. \A c \in Calls : ValuedSet(added[c]) /\ Total(added[c]) \in Nat
  BY <1>2, TotalSubset, TotalInNat DEF TypeOK
<1> DEFINE f == [c \in Calls |-> Total(added[c])]
<1>4. InputsTotal = Total(offer.inputs) + Total(Lines(Calls, f))
  BY DEF InputsTotal, Lines
<1>5. OutputsTotal = offer.outputs + Total(Lines(Calls, change))
  BY DEF OutputsTotal, Lines
<1>6. Total(Lines(Calls, f)) \in Nat /\ Total(Lines(Calls, change)) \in Nat
  BY <1>2, <1>3, LinesValued, TotalInNat DEF TypeOK
<1>7. Total(offer.inputs) \in Nat
  BY <1>1, TotalInNat
<1> QED
  BY <1>1, <1>3, <1>4, <1>5, <1>6, <1>7

\* The inputs a call appends are worth what the total grows by.
LEMMA AddedChanges ==
    ASSUME TypeOK, InputsInv, NEW c \in Calls, added[c] = {},
           NEW more \in SUBSET Utxos, added' = [added EXCEPT ![c] = more], UNCHANGED offer
    PROVE  InputsTotal' = InputsTotal + Total(more) /\ Total(more) \in Nat
<1> DEFINE f == [d \in Calls |-> Total(added[d])]
           g == [d \in Calls |-> Total(added'[d])]
<1>1. IsFiniteSet(Calls) /\ ValuedSet(Utxos)
  BY ConnectorAssumption DEF ValuedSet
<1>2. Total(more) \in Nat
  BY <1>1, TotalSubset, TotalInNat
<1>3. \A d \in Calls : f[d] \in Nat
  BY TotalsTyped
<1>4. f[c] = 0 /\ g[c] = Total(more) /\ \A d \in Calls \ {c} : g[d] = f[d]
  BY TotalEmpty DEF InputsInv
<1>5. InputsTotal = Total(offer.inputs) + Total(Lines(Calls, f))
  BY DEF InputsTotal, Lines
<1>6. InputsTotal' = Total(offer.inputs) + Total(Lines(Calls, g))
  BY DEF InputsTotal, Lines
<1>7. Total(offer.inputs) \in Nat
  <2>1. ValuedSet(offer.inputs)
    BY ConnectorAssumption DEF TypeOK, ValuedSet
  <2> QED
    BY <2>1, TotalInNat
<1> HIDE DEF f, g
<1>8. Total(Lines(Calls, g)) = Total(Lines(Calls, f)) - f[c] + g[c] /\ Total(Lines(Calls, f)) \in Nat
  BY <1>1, <1>2, <1>3, <1>4, LinesChange
<1> QED
  BY <1>2, <1>4, <1>5, <1>6, <1>7, <1>8

\* And so is the change output.
LEMMA ChangeChanges ==
    ASSUME TypeOK, NEW c \in Calls, change[c] = 0, NEW v \in Nat,
           change' = [change EXCEPT ![c] = v], UNCHANGED offer
    PROVE  OutputsTotal' = OutputsTotal + v
<1>1. IsFiniteSet(Calls) /\ offer.outputs \in Nat
  BY ConnectorAssumption DEF TypeOK
<1>2. /\ \A d \in Calls : change[d] \in Nat
      /\ change'[c] = v /\ \A d \in Calls \ {c} : change'[d] = change[d]
  BY DEF TypeOK
<1>3. /\ OutputsTotal = offer.outputs + Total(Lines(Calls, change))
      /\ OutputsTotal' = offer.outputs + Total(Lines(Calls, change'))
  BY DEF OutputsTotal, Lines
<1> DEFINE f == change
           g == change'
<1>4. g[c] \in Nat /\ \A d \in Calls \ {c} : g[d] = f[d]
  BY <1>2
<1>5. \A d \in Calls : f[d] \in Nat
  BY <1>2
<1> HIDE DEF f, g
<1>6. Total(Lines(Calls, g)) = Total(Lines(Calls, f)) - f[c] + g[c] /\ Total(Lines(Calls, f)) \in Nat
  BY <1>1, <1>4, <1>5, LinesChange
<1> QED
  BY <1>1, <1>2, <1>3, <1>6 DEF f, g

LEMMA SameTotals ==
    ASSUME UNCHANGED <<offer, added>>
    PROVE  InputsTotal' = InputsTotal
  BY DEF InputsTotal

LEMMA SameOutputs ==
    ASSUME UNCHANGED <<offer, change>>
    PROVE  OutputsTotal' = OutputsTotal
  BY DEF OutputsTotal

\* A call that finds enough balances the offer exactly; one that does not
\* keeps what it found missing.
LEMMA BalanceFunds ==
    ASSUME FundsInv, NEW c \in Calls, Balance(c)
    PROVE  /\ TypeOK' /\ FundsKept'
           /\ pc'[c] = "balanced" => InputsTotal' = OutputsTotal' + MIN_FEE
<1>1. /\ InputsTotal \in Nat /\ OutputsTotal \in Nat /\ MIN_FEE \in Nat
      /\ InputsTotal' = InputsTotal /\ TypeOK /\ UNCHANGED <<offer, wrapped, added>>
  BY TotalsTyped, SameTotals DEF FundsInv, FundsKept, Balance
<1>2. /\ pc[c] = "idle" /\ added[c] = {} /\ change[c] = 0
      /\ inputs_val'[c] = InputsTotal /\ required'[c] = RequiredNow
      /\ \A d \in Calls \ {c} : inputs_val'[d] = inputs_val[d] /\ required'[d] = required[d]
      /\ inputs_val' \in [Calls -> Nat] /\ required' \in [Calls -> Nat]
      /\ RequiredNow = OutputsTotal + MIN_FEE
      /\ overlapped' = (overlapped \/ UnderWay # {})
  BY <1>1 DEF FundsInv, FundsKept, Balance, TypeOK, RequiredNow
<1>3. CASE /\ InputsTotal < RequiredNow
           /\ pc' = [pc EXCEPT ![c] = "fetch"]
           /\ UNCHANGED change
  <2>1. TypeOK'
    BY <1>1, <1>2, <1>3 DEF TypeOK
  <2>2. /\ UnderWay' = UnderWay \cup {c} /\ c \notin UnderWay /\ Returned' = Returned
        /\ \A d \in Calls \ {c} : pc'[d] = pc[d]
        /\ pc'[c] = "fetch"
    BY <1>1, <1>2, <1>3 DEF TypeOK, UnderWay, Returned
  <2>3. Slack' = Slack /\ Found(c)' = Slack /\ Slack < 0 /\ Slack \in Int
    BY <1>1, <1>2, <1>3, SameOutputs DEF Slack, Found
  <2>4. \A d \in UnderWay : Found(d)' = Found(d)
    BY <1>2, <2>2 DEF Found, UnderWay
  <2>5. \A d \in Calls : pc'[d] \in {"idle", "fetch"} => added'[d] = {} /\ change'[d] = 0
    BY <1>1, <1>2, <1>3, <2>2 DEF FundsInv, FundsKept
  <2>6. \A d \in UnderWay' : Found(d)' < 0 /\ Slack' >= Found(d)'
    <3>1. \A d \in UnderWay : Found(d) < 0 /\ Slack >= Found(d)
      BY DEF FundsInv, FundsKept
    <3> QED
      BY <2>2, <2>3, <2>4, <3>1
  <2>7. ~overlapped' => UnderWay' = {c} /\ Slack' = Found(c)'
    BY <1>2, <2>2, <2>3
  <2>8. Returned' # {} => Slack' >= 0 /\ (~overlapped' => Slack' = 0)
    BY <1>2, <2>2, <2>3 DEF FundsInv, FundsKept
  <2>9. FundsKept'
    BY <2>5, <2>6, <2>7, <2>8 DEF FundsKept
  <2> QED
    BY <2>1, <2>2, <2>9
<1>4. CASE /\ InputsTotal >= RequiredNow
           /\ change' = [change EXCEPT ![c] = InputsTotal - RequiredNow]
           /\ pc' = [pc EXCEPT ![c] = "balanced"]
  <2>1. InputsTotal - RequiredNow \in Nat
    BY <1>1, <1>2, <1>4
  <2>2. TypeOK'
    BY <1>1, <1>2, <1>4, <2>1 DEF TypeOK
  <2>3. OutputsTotal' = OutputsTotal + (InputsTotal - RequiredNow)
    BY <1>1, <1>2, <1>4, <2>1, ChangeChanges
  <2>4. InputsTotal' = OutputsTotal' + MIN_FEE /\ Slack' = 0
    BY <1>1, <1>2, <2>3 DEF Slack
  <2>5. /\ UnderWay' = UnderWay /\ c \notin UnderWay
        /\ \A d \in Calls \ {c} : pc'[d] = pc[d] /\ change'[d] = change[d]
        /\ pc'[c] = "balanced"
    BY <1>1, <1>2, <1>4 DEF TypeOK, UnderWay
  <2>6. \A d \in UnderWay : Found(d)' = Found(d) /\ Found(d) < 0 /\ Found(d) \in Int
    BY <1>1, <1>2, <2>5 DEF Found, UnderWay, FundsInv, FundsKept, TypeOK
  <2>7. \A d \in Calls : pc'[d] \in {"idle", "fetch"} => added'[d] = {} /\ change'[d] = 0
    BY <1>1, <2>5 DEF FundsInv, FundsKept
  <2>8. \A d \in UnderWay' : Found(d)' < 0 /\ Slack' >= Found(d)'
    BY <2>4, <2>5, <2>6
  <2>9. ~overlapped' => UnderWay' = {}
    BY <1>2, <2>5
  <2>10. FundsKept'
    BY <2>4, <2>7, <2>8, <2>9 DEF FundsKept
  <2> QED
    BY <2>2, <2>4, <2>10
<1> QED
  BY <1>3, <1>4 DEF Balance

\* An answer that suffices adds what was missing, and more only as change; one
\* that does not leaves its UTXOs in the offer.
LEMMA AnsweredFunds ==
    ASSUME FundsInv, NEW c \in Calls, Answered(c)
    PROVE  TypeOK' /\ FundsKept'
<1>1. /\ InputsTotal \in Nat /\ OutputsTotal \in Nat /\ MIN_FEE \in Nat
      /\ TypeOK /\ InputsInv /\ UNCHANGED <<offer, wrapped, inputs_val, required, overlapped>>
  BY TotalsTyped DEF FundsInv, FundsKept, Answered, locals
<1>2. /\ pc[c] = "fetch" /\ c \in UnderWay /\ added[c] = {} /\ change[c] = 0
      /\ inputs_val[c] \in Nat /\ required[c] \in Nat
      /\ Slack \in Int /\ Found(c) \in Int /\ Found(c) < 0 /\ Slack >= Found(c)
  BY <1>1 DEF FundsInv, FundsKept, Answered, UnderWay, TypeOK, Slack, Found
<1>3. \A d \in Calls : Found(d)' = Found(d) /\ Found(d) \in Int
  BY <1>1 DEF Found, TypeOK
<1>4. PICK answer \in SUBSET Utxos :
          \/ /\ added' = [added EXCEPT ![c] = Eligible(answer)]
             /\ pc' = [pc EXCEPT ![c] = "insufficient"]
             /\ UNCHANGED change
          \/ \E more \in GreedySelections(Eligible(answer), required[c] - inputs_val[c]) :
                /\ added' = [added EXCEPT ![c] = more]
                /\ change' = [change EXCEPT ![c] = ChangeOf(c, more)]
                /\ pc' = [pc EXCEPT ![c] = "balanced"]
  BY DEF Answered
<1>5. CASE /\ added' = [added EXCEPT ![c] = Eligible(answer)]
           /\ pc' = [pc EXCEPT ![c] = "insufficient"]
           /\ UNCHANGED change
  <2>1. Eligible(answer) \in SUBSET Utxos
    BY DEF Eligible
  <2>2. TypeOK'
    BY <1>1, <1>5, <2>1 DEF TypeOK, InputsInv
  <2>3. InputsTotal' = InputsTotal + Total(Eligible(answer)) /\ Total(Eligible(answer)) \in Nat
    BY <1>1, <1>2, <1>5, <2>1, AddedChanges
  <2>4. Slack' = Slack + Total(Eligible(answer)) /\ Slack' \in Int
    BY <1>1, <1>5, <2>3, SameOutputs DEF Slack
  <2>5. /\ UnderWay' = UnderWay \ {c} /\ Returned' = Returned
        /\ \A d \in Calls \ {c} : pc'[d] = pc[d] /\ added'[d] = added[d]
        /\ pc'[c] = "insufficient"
    BY <1>1, <1>2, <1>5 DEF TypeOK, UnderWay, Returned, InputsInv
  <2>6. \A d \in UnderWay' : Found(d)' < 0 /\ Slack' >= Found(d)'
    <3> SUFFICES ASSUME NEW d \in UnderWay \ {c} PROVE Found(d)' < 0 /\ Slack' >= Found(d)'
      BY <2>5
    <3>1. Found(d) < 0 /\ Slack >= Found(d) /\ Found(d)' = Found(d) /\ Found(d) \in Int
      BY <1>3 DEF FundsInv, FundsKept, UnderWay
    <3> QED
      BY <1>2, <2>3, <2>4, <3>1
  <2>7. ~overlapped => UnderWay = {c} /\ Slack < 0
    BY <1>2 DEF FundsInv, FundsKept
  <2>8. Returned # {} => Slack' >= 0 /\ overlapped
    BY <1>2, <2>3, <2>4, <2>7 DEF FundsInv, FundsKept
  <2>9. \A d \in Calls : pc'[d] \in {"idle", "fetch"} => added'[d] = {} /\ change'[d] = 0
    BY <1>5, <2>5 DEF FundsInv, FundsKept
  <2>10. FundsKept'
    BY <1>1, <2>5, <2>6, <2>7, <2>8, <2>9 DEF FundsKept
  <2> QED
    BY <2>2, <2>10
<1>6. ASSUME NEW more \in GreedySelections(Eligible(answer), required[c] - inputs_val[c]),
             added' = [added EXCEPT ![c] = more],
             change' = [change EXCEPT ![c] = ChangeOf(c, more)],
             pc' = [pc EXCEPT ![c] = "balanced"]
      PROVE  TypeOK' /\ FundsKept'
  <2>1. more \in SUBSET Utxos /\ Total(more) >= required[c] - inputs_val[c]
    BY DEF GreedySelections, Eligible
  <2>2. InputsTotal' = InputsTotal + Total(more) /\ Total(more) \in Nat
    BY <1>1, <1>2, <1>6, <2>1, AddedChanges
  <2>3. ChangeOf(c, more) \in Nat /\ ChangeOf(c, more) = Found(c) + Total(more)
    BY <1>2, <2>1, <2>2 DEF ChangeOf, Found
  <2>4. TypeOK'
    BY <1>1, <1>6, <2>1, <2>3 DEF TypeOK, InputsInv
  <2>5. OutputsTotal' = OutputsTotal + ChangeOf(c, more)
    BY <1>1, <1>2, <1>6, <2>3, ChangeChanges
  <2>6. Slack' = Slack - Found(c) /\ Slack' \in Int /\ Slack' >= 0
    BY <1>1, <1>2, <2>2, <2>3, <2>5 DEF Slack
  <2>7. /\ UnderWay' = UnderWay \ {c}
        /\ \A d \in Calls \ {c} : pc'[d] = pc[d] /\ added'[d] = added[d] /\ change'[d] = change[d]
        /\ pc'[c] = "balanced"
    BY <1>1, <1>2, <1>6 DEF TypeOK, UnderWay, InputsInv
  <2>8. \A d \in UnderWay' : Found(d)' < 0 /\ Slack' >= Found(d)'
    <3> SUFFICES ASSUME NEW d \in UnderWay \ {c} PROVE Found(d)' < 0 /\ Slack' >= Found(d)'
      BY <2>7
    <3>1. Found(d) < 0 /\ Found(d)' = Found(d) /\ Found(d) \in Int
      BY <1>3 DEF FundsInv, FundsKept, UnderWay
    <3> QED
      BY <2>6, <3>1
  <2>9. ~overlapped => UnderWay = {c} /\ Slack = Found(c)
    BY <1>2 DEF FundsInv, FundsKept
  <2>10. \A d \in Calls : pc'[d] \in {"idle", "fetch"} => added'[d] = {} /\ change'[d] = 0
    BY <2>7 DEF FundsInv, FundsKept
  <2>11. ~overlapped => UnderWay' = {} /\ Slack' = 0
    BY <1>2, <2>6, <2>7, <2>9
  <2>12. FundsKept'
    BY <1>1, <2>6, <2>8, <2>10, <2>11 DEF FundsKept
  <2> QED
    BY <2>4, <2>12
<1> QED
  BY <1>4, <1>5, <1>6

\* The other steps leave the offer and what the calls found alone.
LEMMA OtherFunds ==
    ASSUME FundsInv, UNCHANGED <<dict, locals, overlapped>>,
           \/ UNCHANGED pc
           \/ \E c \in Calls : QueryFails(c) \/ Submit(c)
    PROVE  TypeOK' /\ FundsKept'
<1>1. /\ UNCHANGED <<offer, wrapped, added, change, inputs_val, required, overlapped>>
      /\ InputsTotal' = InputsTotal /\ OutputsTotal' = OutputsTotal
  BY SameTotals, SameOutputs DEF dict, locals
<1>2. Slack' = Slack /\ \A c \in Calls : Found(c)' = Found(c)
  BY <1>1 DEF Slack, Found
<1>3. CASE UNCHANGED pc
  BY <1>1, <1>2, <1>3 DEF FundsInv, TypeOK, FundsKept, UnderWay, Returned
<1>4. ASSUME NEW c \in Calls, QueryFails(c) PROVE TypeOK' /\ FundsKept'
  <2>1. pc[c] = "fetch" /\ pc' = [pc EXCEPT ![c] = "failed"]
    BY <1>4 DEF QueryFails
  <2>2. TypeOK'
    BY <1>1, <2>1 DEF FundsInv, FundsKept, TypeOK
  <2>3. UnderWay' = UnderWay \ {c} /\ Returned' = Returned
    BY <2>1 DEF FundsInv, FundsKept, TypeOK, UnderWay, Returned
  <2>4. \A d \in Calls : pc'[d] \in {"idle", "fetch"} => pc'[d] = pc[d]
    BY <2>1 DEF FundsInv, FundsKept, TypeOK
  <2>5. UnderWay' \subseteq UnderWay /\ UnderWay \subseteq Calls
    BY <2>3 DEF UnderWay
  <2>6. ~overlapped => \A d \in UnderWay' : FALSE
    <3>1. c \in UnderWay
      BY <2>1 DEF UnderWay
    <3> QED
      BY <2>3, <3>1 DEF FundsInv, FundsKept
  <2> QED
    BY <1>1, <1>2, <2>2, <2>3, <2>4, <2>5, <2>6 DEF FundsInv, FundsKept
<1>5. ASSUME NEW c \in Calls, Submit(c) PROVE TypeOK' /\ FundsKept'
  <2>1. /\ pc[c] = "balanced"
        /\ pc' = [pc EXCEPT ![c] = IF wrapped THEN "submitted" ELSE "KeyError"]
    BY <1>5 DEF Submit
  <2>2. TypeOK'
    BY <1>1, <2>1 DEF FundsInv, FundsKept, TypeOK
  <2>3. UnderWay' = UnderWay /\ Returned' = Returned
    BY <2>1 DEF FundsInv, FundsKept, TypeOK, UnderWay, Returned
  <2>4. \A d \in Calls : pc'[d] \in {"idle", "fetch"} => pc'[d] = pc[d]
    BY <2>1 DEF FundsInv, FundsKept, TypeOK
  <2>5. UnderWay \subseteq Calls
    BY DEF UnderWay
  <2> QED
    BY <1>1, <1>2, <2>2, <2>3, <2>4, <2>5 DEF FundsInv, FundsKept
<1> QED
  BY <1>3, <1>4, <1>5

LEMMA InitFunds == Init => FundsInv
<1> SUFFICES ASSUME Init PROVE FundsInv
  OBVIOUS
<1>1. InputsInv
  BY InitInputs
<1>2. TypeOK /\ UnderWay = {} /\ Returned = {}
  BY DEF Init, TypeOK, UnderWay, Returned
<1> QED
  BY <1>1, <1>2 DEF FundsInv, FundsKept, Init

\* What a step of Next does to the funds: they are kept, and a call that needs
\* no UTXOs leaves the offer exactly balanced.
LEMMA NextFunds ==
    ASSUME FundsInv, [Next]_vars
    PROVE  /\ FundsInv'
           /\ \A c \in Calls : pc[c] = "idle" /\ pc'[c] = "balanced" =>
                  InputsTotal' = OutputsTotal' + MIN_FEE
<1>1. InputsInv'
  BY NextInputs DEF FundsInv, FundsKept
<1>2. FundsInv' <=> TypeOK' /\ InputsInv' /\ FundsKept'
  BY DEF FundsInv, FundsKept
<1>3. ASSUME NEW c \in Calls, Balance(c)
      PROVE  /\ TypeOK' /\ FundsKept'
             /\ \A d \in Calls : pc[d] = "idle" /\ pc'[d] = "balanced" =>
                    InputsTotal' = OutputsTotal' + MIN_FEE
  <2>1. \A d \in Calls \ {c} : pc'[d] = pc[d]
    BY <1>3 DEF Balance, FundsInv, FundsKept, TypeOK
  <2> QED
    BY <1>3, <2>1, BalanceFunds
<1>4. ASSUME NEW c \in Calls, Answered(c)
      PROVE  /\ TypeOK' /\ FundsKept'
             /\ \A d \in Calls : ~(pc[d] = "idle" /\ pc'[d] = "balanced")
  <2>1. pc[c] = "fetch" /\ \A d \in Calls \ {c} : pc'[d] = pc[d]
    BY <1>4 DEF Answered, FundsInv, FundsKept, TypeOK
  <2> QED
    BY <1>4, <2>1, AnsweredFunds
<1>5. CASE (\E c \in Calls : QueryFails(c) \/ Submit(c)) \/ UNCHANGED vars
  <2>1. UNCHANGED <<dict, locals, overlapped>>
    BY <1>5 DEF QueryFails, Submit, vars
  <2>2. \A d \in Calls : ~(pc[d] = "idle" /\ pc'[d] = "balanced")
    BY <1>5 DEF QueryFails, Submit, vars, FundsInv, FundsKept, TypeOK
  <2> QED
    BY <1>1, <1>2, <1>5, <2>1, <2>2, OtherFunds DEF vars
<1> QED
  BY <1>1, <1>2, <1>3, <1>4, <1>5 DEF Next

\* Every state of the calls and of the dict they share is well typed: in
\* particular no change output is negative (balance_transaction).
THEOREM ConnectorTypes == Spec => []TypeOK
<1>1. FundsInv => TypeOK
  BY DEF FundsInv, FundsKept
<1> QED
  BY <1>1, InitFunds, NextFunds, PTL DEF Spec

\* Once a call has returned the transaction, it covers its outputs and the fee
\* whatever the other calls do, and exactly when no two calls have overlapped.
THEOREM ReturnedIsFunded == Spec => []NeverUnderfunded
<1>1. FundsInv => NeverUnderfunded
  <2> SUFFICES ASSUME FundsInv, Returned # {}
               PROVE  /\ InputsTotal >= OutputsTotal + MIN_FEE
                      /\ ~overlapped => InputsTotal = OutputsTotal + MIN_FEE
    BY DEF NeverUnderfunded
  <2>1. InputsTotal \in Nat /\ OutputsTotal \in Nat /\ MIN_FEE \in Nat
    BY TotalsTyped DEF FundsInv, FundsKept
  <2> QED
    BY <2>1 DEF FundsInv, FundsKept, Slack
<1> QED
  BY <1>1, InitFunds, NextFunds, PTL DEF Spec

\* A call that asks for no UTXOs leaves the offer exactly balanced: what
\* overlapping calls have overpaid comes back as its change.
THEOREM RebalanceRecovers == Spec => RebalanceIsExact
<1>1. FundsInv /\ [Next]_vars => [\A c \in Calls : (pc[c] = "idle" /\ pc'[c] = "balanced") =>
                                       InputsTotal' = OutputsTotal' + MIN_FEE]_vars
  BY NextFunds
<1> QED
  BY <1>1, InitFunds, NextFunds, PTL DEF Spec, RebalanceIsExact
=============================================================================
