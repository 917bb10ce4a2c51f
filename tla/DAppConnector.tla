---------------------------- MODULE DAppConnector ----------------------------
(***************************************************************************)
(* DAppConnector.balance_transaction and submit_transaction, called        *)
(* concurrently by a dApp with the same transaction dict.  The dict is     *)
(* edited in place; the totals of its offer are read before the UTXO       *)
(* query, its inputs again after it.                                       *)
(***************************************************************************)
EXTENDS Integers, FiniteSets, UtxoOps

CONSTANTS
    Calls,      \* calls of balance_transaction, each followed by a submission
    Utxos,      \* NIGHT UTXOs the indexer may answer with, now or later
    Offers,     \* the offers a dApp may start from
    MIN_FEE     \* config.min_fee

ASSUME ConnectorAssumption ==
    /\ IsFiniteSet(Calls)
    /\ IsFiniteSet(Utxos) /\ \A u \in Utxos : u.value \in Nat
    /\ \A o \in Offers :
          /\ o.outputs \in Nat
          /\ IsFiniteSet(o.inputs) /\ \A u \in o.inputs : u.value \in Nat
    /\ MIN_FEE \in Nat

VARIABLES
    pc,         \* where each call is
    offer,      \* the dApp's own inputs, and the total of its outputs
    wrapped,    \* the dict has a "standard" key around the transaction
    added,      \* inputs appended by each call
    change,     \* change output appended by each call, 0 for none
    inputs_val, \* local variables of each call, set before its query
    required,
    overlapped  \* history: two calls have been under way at once

locals == <<inputs_val, required>>
dict == <<offer, wrapped, added, change>>
vars == <<pc, dict, locals, overlapped>>

Init ==
    /\ pc = [c \in Calls |-> "idle"]
    /\ offer \in Offers
    /\ wrapped \in BOOLEAN
    /\ added = [c \in Calls |-> {}]
    /\ change = [c \in Calls |-> 0]
    /\ inputs_val = [c \in Calls |-> 0]
    /\ required = [c \in Calls |-> 0]
    /\ overlapped = FALSE

-----------------------------------------------------------------------------
\* The values of the offer's lines, as sum(int(i["value"]) ...) finds them.
InputsTotal ==
    Total(offer.inputs) + Total({[id |-> c, value |-> Total(added[c])] : c \in Calls})

OutputsTotal == offer.outputs + Total({[id |-> c, value |-> change[c]] : c \in Calls})

\* The inputs of the offer at this moment.
Used == offer.inputs \cup UNION {added[c] : c \in Calls}

UnderWay == {c \in Calls : pc[c] = "fetch"}

\* Faulty: the fee is left out of what has to be covered.
RequiredWithoutFee == OutputsTotal

RequiredNow == OutputsTotal + MIN_FEE

\* A call that finds enough inputs appends its change output and returns.
\* Otherwise it keeps the totals and asks for UTXOs.
Balance(c) ==
    /\ pc[c] = "idle"
    /\ overlapped' = (overlapped \/ UnderWay # {})
    /\ inputs_val' = [inputs_val EXCEPT ![c] = InputsTotal]
    /\ required' = [required EXCEPT ![c] = RequiredNow]
    /\ \/ /\ InputsTotal < RequiredNow
          /\ pc' = [pc EXCEPT ![c] = "fetch"]
          /\ UNCHANGED change
       \/ /\ InputsTotal >= RequiredNow
          /\ change' = [change EXCEPT ![c] = InputsTotal - RequiredNow]
          /\ pc' = [pc EXCEPT ![c] = "balanced"]
    /\ UNCHANGED <<offer, wrapped, added>>

\* inputs_val - required, with the added inputs counted
ChangeOf(c, more) == inputs_val[c] + Total(more) - required[c]

\* Faulty: the outpoints already used are not filtered out.
EligibleUnfiltered(answer) == answer

\* used_outpoints is read after the query has returned.  An outpoint is its
\* identity here; the code compares the hash as the indexer wrote it and the
\* number as it came (lines 83-95), so an indexer that wrote hashes in capitals
\* or numbers as text would pass the filter and is not modelled.
Eligible(answer) == answer \ Used

\* get_utxos answers: add the largest unused UTXOs until they cover what was
\* missing before the query, then the change.
Answered(c) ==
    /\ pc[c] = "fetch"
    /\ \E answer \in SUBSET Utxos :
        LET eligible == Eligible(answer)
            missing == required[c] - inputs_val[c]
        IN  \/ \* all of them are too little: raise, with the inputs left in the offer
               /\ Total(eligible) < missing
               /\ added' = [added EXCEPT ![c] = eligible]
               /\ pc' = [pc EXCEPT ![c] = "insufficient"]
               /\ UNCHANGED change
            \/ \E more \in GreedySelections(eligible, missing) :
                  /\ added' = [added EXCEPT ![c] = more]
                  /\ change' = [change EXCEPT ![c] = ChangeOf(c, more)]
                  /\ pc' = [pc EXCEPT ![c] = "balanced"]
    /\ UNCHANGED <<offer, wrapped, locals, overlapped>>

\* get_utxos gives up after its three attempts.
QueryFails(c) ==
    /\ pc[c] = "fetch"
    /\ pc' = [pc EXCEPT ![c] = "failed"]
    /\ UNCHANGED <<dict, locals, overlapped>>

\* submit_transaction serialises the dict, which needs the "standard" key,
\* and hands it to the node.
Submit(c) ==
    /\ pc[c] = "balanced"
    /\ pc' = [pc EXCEPT ![c] = IF wrapped THEN "submitted" ELSE "KeyError"]
    /\ UNCHANGED <<dict, locals, overlapped>>

Next ==
    \/ \E c \in Calls : Balance(c) \/ Answered(c) \/ QueryFails(c) \/ Submit(c)
    \/ UnderWay = {} /\ UNCHANGED vars

Spec == Init /\ [][Next]_vars

-----------------------------------------------------------------------------
\* The calls that have returned the transaction.
Returned == {c \in Calls : pc[c] \in {"balanced", "submitted", "KeyError"}}

TypeOK ==
    /\ pc \in [Calls -> {"idle", "fetch", "balanced", "insufficient", "failed",
                         "submitted", "KeyError"}]
    /\ offer \in Offers /\ wrapped \in BOOLEAN
    /\ \A c \in Calls : added[c] \subseteq Utxos
    /\ change \in [Calls -> Nat]
    /\ inputs_val \in [Calls -> Nat]
    /\ required \in [Calls -> Nat]
    /\ overlapped \in BOOLEAN

\* No outpoint is spent twice by the offer, however many calls have edited it
\* (lines 83-96: the used outpoints are read after the query).
NoDuplicateInputs ==
    \A c, d \in Calls :
        /\ added[c] \cap offer.inputs = {}
        /\ c # d => added[c] \cap added[d] = {}

\* Once one call has returned, the offer covers its outputs and the fee, and
\* no later or concurrent call, successful or not, undoes that.  Overlapping
\* calls overpay; others leave it exactly balanced, even after failed attempts
\* that left inputs behind.
NeverUnderfunded ==
    Returned # {} =>
        /\ InputsTotal >= OutputsTotal + MIN_FEE
        /\ ~overlapped => InputsTotal = OutputsTotal + MIN_FEE

\* Balancing again recovers what overlapping calls have overpaid: a call that
\* needs no UTXOs leaves the offer exactly balanced.
RebalanceIsExact ==
    [][\A c \in Calls : (pc[c] = "idle" /\ pc'[c] = "balanced") =>
           InputsTotal' = OutputsTotal' + MIN_FEE]_vars
=============================================================================
