-------------------------- MODULE TransactionSigning --------------------------
(***************************************************************************)
(* _serialize_transaction on one transaction dict, which it edits: the     *)
(* binding is made once, then every intent is signed in the dict's order,  *)
(* then the dict is turned into bytes.  A caller may balance or edit the   *)
(* dict between attempts and submit it again.  Each attempt runs without   *)
(* an await; what the node answers does not reach the dict.                *)
(***************************************************************************)
EXTENDS Integers, Sequences, FiniteSetsExt

CONSTANTS
    Dicts,        \* transaction dicts callers hand over
    Balances,     \* what an offer's inputs may exceed its outputs by
    MaxAttempts,  \* bound on the submissions of one dict
    Absent        \* no binding_commitment in the intent

\* No such offer in the intent; no offer has this field.
NoOffer == [offer |-> "none"]

\* An offer has the owner of its first input ("none" without inputs), the
\* excess of its inputs over its outputs, and its signatures.
IsOffer(o) ==
    /\ o = [owner |-> o.owner, balance |-> o.balance, signatures |-> o.signatures]
    /\ Len(o.signatures) \in 0 .. 1

IsIntent(x) ==
    /\ x = [segment |-> x.segment, guaranteed |-> x.guaranteed, fallible |-> x.fallible,
            binding_commitment |-> x.binding_commitment]
    /\ x.guaranteed = NoOffer \/ IsOffer(x.guaranteed)
    /\ x.fallible = NoOffer \/ IsOffer(x.fallible)

\* A dict has finitely many intents, in order; signed or not.
ASSUME SigningAssumption ==
    /\ MaxAttempts \in Nat
    /\ \A d \in Dicts :
        /\ d.intents \in Seq({d.intents[i] : i \in DOMAIN d.intents})
        /\ \A i \in DOMAIN d.intents : IsIntent(d.intents[i])
        /\ d.randomness \in Nat
        /\ d.fee \in Nat
        /\ d.signed \in BOOLEAN

VARIABLES
    intents,      \* stx["intents"], in insertion order
    randomness,   \* stx["binding_randomness"], 0 for 32 zero bytes
    fee,          \* tx_data.get("fee", 0)
    requires_unshielded_signature,
    attempts,     \* submissions begun
    sent          \* the transactions handed to the node, and of each whether no
                  \* offer of the dict had a signature when it was signed

vars == <<intents, randomness, fee, requires_unshielded_signature, attempts, sent>>

Init ==
    /\ \E d \in Dicts :
        /\ intents = d.intents
        /\ randomness = d.randomness
        /\ fee = d.fee
        /\ requires_unshielded_signature = d.signed
    /\ attempts = 0
    /\ sent = <<>>

Positions == 1 .. Len(intents)

----------------------------------------------------------------------------
(* The cryptographic binding.                                              *)

\* Faulty: made anew for every attempt.
BoundAnew(fresh) ==
    [i \in Positions |->
        IF intents[i].segment = 0
        THEN [intents[i] EXCEPT !.binding_commitment =
                                    [randomness |-> fresh, value |-> fee]]
        ELSE intents[i]]

\* Randomness is made when there is none, and with it the commitment of the
\* intent "0", on the value of the dict's "fee".  The keys of a dict are text:
\* an intent under the number 0 would be balanced, but not bound.
Bound(fresh) ==
    IF randomness # 0
    THEN intents
    ELSE [i \in Positions |->
            IF intents[i].segment = 0
            THEN [intents[i] EXCEPT !.binding_commitment =
                                        [randomness |-> fresh, value |-> fee]]
            ELSE intents[i]]

----------------------------------------------------------------------------
(* The signatures.                                                         *)

Offers(intent) == {field \in {"guaranteed", "fallible"} : intent[field] # NoOffer}

Unsigned(its) ==
    \A i \in DOMAIN its : \A field \in Offers(its[i]) : its[i][field].signatures = <<>>

WalletOf(owner) == IF owner = "dust" THEN "dust" ELSE "unshielded"

\* Faulty: the wallet is chosen once, by the first offer.
SignerOfFirst(its, i) ==
    LET guaranteed == {j \in 1 .. i : its[j].guaranteed # NoOffer}
    IN  IF guaranteed = {} THEN "unbound"
                           ELSE WalletOf(its[Min(guaranteed)].guaranteed.owner)

\* The local variable `signer` in the loop over its: assigned by the intents
\* with a guaranteed offer, kept from one intent to the next.
Signer(its, i) ==
    LET guaranteed == {j \in 1 .. i : its[j].guaranteed # NoOffer}
    IN  IF guaranteed = {} THEN "unbound"
                           ELSE WalletOf(its[Max(guaranteed)].guaranteed.owner)

\* get_unshielded_signing_payload: the intent with the signatures it has, those
\* of an earlier attempt and of the guaranteed offer among them.
SigningPayload(intent) ==
    [prefix |-> "midnight:unshielded-sig[v1]", intent |-> intent]

\* Faulty: an offer that has a signature is not signed again.
SignedIfUnsigned(intent, field, signer) ==
    IF intent[field] = NoOffer \/ intent[field].signatures # <<>>
    THEN intent
    ELSE [intent EXCEPT ![field].signatures =
            <<[key |-> signer, payload |-> SigningPayload(intent)]>>]

\* The offer's signature, in the place of those it has.
Signed(intent, field, signer) ==
    IF intent[field] = NoOffer
    THEN intent
    ELSE [intent EXCEPT ![field].signatures =
            <<[key |-> signer, payload |-> SigningPayload(intent)]>>]

SignIntent(its, i) ==
    Signed(Signed(its[i], "guaranteed", Signer(its, i)), "fallible", Signer(its, i))

\* What stops the loop at an intent: serialize_intent finds no commitment, or
\* `signer` was never assigned.
Unsignable(its, i) ==
    \/ /\ its[i].binding_commitment = Absent
       /\ its[i].guaranteed # NoOffer \/ its[i].fallible # NoOffer
    \/ /\ its[i].fallible # NoOffer
       /\ Signer(its, i) = "unbound"

\* The intents the loop signs: all of them, or those before the first defect.
SignedPositions(its) ==
    {i \in Positions :
        /\ requires_unshielded_signature
        /\ \A j \in 1 .. i : ~Unsignable(its, j)}

SignAll(its) ==
    [i \in Positions |-> IF i \in SignedPositions(its) THEN SignIntent(its, i)
                                                        ELSE its[i]]

\* serialize_transaction reads every commitment, signed intent or not.
Serializable(its) ==
    /\ \A i \in Positions : its[i].binding_commitment # Absent
    /\ requires_unshielded_signature => SignedPositions(its) = Positions

----------------------------------------------------------------------------
\* One call of _serialize_transaction.  When it raises, what it did to the
\* dict until then stays done and nothing is sent.
Submit ==
    /\ attempts < MaxAttempts
    /\ attempts' = attempts + 1
    /\ randomness' = IF randomness = 0 THEN attempts' ELSE randomness
    /\ LET bound == Bound(attempts')
       IN  /\ intents' = SignAll(bound)
           /\ sent' = IF Serializable(bound)
                      THEN Append(sent, [intents |-> intents', attempt |-> attempts',
                                         unsigned |-> Unsigned(bound)])
                      ELSE sent
    /\ UNCHANGED <<fee, requires_unshielded_signature>>

\* The offer balance_transaction finds or makes in the intent "0".
OwnOffer(intent) ==
    IF intent.guaranteed = NoOffer
    THEN [owner |-> "none", balance |-> 0, signatures |-> <<>>]
    ELSE intent.guaranteed

\* Inputs of the unshielded wallet are added behind those that are there, and
\* change that may leave a smaller excess than before.
WithBalance(intent, b) ==
    [intent EXCEPT !.guaranteed =
        [owner |-> IF OwnOffer(intent).owner = "none" /\ b > OwnOffer(intent).balance
                   THEN "unshielded" ELSE OwnOffer(intent).owner,
         balance |-> b,
         signatures |-> OwnOffer(intent).signatures]]

EmptyIntent ==
    [segment |-> 0, guaranteed |-> NoOffer, fallible |-> NoOffer,
     binding_commitment |-> Absent]

\* DAppConnector.balance_transaction, before or between submissions.
BalanceTransaction ==
    /\ LET its == IF \E i \in Positions : intents[i].segment = 0
                  THEN intents ELSE Append(intents, EmptyIntent)
       IN  \E i \in 1 .. Len(its), b \in Balances :
            /\ its[i].segment = 0
            /\ OwnOffer(its[i]).owner = "none" => b >= OwnOffer(its[i]).balance
            /\ intents' = [its EXCEPT ![i] = WithBalance(its[i], b)]
    /\ UNCHANGED <<randomness, fee, requires_unshielded_signature, attempts, sent>>

Next == Submit \/ BalanceTransaction

Spec == Init /\ [][Next]_vars

----------------------------------------------------------------------------
(* Properties.                                                             *)

\* The intent without any signature.
Bare(intent) ==
    [intent EXCEPT
        !.guaranteed = IF @ = NoOffer THEN @ ELSE [@ EXCEPT !.signatures = <<>>],
        !.fallible = IF @ = NoOffer THEN @ ELSE [@ EXCEPT !.signatures = <<>>]]

\* What the node can make of a transaction to verify a signature: the intent
\* without it, and for the guaranteed offer without that of the fallible one,
\* which is made later.
Recomputed(intent, field) ==
    IF field = "guaranteed" THEN Bare(intent) ELSE [intent EXCEPT !.fallible.signatures = <<>>]

TypeOK ==
    /\ randomness \in Nat
    /\ fee \in Nat
    /\ requires_unshielded_signature \in BOOLEAN
    /\ attempts \in 0 .. MaxAttempts
    /\ \A i \in Positions :
        /\ DOMAIN intents[i] = {"segment", "guaranteed", "fallible", "binding_commitment"}
        /\ \A field \in Offers(intents[i]) : Len(intents[i][field].signatures) <= 1
    /\ Len(sent) <= attempts

\* Whatever was balanced, signed or broken off before: what is sent of a dict
\* that asks for signatures has exactly one per offer, made over all of the
\* intent as it is sent but its signatures.  When the dict came to this attempt
\* unsigned, the signed payload can be made again from what is sent.
SignaturesCoverSent ==
    requires_unshielded_signature =>
        \A n \in DOMAIN sent : \A i \in DOMAIN sent[n].intents :
            LET intent == sent[n].intents[i]
            IN  \A field \in Offers(intent) :
                    /\ Len(intent[field].signatures) = 1
                    /\ LET signed == intent[field].signatures[1].payload.intent
                       IN  /\ Bare(signed) = Bare(intent)
                           /\ sent[n].unsigned => signed = Recomputed(intent, field)

\* The guaranteed offer of every intent is signed by the wallet that owns its
\* first input, whichever wallet signed the other intents.
GuaranteedSignedByOwner ==
    requires_unshielded_signature =>
        \A n \in DOMAIN sent : \A i \in DOMAIN sent[n].intents :
            LET offer == sent[n].intents[i].guaranteed
            IN  offer # NoOffer => offer.signatures[1].key = WalletOf(offer.owner)

\* The later intent is the earlier one, but for its signatures and what
\* balancing did to the guaranteed offer of segment 0.
Alike(earlier, later) ==
    /\ later.segment = earlier.segment
    /\ later.binding_commitment = earlier.binding_commitment
    /\ Bare(later).fallible = Bare(earlier).fallible
    /\ earlier.segment # 0 => Bare(later).guaranteed = Bare(earlier).guaranteed

\* A dict that is submitted again, with attempts that raised half way and
\* balancings in between, is the same transaction: every intent sent before is
\* sent again in its place, bound as before ("preserve ZK proof validity",
\* tx/builder.py:515).
ResentAlike ==
    \A m, n \in DOMAIN sent : m < n =>
        /\ Len(sent[m].intents) <= Len(sent[n].intents)
        /\ \A i \in DOMAIN sent[m].intents : Alike(sent[m].intents[i], sent[n].intents[i])

\* tx/builder.py:549 "usually fallible offers in the same intent share the
\* owner": a fallible offer's signer is found in its own intent.
FallibleSignedInIntent ==
    requires_unshielded_signature =>
        \A n \in DOMAIN sent : \A i \in DOMAIN sent[n].intents :
            LET intent == sent[n].intents[i]
            IN  intent.fallible # NoOffer =>
                    intent.fallible.signatures[1].key \in
                        {WalletOf(intent[field].owner) : field \in Offers(intent)}

\* tx/builder.py:431 "Serialize transaction to raw bytes with signing": an
\* offer that spends is not sent without a signature.
SpendsAreSigned ==
    \A n \in DOMAIN sent : \A i \in DOMAIN sent[n].intents :
        LET intent == sent[n].intents[i]
        IN  \A field \in Offers(intent) :
                intent[field].owner # "none" => intent[field].signatures # <<>>

\* tx/scale.py:280 "Construction: ... || intent_bytes": every signature is over
\* what the node can make again from the transaction.
SignaturesRecomputable ==
    \A n \in DOMAIN sent : \A i \in DOMAIN sent[n].intents :
        LET intent == sent[n].intents[i]
        IN  \A field \in Offers(intent) :
                \A k \in DOMAIN intent[field].signatures :
                    intent[field].signatures[k].payload.intent = Recomputed(intent, field)

\* crypto/jubjub.py:184 "Ensures cryptographic binding between public value
\* balance and ZK proofs": the commitment is on the offer's public balance.
CommitmentBindsBalance ==
    \A n \in DOMAIN sent : \A i \in DOMAIN sent[n].intents :
        LET intent == sent[n].intents[i]
        IN  intent.guaranteed # NoOffer =>
                intent.binding_commitment.value = intent.guaranteed.balance

\* wallet/unshielded.py:78 "The data should already include the
\* 'midnight:hash-intent:' prefix", said of what sign_seg_intent signs.
IntentPrefixed ==
    \A n \in DOMAIN sent : \A i \in DOMAIN sent[n].intents :
        LET intent == sent[n].intents[i]
        IN  \A field \in Offers(intent) :
                \A k \in DOMAIN intent[field].signatures :
                    intent[field].signatures[k].payload.prefix = "midnight:hash-intent:"
=============================================================================
