------------------------- MODULE TransactionBuilder -------------------------
(***************************************************************************)
(* Concurrent calls of TransactionBuilder.transfer, call_contract and      *)
(* deploy_contract on one wallet, together with the services they await:   *)
(* the indexer (UTXO queries and receipts, lagging behind the chain), the  *)
(* proof server and the node.                                              *)
(*                                                                         *)
(* The client is one event loop, so a call runs alone from one await to    *)
(* the next: every action of a call is the code between two awaits.  What  *)
(* can interleave there are the other calls, the node, the chain, the      *)
(* indexer and the application closing the client.                         *)
(***************************************************************************)
EXTENDS Integers, Sequences, FiniteSets, UtxoOps

CONSTANTS
    Tasks,           \* calls in flight
    Kinds,           \* which entry points they use
    Amounts,         \* amounts asked for by transfer
    Fees,            \* fees: the caller's or config.min_fee
    DUST_THRESHOLD,
    Genesis,         \* UTXOs of the wallet before the calls
    Coins,           \* shielded coins in wallet.shielded_state
    ResultKey,       \* key under which the indexer writes a transaction's result
    NoCall

\* Entry points: transfer(shielded=False), transfer(shielded=True),
\* call_contract, deploy_contract.
Entries == {"unshielded", "shielded", "contract_call", "contract_deploy"}

Owners == {"unshielded", "dust", "recipient"}

\* retry(stop=stop_after_attempt(3)) on get_utxos, (2) on prove
GetUtxosAttempts == 3
ProveAttempts == 2

Statuses == {"SUCCESS", "PARTIAL_SUCCESS", "FAILURE"}

\* A transaction with one of these statuses has spent its inputs.
Applied == {"SUCCESS", "PARTIAL_SUCCESS"}

\* The exceptions a call may end with.  SocketError stands for whatever the
\* websocket raises when it breaks under author_submitExtrinsic.
Errors == {"TransactionError", "AddressError", "RetryError", "ProofError", "KeyError",
           "AttributeError", "ConnectionError", "SocketError", "TransactionTimeoutError"}

ASSUME BuilderAssumption ==
    /\ Kinds \subseteq Entries
    /\ Amounts \subseteq Nat
    /\ Fees \subseteq Nat
    /\ DUST_THRESHOLD \in Nat
    /\ IsFiniteSet(Genesis)
    /\ \A u \in Genesis : u.owner \in Owners /\ u.value \in Nat
    \* No UTXO of the wallet is an output of a call that has not begun.
    /\ \A u \in Genesis, t \in Tasks : u.id \notin {<<t, 1>>, <<t, 2>>}
    /\ IsFiniteSet(Coins)
    /\ \A c \in Coins : c.value \in Nat

VARIABLES
    \* the calls
    pc,          \* the await a call is at
    call,        \* its arguments
    attempts,    \* failed attempts of the request being retried
    circuits,    \* circuits still to prove
    offer,       \* the unshielded offer built for it
    result,      \* receipt status or exception
    since,       \* indexer position when its UTXO query was sent
    \* the node connection
    connected,   \* NodeClient._substrate is set
    wire,        \* author_submitExtrinsic of each call
    \* node, chain and indexer
    pool,        \* transactions accepted by the node, not yet in a block
    chain,       \* transactions in blocks, in order
    indexed      \* how many of them the indexer has seen

local == <<pc, call, attempts, circuits, offer, result, since>>
network == <<pool, chain, indexed>>
vars == <<local, connected, wire, network>>

NoOffer == [inputs |-> {}, outputs |-> {}, fee |-> 0, signer |-> "none"]

Init ==
    /\ pc = [t \in Tasks |-> "idle"]
    /\ call = [t \in Tasks |-> NoCall]
    /\ attempts = [t \in Tasks |-> 0]
    /\ circuits = [t \in Tasks |-> <<>>]
    /\ offer = [t \in Tasks |-> NoOffer]
    /\ result = [t \in Tasks |-> "none"]
    /\ since = [t \in Tasks |-> 0]
    /\ connected = TRUE
    /\ wire = [t \in Tasks |-> "none"]
    /\ pool = {}
    /\ chain = <<>>
    /\ indexed = 0

-----------------------------------------------------------------------------
(* The ledger *)

\* The calls whose transactions have taken effect within the first n chain
\* entries.
AppliedBy(n) == {chain[i].task : i \in {j \in 1 .. n : chain[j].status \in Applied}}

\* The UTXO set after the first n chain entries.
UtxosAt(n) ==
    (Genesis \cup UNION {offer[t].outputs : t \in AppliedBy(n)})
        \ UNION {offer[t].inputs : t \in AppliedBy(n)}

-----------------------------------------------------------------------------
(* Steps shared by the entry points *)

\* transfer(shielded=False) spends NIGHT of the unshielded wallet; the other
\* entry points call _build_unshielded_transfer with use_dust and amount 0.
Payer(t) == IF call[t].kind = "unshielded" THEN "unshielded" ELSE "dust"
PaidAmount(t) == IF call[t].kind = "unshielded" THEN call[t].amount ELSE 0
Required(t) == PaidAmount(t) + call[t].fee

Raise(t, exception) ==
    /\ pc' = [pc EXCEPT ![t] = "done"]
    /\ result' = [result EXCEPT ![t] = exception]
    /\ attempts' = [attempts EXCEPT ![t] = 0]
    /\ since' = [since EXCEPT ![t] = 0]

\* Automatic Signer Detection: by the owner key on the first input, which is
\* the key of the wallet that was asked for UTXOs.
SignerOf(inputs, owner) ==
    IF inputs # {} /\ owner = "dust" THEN "dust" ELSE "unshielded"

\* Faulty: change below the threshold is neither returned nor added to the fee.
FeeIgnoringChange(t, change) == call[t].fee

\* The fee of the envelope: the tiny change is added to it.
RealFee(t, change) == IF change < DUST_THRESHOLD THEN call[t].fee + change ELSE call[t].fee

\* The offer _build_unshielded_transfer makes of the selected UTXOs.
BuildOffer(t, selected) ==
    LET change == Total(selected) - Required(t)
        payment == IF PaidAmount(t) > 0
                   THEN {[id |-> <<t, 1>>, owner |-> "recipient", value |-> PaidAmount(t)]}
                   ELSE {}
        back == IF change > 0 /\ change >= DUST_THRESHOLD
                THEN {[id |-> <<t, 2>>, owner |-> Payer(t), value |-> change]}
                ELSE {}
    IN  [inputs |-> selected, outputs |-> payment \cup back,
         fee |-> RealFee(t, change), signer |-> SignerOf(selected, Payer(t))]

\* The fields of the transaction dict that survive ZKProver.prove_transaction:
\* those of ProvenTransaction.
ProvenFields == {"type", "guaranteed_hex", "fallible_hexes", "proof_hexes",
                 "requires_unshielded_signature", "signing_payload_hex", "signature_hex"}

\* The fields of the dict that reach _serialize_transaction.
FieldsToSerialize(kind) ==
    CASE kind = "unshielded" ->
            {"type", "standard", "fee", "requires_unshielded_signature"}
      [] kind = "contract_deploy" ->
            {"type", "bytecode", "initial_state", "circuits", "standard", "fee",
             "requires_unshielded_signature"}
      [] OTHER -> ProvenFields

\* What _serialize_transaction raises on a dict with these fields: a call
\* needs its address, and proof_hexes is a list where a dict is expected.
SerializeError(kind) ==
    LET fields == FieldsToSerialize(kind)
    IN  CASE kind = "contract_call" /\ "contract_address" \notin fields -> "KeyError"
          [] kind = "shielded" /\ "proof_hexes" \in fields -> "AttributeError"
          [] OTHER -> "none"

\* _serialize_transaction, then submit_extrinsic up to the RPC.  The offer of
\* the envelope is what is signed and sent.
SerializeAndSubmit(t, envelope) ==
    LET error == SerializeError(call[t].kind)
    IN  \/ /\ error # "none"
           /\ Raise(t, error)
           /\ UNCHANGED <<wire, offer>>
        \/ /\ error = "none"
           /\ ~connected
           /\ Raise(t, "ConnectionError")
           /\ UNCHANGED <<wire, offer>>
        \/ /\ error = "none"
           /\ connected
           /\ offer' = [offer EXCEPT ![t] = envelope]
           /\ wire' = [wire EXCEPT ![t] = "sent"]
           /\ pc' = [pc EXCEPT ![t] = "submit"]
           /\ attempts' = [attempts EXCEPT ![t] = 0]
           /\ since' = [since EXCEPT ![t] = 0]
           /\ UNCHANGED result

-----------------------------------------------------------------------------
(* The calls, from await to await *)

\* The application calls an entry point of the unshielded kind, call_contract
\* or deploy_contract: up to the UTXO query.
Begin(t, kind, amount, fee) ==
    /\ pc[t] = "idle"
    /\ kind # "shielded"
    /\ call' = [call EXCEPT ![t] = [kind |-> kind, amount |-> amount, fee |-> fee]]
    /\ pc' = [pc EXCEPT ![t] = "fetch"]
    /\ since' = [since EXCEPT ![t] = indexed]
    /\ UNCHANGED <<attempts, circuits, offer, result, connected, wire, network>>

\* One spend circuit per coin, one output circuit for the recipient and one
\* for the change.
CircuitsFor(coins, amount) ==
    [i \in 1 .. Cardinality(coins) |-> "spend"]
        \o (IF Total(coins) > amount THEN <<"output", "output">> ELSE <<"output">>)

\* transfer(shielded=True): _build_shielded_transfer runs without an await,
\* then the UTXO query for the fee is sent.
BeginShielded(t, amount, fee) ==
    /\ pc[t] = "idle"
    /\ call' = [call EXCEPT ![t] = [kind |-> "shielded", amount |-> amount, fee |-> fee]]
    /\ \/ /\ GreedySelections(Coins, amount) = {}
          /\ Raise(t, "TransactionError")
          /\ UNCHANGED circuits
       \/ /\ \E coins \in GreedySelections(Coins, amount) :
                circuits' = [circuits EXCEPT ![t] = CircuitsFor(coins, amount)]
          /\ pc' = [pc EXCEPT ![t] = "fetch"]
          /\ since' = [since EXCEPT ![t] = indexed]
          /\ UNCHANGED <<attempts, result>>
    /\ UNCHANGED <<offer, connected, wire, network>>

\* An undecodable recipient: the unshielded builder wraps the error, the
\* shielded builder decodes only after it has selected coins and does not.
BeginBadAddress(t, kind, amount, fee) ==
    /\ pc[t] = "idle"
    /\ kind \in {"unshielded", "shielded"}
    /\ call' = [call EXCEPT ![t] = [kind |-> kind, amount |-> amount, fee |-> fee]]
    /\ Raise(t, IF kind = "unshielded" \/ GreedySelections(Coins, amount) = {}
                THEN "TransactionError" ELSE "AddressError")
    /\ UNCHANGED <<circuits, offer, connected, wire, network>>

\* Faulty: after the last attempt the count starts over.
FetchFailsRestarted(t) ==
    /\ pc[t] = "fetch"
    /\ attempts' = [attempts EXCEPT ![t] = (@ + 1) % GetUtxosAttempts]
    /\ since' = [since EXCEPT ![t] = indexed]
    /\ UNCHANGED <<pc, call, circuits, offer, result, connected, wire, network>>

\* get_utxos fails: tenacity retries, then gives up with RetryError.
FetchFails(t) ==
    /\ pc[t] = "fetch"
    /\ \/ /\ attempts[t] + 1 < GetUtxosAttempts
          /\ attempts' = [attempts EXCEPT ![t] = @ + 1]
          /\ since' = [since EXCEPT ![t] = indexed]
          /\ UNCHANGED <<pc, result>>
       \/ /\ attempts[t] + 1 >= GetUtxosAttempts
          /\ Raise(t, "RetryError")
    /\ UNCHANGED <<call, circuits, offer, connected, wire, network>>

\* The eligible UTXOs of an answer taken at indexer position n.
EligibleAt(t, n) == {u \in UtxosAt(n) : u.owner = Payer(t)}

\* get_utxos answers with the UTXO set of some indexer position since the
\* query was sent; the builder runs to the next await.
FetchAnswered(t) ==
    /\ pc[t] = "fetch"
    /\ \E n \in since[t] .. indexed :
        LET eligible == EligibleAt(t, n)
        IN  \/ /\ Selections(eligible, Required(t)) = {}
               /\ Raise(t, "TransactionError")
               /\ UNCHANGED <<wire, offer>>
            \/ \E selected \in Selections(eligible, Required(t)) :
                  \/ /\ call[t].kind \in {"unshielded", "contract_deploy"}
                     /\ SerializeAndSubmit(t, BuildOffer(t, selected))
                  \/ /\ call[t].kind \in {"shielded", "contract_call"}
                     /\ pc' = [pc EXCEPT ![t] = "health"]
                     /\ attempts' = [attempts EXCEPT ![t] = 0]
                     /\ since' = [since EXCEPT ![t] = 0]
                     /\ UNCHANGED <<result, wire, offer>>
    /\ UNCHANGED <<call, circuits, connected, network>>

\* GET /health fails or answers nothing.  A body that is not JSON and a client
\* closed meanwhile raise other exceptions at this await; ProofError stands for
\* them, nothing distinguishes them later.
HealthFails(t) ==
    /\ pc[t] = "health"
    /\ Raise(t, "ProofError")
    /\ UNCHANGED <<call, circuits, offer, connected, wire, network>>

\* The proof server is up: prove the circuits, or return at once when there
\* are none.
HealthAnswered(t) ==
    /\ pc[t] = "health"
    /\ \/ /\ circuits[t] = <<>>
          /\ SerializeAndSubmit(t, NoOffer)
       \/ /\ circuits[t] # <<>>
          /\ pc' = [pc EXCEPT ![t] = "prove"]
          /\ UNCHANGED <<attempts, since, result, wire, offer>>
    /\ UNCHANGED <<call, circuits, connected, network>>

\* A proof comes back.  A spend circuit never gets that far: its inputs hold
\* the coin's bytes, which the JSON encoder refuses before a request is made.
ProofAnswered(t) ==
    /\ pc[t] = "prove"
    /\ Head(circuits[t]) = "output"
    /\ circuits' = [circuits EXCEPT ![t] = Tail(@)]
    /\ \/ /\ Len(circuits[t]) = 1
          /\ SerializeAndSubmit(t, NoOffer)
       \/ /\ Len(circuits[t]) > 1
          /\ attempts' = [attempts EXCEPT ![t] = 0]
          /\ UNCHANGED <<pc, since, result, wire, offer>>
    /\ UNCHANGED <<call, connected, network>>

\* prove fails, by the server or by the encoder: two attempts in all.
ProofFails(t) ==
    /\ pc[t] = "prove"
    /\ \/ /\ attempts[t] + 1 < ProveAttempts
          /\ attempts' = [attempts EXCEPT ![t] = @ + 1]
          /\ UNCHANGED <<pc, result, since>>
       \/ /\ attempts[t] + 1 >= ProveAttempts
          /\ Raise(t, "RetryError")
    /\ UNCHANGED <<call, circuits, offer, connected, wire, network>>

\* author_submitExtrinsic returns a hash: start waiting for the receipt.
SubmitAnswered(t) ==
    /\ pc[t] = "submit"
    /\ wire[t] = "accepted"
    /\ pc' = [pc EXCEPT ![t] = "wait"]
    /\ UNCHANGED <<call, attempts, circuits, offer, result, since, connected, wire, network>>

\* author_submitExtrinsic returns an error: "Node rejected tx".
SubmitRejected(t) ==
    /\ pc[t] = "submit"
    /\ wire[t] = "rejected"
    /\ Raise(t, "TransactionError")
    /\ UNCHANGED <<call, circuits, offer, connected, wire, network>>

\* Faulty: the broken socket is reported as a TransactionError.
SubmitBreaksAsRejection(t) ==
    /\ pc[t] = "submit"
    /\ Raise(t, "TransactionError")
    /\ UNCHANGED <<call, circuits, offer, connected, wire, network>>

\* Faulty: the submission is sent again when the socket breaks.
SubmitSentAgain(t) ==
    /\ pc[t] = "submit"
    /\ wire' = [wire EXCEPT ![t] = "sent"]
    /\ UNCHANGED <<local, connected, network>>

\* The socket breaks under the RPC, before or after the node has read the
\* request.  Only SubstrateRequestException is caught, so the socket's own
\* exception reaches the caller.
SubmitBreaks(t) ==
    /\ pc[t] = "submit"
    /\ Raise(t, "SocketError")
    /\ UNCHANGED <<call, circuits, offer, connected, wire, network>>

\* The positions at which the indexer shows the transaction of t in a block.
ShownAt(t) == {i \in 1 .. indexed : chain[i].task = t}

\* Faulty: any transaction the node knows of counts as successful.
PollTrustsPool(t) ==
    /\ pc[t] = "wait"
    /\ Raise(t, "SUCCESS")
    /\ UNCHANGED <<call, circuits, offer, connected, wire, network>>

\* A poll of _wait_for_receipt finds the transaction with its result.  The
\* Transaction model reads the result under "transaction_result" only: so the
\* testkit's indexer writes it, but the service, asked for transactionResult,
\* does not.  A receipt that cannot be built leaves the call waiting.
PollFinds(t) ==
    /\ pc[t] = "wait"
    /\ ResultKey = "transaction_result"
    /\ \E i \in ShownAt(t) : Raise(t, chain[i].status)
    /\ UNCHANGED <<call, circuits, offer, connected, wire, network>>

\* The 120 seconds are over.  When that may happen is the subject of
\* ReceiptWait; here it may happen at any time.
WaitTimesOut(t) ==
    /\ pc[t] = "wait"
    /\ Raise(t, "TransactionTimeoutError")
    /\ UNCHANGED <<call, circuits, offer, connected, wire, network>>

-----------------------------------------------------------------------------
(* The services and the application *)

\* The application disconnects the client, with calls under way or not.
Disconnect ==
    /\ connected
    /\ connected' = FALSE
    /\ UNCHANGED <<local, wire, network>>

\* The node reads the request, possibly after the caller has given up on it,
\* and takes the transaction if its inputs are unspent.
NodeAccepts(t) ==
    /\ wire[t] = "sent"
    /\ offer[t].inputs \subseteq UtxosAt(Len(chain))
    /\ wire' = [wire EXCEPT ![t] = "accepted"]
    /\ pool' = pool \cup {t}
    /\ UNCHANGED <<local, connected, chain, indexed>>

NodeRejects(t) ==
    /\ wire[t] = "sent"
    /\ wire' = [wire EXCEPT ![t] = "rejected"]
    /\ UNCHANGED <<local, connected, network>>

\* A pooled transaction enters a block; it takes effect only if its inputs
\* are still unspent.
Include(t, status) ==
    /\ t \in pool
    /\ status \in Applied => offer[t].inputs \subseteq UtxosAt(Len(chain))
    /\ chain' = Append(chain, [task |-> t, status |-> status])
    /\ pool' = pool \ {t}
    /\ UNCHANGED <<local, connected, wire, indexed>>

\* The node drops a transaction, because it became invalid or by its policy.
DropFromPool(t) ==
    /\ t \in pool
    /\ pool' = pool \ {t}
    /\ UNCHANGED <<local, connected, wire, chain, indexed>>

\* The indexer catches up by one transaction.
IndexNext ==
    /\ indexed < Len(chain)
    /\ indexed' = indexed + 1
    /\ UNCHANGED <<local, connected, wire, pool, chain>>

\* Every call has ended.
Finished ==
    /\ \A t \in Tasks : pc[t] = "done"
    /\ UNCHANGED vars

-----------------------------------------------------------------------------
\* A call that is under way moves on.
CallStep(t) ==
    \/ FetchFails(t)
    \/ FetchAnswered(t)
    \/ HealthFails(t)
    \/ HealthAnswered(t)
    \/ ProofAnswered(t)
    \/ ProofFails(t)
    \/ SubmitAnswered(t)
    \/ SubmitRejected(t)
    \/ SubmitBreaks(t)
    \/ PollFinds(t)
    \/ WaitTimesOut(t)

Start(t) ==
    \E amount \in Amounts, fee \in Fees, kind \in Kinds :
        \/ Begin(t, kind, amount, fee)
        \/ kind = "shielded" /\ BeginShielded(t, amount, fee)
        \/ BeginBadAddress(t, kind, amount, fee)

ServiceStep ==
    \/ Disconnect
    \/ IndexNext
    \/ \E t \in Tasks :
          \/ NodeAccepts(t)
          \/ NodeRejects(t)
          \/ \E status \in Statuses : Include(t, status)
          \/ DropFromPool(t)

Next ==
    \/ \E t \in Tasks : Start(t) \/ CallStep(t)
    \/ ServiceStep
    \/ Finished

\* Requests to the indexer and the proof server have timeouts, the wait has a
\* deadline; author_submitExtrinsic has none, so the last conjunct assumes
\* that the node answers or the socket breaks.
Fairness == \A t \in Tasks : WF_vars(CallStep(t))

Spec == Init /\ [][Next]_vars /\ Fairness

-----------------------------------------------------------------------------
Entry == [task : Tasks, status : Statuses]

\* Shape of the state; a call holds an offer only once it has been sent.
TypeOK ==
    /\ pc \in [Tasks -> {"idle", "fetch", "health", "prove", "submit", "wait", "done"}]
    /\ DOMAIN call = Tasks
    /\ \A t \in Tasks : pc[t] # "idle" =>
          /\ call[t].kind \in Kinds
          /\ call[t].amount \in Amounts
          /\ call[t].fee \in Fees
    /\ attempts \in [Tasks -> 0 .. 2]
    /\ circuits \in [Tasks -> Seq({"spend", "output"})]
    /\ result \in [Tasks -> {"none"} \cup Statuses \cup Errors]
    /\ since \in [Tasks -> 0 .. indexed]
    /\ connected \in BOOLEAN
    /\ wire \in [Tasks -> {"none", "sent", "accepted", "rejected"}]
    /\ DOMAIN offer = Tasks
    /\ \A t \in Tasks : wire[t] = "none" => offer[t] = NoOffer
    /\ pool \subseteq Tasks
    /\ chain \in Seq(Entry)
    /\ indexed \in 0 .. Len(chain)

\* Exceptions after which the caller may safely try again: the transaction
\* was never handed to the node, or the node said no.
SafeToRetry == Errors \ {"SocketError", "TransactionTimeoutError"}

\* A call that ended with such an exception has no effect, now or later: its
\* transaction is not on the way to the node, in the pool or on the chain
\* (submit_extrinsic lines 178-193; the only exceptions after which the
\* transaction may still take effect are the timeout and the broken socket).
ErrorMeansNoEffect ==
    \A t \in Tasks : result[t] \in SafeToRetry =>
        /\ wire[t] \in {"none", "rejected"}
        /\ t \notin pool
        /\ \A i \in 1 .. Len(chain) : chain[i].task # t

\* A receipt reports what is on the chain, and what the indexer has seen
\* there (lines 566-589).
ReceiptTruthful ==
    \A t \in Tasks : result[t] \in Statuses =>
        \E i \in 1 .. indexed : chain[i] = [task |-> t, status |-> result[t]]

\* Concurrent calls select from the same UTXOs without reserving them (lines
\* 161-208), yet no two of them are told that they spent the same one.
NoSharedSpend ==
    \A t, u \in Tasks :
        (t # u /\ result[t] \in Applied /\ result[u] \in Applied) =>
            offer[t].inputs \cap offer[u].inputs = {}

\* One call submits one transaction: it enters the chain at most once.
AppliedOnce ==
    \A i, j \in 1 .. Len(chain) : chain[i].task = chain[j].task => i = j

\* Whatever the calls and their interleaving, the value on the ledger and
\* the fees of the transactions that took effect add up to the wallet's
\* initial funds.
FundsAccountedFor ==
    Total(UtxosAt(Len(chain)))
        + Total({[id |-> t, value |-> offer[t].fee] : t \in AppliedBy(Len(chain))})
      = Total(Genesis)

\* What is sent is signed with the key that owns every input (lines 532-543).
SignedByOwner ==
    \A t \in Tasks : wire[t] # "none" =>
        \A u \in offer[t].inputs : u.owner = offer[t].signer

\* Every call that has begun ends, with a receipt or with an exception.
EveryCallEnds == \A t \in Tasks : pc[t] # "idle" ~> pc[t] = "done"

\* "TransactionError: raised during transaction construction or submission
\* failures": no call ends with an exception of the interpreter instead.
ConstructionErrorsWrapped ==
    \A t \in Tasks : result[t] \notin {"KeyError", "AttributeError"}

\* What a call has told its caller, in the terms of TransferContract.
Promise(t) ==
    CASE pc[t] = "idle" -> "idle"
      [] pc[t] \notin {"idle", "done"} -> "running"
      [] pc[t] = "done" /\ result[t] \in Applied -> "confirmed"
      [] pc[t] = "done" /\ result[t] \in SafeToRetry \cup {"FAILURE"} -> "no effect"
      [] OTHER -> "unknown"

Contract == INSTANCE TransferContract
            WITH promise <- [t \in Tasks |-> Promise(t)], applied <- AppliedBy(Len(chain))

\* The calls keep the promise of TransferContract: an answer of "no effect"
\* or of success is final, and every call is answered.
KeepsContract == Contract!Spec
=============================================================================
