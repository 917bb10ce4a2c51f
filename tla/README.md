# Noxipher in TLA+

Noxipher (`src/`) is an asynchronous Python client for a Midnight-style chain: it
builds unshielded and shielded transfers and contract transactions, has them
proved by a proof server, submits them to a node over a websocket and waits for
their receipts at an indexer. This directory holds TLA+ specifications of its
stateful core, TLC configurations that model-check them on small instances and
theorems that TLAPS proves for every instance.

`PROJECT.json` is the machine-readable index: which definition models which
lines, which run checks which property, which faulty variant of a definition
(`Faulty:` in the modules) each property detects, the disagreements found and
the hazards the properties are aimed at.

## 1. Inventory

All paths are under `src/src/noxipher/`.

| Component | State | Operations | Interacts with |
|---|---|---|---|
| UTXO selection (`tx/builder.py` 136-279) | locals of one coroutine | filter by token, exact match, largest first, dust protection, offer | indexer's answer in, envelope out |
| Transaction builder (`tx/builder.py`) | locals of each call in flight | `transfer`, `call_contract`, `deploy_contract`, `_prove`, `_serialize_transaction` | indexer, proof server, node, wallet |
| Wait for the receipt (`tx/builder.py` 562-598) | clock, retry count | poll, delay, deadline | indexer `get_transactions` |
| Shielded state (`zswap/`) | unspent coins, nullifiers, sparse Merkle tree | `add_coin`, `mark_spent`, `root`, `proof`, `insert` | shielded transfers select from it |
| Proof server client (`proof/`) | HTTP session | `health`, `prove` (two attempts), `prove_transaction` | builder |
| Node client (`node/client.py`) | `_substrate` connection | `connect`, `disconnect`, `submit_extrinsic`, RPC reads, each in a thread | builder, connector, client |
| Indexer client (`indexer/`) | HTTP session | `get_utxos`, `get_transactions`, `get_block` (three attempts each), sessions, subscriptions | builder, wallets, connector |
| Client lifecycle (`core/client.py`) | the three connections | `connect`, `disconnect`, `check_health` | node, indexer, proof server |
| DApp connector (`dapp/connector.py`) | edits the caller's transaction dict in place | `balance_transaction`, `submit_transaction` | wallet, indexer, node |
| Wallet synchronisation (`wallet/sync.py`, `wallet/shielded.py`) | indexer session | `sync_unshielded`, `sync_shielded`, `sync_all` | indexer |
| Contract service (`contract/`) | deployed address | `deploy`, `call` | builder, indexer |
| SCALE encoding (`tx/scale.py`) | none | compact integers, serializers | builder, connector |
| Bech32m addresses (`address/`) | none | encode, decode, validate | builder, wallets |
| Signing (`tx/builder.py` 430-560) | the caller's dict: randomness, commitments, signatures | `_serialize_transaction` | builder, connector |
| Keystore (`wallet/keystore.py`) | one file | `encrypt`, `save`, `load`, `decrypt` | the file system |
| Cryptography (`crypto/`) | keys of a wallet | derivation of keys, binding commitments, Poseidon | wallets, signing, shielded state |
| Wallets (`wallet/`) | three sub-wallets | addresses, `get_utxos`, `get_balance` | builder, synchronisation |
| Tokens, configuration, data classes | constants | conversions | everywhere |

What is hard about this code, and where:

* **One event loop, many calls.** A call runs alone between two awaits and any
  other call may run during one. UTXOs are selected from an answer and never
  reserved, so concurrent calls choose the same ones; the connector keeps totals
  of a shared dict across an await.
* **A view that lags.** The indexer is behind the chain and its answer is older
  still when it arrives: inputs may be spent already.
* **Answers that are lost.** The socket may break under `author_submitExtrinsic`
  before or after the node has read the request; the wait may time out while the
  transaction is pooled. Only what the caller is told separates "nothing has
  happened" from "not known".
* **Retries and deadlines nested in each other.** Each poll of the wait is up to
  three requests with their own waits; its deadline is looked at between polls.
* **A dict that changes shape.** Build, prove and serialise pass on one dict whose
  fields are dropped or retyped on the way.
* **Boundaries.** Zero requirements and values, change at the dust threshold,
  empty subtrees and the last position of the Merkle tree.
* **Failing halfway.** `add_coin` lists a coin before the tree refuses it,
  `balance_transaction` raises with the inputs already in the caller's dict,
  `connect` and `disconnect` go through three services in turn, the keystore's file
  is truncated before it is written.
* **Cancellation.** It reaches a task at its await, never the thread the task waits
  for: the thread connects or closes when nobody holds the connection.
* **Edited in place and submitted again.** A dict keeps the binding and the signatures of
  its last submission while a caller balances or edits it.
* **Arithmetic nobody sees fail.** Scalars reduced modulo one order on points of another,
  a last chunk of a message that is not full, path elements whose highest bit is set.
* **Encodings.** Compact integers change their form at 64, 16384 and 2^30; groups of
  five bits leave a remainder of eight; bytes have to have one reading.

What makes each component correct:

* *Selection*: the offer balances, with the fee that is reported and committed to;
  the error is raised only when the funds are short; inputs are distinct and of
  the right token; the fewest inputs; bounded cost of the dust protection.
* *Builder*: an exception means no effect unless it is one of the two that leave it
  open; a receipt says what the chain says; no two successful calls share an
  input; one call takes effect once; funds add up; the owner's key signs; every call
  ends.
* *Wallets*: one key, and one address, for one path of one mnemonic.
* *Cryptography*: commitments add up and are told apart; the sponge tells messages apart.
* *Wait*: the overshoot of the deadline is bounded; the last request is sent near the
  deadline, whatever failed before; polls are spaced.
* *Shielded state*: the sparse root is the complete tree's root, every position
  has a valid proof, leaves follow the coins received, spent coins leave the list.
* *Connector*: no outpoint twice, never underfunded once balanced, exact balance
  for calls that do not overlap and after any rebalancing.
* *Signing*: what is sent is signed as it is sent, by the owner; a dict submitted again is
  the same transaction, in all that balancing may not change.
* *Lifecycle*: whatever fails, a connection left open is still held by the client, but for
  three named causes; a block runs on its own three connections.
* *Synchronisation*: a session is left open only by its own close; no unspent coin is
  missing; errors are not lost.
* *Encodings*: a decoder reads back what was encoded; one text per address; a mistyped
  address is nobody's.
* *Keystore*: what opens is genuine and not older than the last save; an undisturbed save
  mends whatever file there was.

## 2. Modules

    ValueSums      totals of lists of UTXOs, as a recursive function
    UtxoOps        totals and selections over sets of UTXOs
    OperatorProofs facts about totals of lists and sets, and selections
      CoinSelection            the selection loop by loop
        MCCoinSelection        every answer of up to three UTXOs
        CoinSelectionProofs
      TransactionBuilder       concurrent calls with node, chain, indexer, prover
        TransferContract       what the calls promise (abstract specification)
        ContractService        the instances that deploy returns
          MCTransactionBuilder
          TransactionBuilderProofs
      DAppConnector            concurrent balancing of one dict
        MCDAppConnector
        DAppConnectorProofs
    ReceiptWait    the clock of the wait
    TransactionSigning         binding and signatures of a dict, submitted repeatedly
      MCTransactionSigning
      TransactionSigningProofs
    ClientLifecycle            connect and disconnect under failure and cancellation
      MCClientLifecycle
    ClientProofs   theorems about ReceiptWait and ClientLifecycle
    WalletSync     sync_all and sync_shielded with the indexer's session
    ZswapState     the shielded state and its Merkle tree
    JubJub         binding commitments and the curve under them
    Poseidon       the sponge and its permutation
    KeyDerivation  from a mnemonic to keys, sub-wallets and addresses
    MCCryptography the last four side by side, one acting in each behaviour
    ScaleInt       compact integers, and their decoder
      ScaleEncoding            every serializer (with ScaleDecoder, the reference)
    Bech32m        addresses and what happens to their texts
    MCEncodings    Bech32m and ScaleEncoding side by side
    EncodingProofs theorems about ScaleEncoding and Bech32m
    Keystore       the keystore file, saved and loaded by several processes
    WalletProofs   theorems about WalletSync, Keystore, KeyDerivation, ZswapState, Poseidon

### CoinSelection

One action per loop iteration of `_build_unshielded_transfer`: `FilterStep`,
`FilterDone`, `ExactStep`, `SortEligible`, `GreedyStep`, `GreedyExhausted`, the
error, and `BuildOffer` with the dust protection that rewrites `real_fee`. The
indexer's answer is an initial value. A UTXO has an outpoint, a value and a token
as the indexer may write it (`TokenForms`); `TokenOf` is the normalisation of
lines 172-177. `sort` is any descending permutation, so the result does not
depend on the order of equal values. The commitment is the fee inside it
(`bound_fee`).

`UtxoOps!Selections` is the same selection as a relation on sets, which the other
modules use; `LoopsMatchSelections` checks that the loops compute it.

`UnshieldedWallet.get_balance` reads the same answer in its own way: `BalanceText` is the
key it counts a UTXO under, `Balance` what it adds up. No run compares the two, for they
disagree: the only query asks for `tokenType`, which `get_balance` does not read, so in
its answers everything counts as NIGHT. `CoinSelectionDocs.cfg` shows it.

### TransactionBuilder

Each action of a call is the code between two awaits:

| `pc` | awaits | leaves by |
|---|---|---|
| `fetch` | `get_utxos`, three attempts | `FetchAnswered` (selects, then serialises and submits, or asks the prover), `FetchFails` |
| `health` | `GET /health` | `HealthAnswered`, `HealthFails` |
| `prove` | one proof, two attempts | `ProofAnswered`, `ProofFails` |
| `submit` | `author_submitExtrinsic` | `SubmitAnswered`, `SubmitRejected`, `SubmitBreaks` |
| `wait` | the next poll | `PollFinds`, `WaitTimesOut` |

The services are actions of their own: the node reads a request at any time after
it was sent, also after the caller is gone, and accepts or rejects it; a pooled
transaction enters a block with a status or is dropped; the indexer follows the
chain one entry at a time; the application may disconnect the client at any time
(`connected`). An answer of `get_utxos` is the UTXO set at some indexer position
between the request (`since`) and the answer. The chain takes a transaction only
if its inputs are unspent: this is the ledger's rule and external to the code.

Details carried over because they decide the outcome: shielded transfers and
contract calls drop the unshielded offer made for the fee when the proven
transaction replaces the dict (`FieldsToSerialize`); a proven transaction has no
`contract_address` and a list for `proof_hexes` (`SerializeError`); a `spend`
circuit cannot be JSON-encoded (`ProofAnswered` never answers one). The indexer
writes the result of a transaction under `ResultKey`. The run of this module gives
it the name the model class reads, as the test kit's indexer does: `ReceiptTruthful`,
`NoSharedSpend` and the receipts of the others speak of the code with that indexer. With
the name the query asks for no receipt is ever found, every wait times out, and what they
say of receipts holds of none; `ReceiptDocs.cfg` shows that.

### TransferContract

A call is idle, running, or has told its caller one of "no effect", "confirmed",
"unknown"; its transaction may take effect only while it runs or when the answer
was "unknown". `TransactionBuilder!Promise` maps results to these answers, and
`KeepsContract` says that the builder implements the contract with its liveness.

### ContractService

`deploy` is a call of `deploy_contract` and what is made of its receipt: `Returns` are the
results with which it comes back instead of raising, `Instances` the deployments that have.
The address is to come from a `ContractDeployed` event; the receipt's query asks for no
events, so `Address` is always the one made of the transaction's hash, also for a receipt
that says FAILURE. The docstring's "deployed address" is checked, and violated, in
`BuilderDocs.cfg`; what else there is to say of an instance is `ReceiptTruthful`'s. Calls
through an instance are `call_contract`, which ends in the `KeyError` of `BuilderDocs.cfg`.

### ReceiptWait

Time in seconds, advanced by requests (a latency out of a set), by tenacity's
waits and by the delays. `shown` is the moment the indexer begins to show the
result; an answer reflects the indexer at some moment of the request, so it may
go either way when `shown` falls inside. The indexer writes the result under one of
`ResultKeys`, and the run has both: the key `transaction_result`, which the model class
reads, and `transactionResult`, which the query asks for and nothing reads. Building a
receipt from an answer that shows the result may raise as well (a null fee, an event
without data); `except Exception: pass` takes that for a failed poll, so a result can be
seen and still time out. What remains true of either key and every exception is
when the wait asks, which is what the properties are about. `WaitTimesOut` in TransactionBuilder
abstracts this clock: there the deadline may pass at any time.

### ZswapState

The Poseidon hash is the pairing constructor `NodeHash`, so two roots are equal only
for equal trees. `Levels`, `Root` and `Proof` are the level-by-level loops over
the dictionary of stored nodes; `CompleteTree` and `PathRoot` are independent
references. A nullifier depends on the coin's position (`zswap/notes.py`), and
`ComputeNullifierSafe` is what `mark_spent` obtains without the secret: nothing.

### DAppConnector

`balance_transaction` is cut at its only await. `Balance` reads the totals
(`inputs_val`, `required`), `Answered` reads the used outpoints, appends inputs
and change, or raises and leaves the inputs in the dict. Any number of calls edit
the same dict. `submit_transaction` raises a `KeyError` on a dict without the
`standard` wrapper and leaves the offer as it is.

### TransactionSigning

One dict, submitted up to `MaxAttempts` times, with `balance_transaction` (as one step:
its interleavings are DAppConnector's) between the submissions. `Submit` is a call of
`_serialize_transaction`, which has no await: `Bound` makes randomness and the
commitment if there is none, `SignAll` signs intent after intent in the dict's order
up to the first one that raises, and the transaction is sent only if nothing raised.
A signature is the record of its key and its payload, so that what was signed can be
compared with what is sent; a commitment is the record of randomness and value. The payload
is the intent with the signatures it holds while it is signed: that of an earlier attempt,
which is then overwritten, and that of the guaranteed offer when the fallible one is
signed. `Recomputed` is what can be made again from the transaction: the intent as it is
sent, without the signature itself and those made after it. For a dict that came to the
attempt unsigned the payload is exactly that (`SignaturesCoverSent`); from the second
attempt on it is not, and `SigningDocs.cfg` shows it.
`Signer` is the loop's local variable: the wallet of the last guaranteed offer up to
this intent.

### ClientLifecycle

`connect()` and `disconnect()` of `NoxipherClient`, from await to await, through the
node's (a thread), the indexer's and the proof server's. Each await may return, raise
or be cancelled. A connection is named by its service and the session that opened
it; `open` is what holds a resource, the three handles are what the client can still
close, `closing` is the handle a pending close was called on (it was read before the
await). `cut` is a session that failed: its caller may call `disconnect()` again, or
another session may begin with `connect()`, which replaces the handles of what the first
one opened. The history variables only name causes in the properties: `lost` has the
connections of a `connect()` cancelled inside `SubstrateInterface` and of a node close that
raised, `overwritten` those still open when a handle was replaced, and `overlapped` is set
when a call begins while another one is under way or a session is in its block.

### WalletSync

Calls of `sync_all` and `sync_shielded` from await to await: balance query with its
three attempts, session opened, stream, session closed in the `finally`. Each await
may fail or be cancelled, with the indexer having done its part or not. A session that
the indexer opened and whose id never came back is `lost`: no code could close it. The
history of the wallet's shielded transactions grows meanwhile. `pending` is how the `try`
ended: an exception of the `finally` takes its place.

### JubJub, Poseidon, KeyDerivation

The arithmetic is the code's, the field is a small one. *JubJub*: points are added and
multiplied as `curves.py` does, over the field of 53 elements, where -1 is a square and `D`
is not, as for the real curve; that is what makes the addition law complete. The
generator of the code has order 8 times `JUBJUB_ORDER`, so the small one has order 56
with `Order` 7: scalars are reduced modulo an order the generator does not have, and
`CommitmentsAdd` says for which openings commitments nevertheless add up. For negative
values the reduction shows (`CryptographyDocs.cfg`). The second generator is the
placeholder `G + G`, as in the code.

*Poseidon*: the 68 rounds with their two kinds, the matrix and all round constants of the
code, reduced modulo 7, where x^5 is a bijection as it is in the scalar field. A sponge over so small a
field has collisions, and no property speaks of messages that collide by chance:
`SpongeSeparates` compares messages that differ in one block, for which the permutation's
being one decides. The rounds are a recursive function over their number, so that the
property can be proved through all 68 of them. `hash([])` is 0, by no permutation at all.

*KeyDerivation*: a MAC is the record of its key and data, so the property is about the
path: which arguments reach the hashes, in which order and of which width. The path
elements have `WordBits` bits, 3 in the run, so `index | HARDENED` and the numbers that
`struct.pack` refuses are among the arguments. An account of 2^31 + n is the account n by
the code's definition, and `SameAccount` says so. With and without the sr25519 bindings
a mnemonic has different keys; `environment` is fixed in a behaviour.
`MidnightWallet` never passes its `account` on (`CryptographyDocs.cfg`).

### ScaleInt and ScaleEncoding

Lengths, counts and integers are encoded byte by byte as the code does; a fixed-size
field (a hash, a u32, a u128) is one element, a tag is one element. In `ScaleDecoder` a type is its reader, a function from a sequence
to the value at its front and what is left; readers are built of readers (`Struct`, `Vec`,
`Tuple`, `Option`, `Enum`) and know nothing of the encoder. The types of the transaction are stated
once (`StandardType`), and a property says that reading gives the tree of the value and
leaves no byte over. Proofs and memos are concatenated without lengths, so they are
readable only if all have one size (`ProofSize`).

The dicts are described by their shapes (`Intent`, `ZswapOffer`, `StandardTransaction`, ...).
Lists and texts have a length the encoding can count (`Encodable`: 67 digits of base 256,
past which `encode_scale_int` raises, and past any memory); a dict is the list of its
entries, no segment twice. `BySegment` is what `sorted(..., key=int)` returns, defined by what it is and
not by how it is found. Arguments are nested at most `MaxNesting` deep, for any `MaxNesting`:
`ArgsBytes` is `serialize_contract_args` as a function of the depth it may still descend,
as Python's own limit on recursion is one.

### Bech32m

A text is a sequence of character codes; the checksum, the groups of bits and the
decoder's checks are the code's. The environment writes an encoded address in
capitals, mistypes characters, loses or doubles a `q` before a final `p` (the weakness
of BIP-173 that Bech32m's constant removes), or pads the last group otherwise.

The 30 bits of `chk` are six words of five bits, the highest first (`Words`): the code's
shift by 5 is `Append(Tail(chk), v)`, its `^` the sum of the bits of each word (`Xor`), and
what its inner loop XORs into `chk` a sum of generators (`GeneratorSum`). So 30 bits never
make one integer, and the constants keep the hexadecimal values of the source. A step of
each loop is a function of what it has and what it reads (`Feed`, `Accumulate`), the loop
a recursive function over the positions.

### Keystore

A text of `json.dumps` is a list of units: its opening, the ciphertext's units (as many as
the secret is long), the nonce, the salt and the closing. `save` is cut where it matters:
the file is truncated by `open`, and written later, from its beginning. Processes may
overlap, so a text may go over another one that is longer, and a save may die or fail with
any prefix of its text written, up to the end of a unit or within one (`Torn`). What the
file then has is spliced of several texts. `Parses` says when such a splice is a dict of
the right fields; one that does reaches `decrypt`, where AES-GCM's tag is right only for
key, nonce and ciphertext of one encryption (`Authentic`). What does not parse is
`Defective`, whichever of `loads`, the subscripts, `fromhex` or AES-GCM raises.

## 3. Runs

| Run | Checks | Bounds |
|---|---|---|
| `CoinSelection.cfg` | `ValueConserved`, `InsufficientOnlyWhenShort`, `InputsDistinctAndEligible`, `DustProtection`, `FewestInputs`, `LoopsMatchSelections` | all answers of up to 3 UTXOs; values 0, 1, 2, 5; every written form of a token; threshold 3; amounts 0, 1, 4; fees 0, 2 or the default 1 |
| `Builder.cfg` | `ErrorMeansNoEffect`, `ReceiptTruthful`, `NoSharedSpend`, `AppliedOnce`, `FundsAccountedFor`, `EveryCallEnds`, `KeepsContract` | 2 calls of any of the 4 entry points; 2 NIGHT, 1 DUST UTXO, no shielded coin, so that a shielded transfer of 0 has one provable circuit; no symmetry, for the liveness |
| `ReceiptWait.cfg` | `OvershootBounded`, `AskedNearDeadline`, `PollsSpaced` | the real timeout of 120 s; latencies 0, 1, 10 s; 5 moments of showing; both keys of the result |
| `Cryptography.cfg` | of the tree `RootIsComplete`, `ProofsVerify`; of commitments `CommitmentsAdd`; of the hash `SpongeSeparates`; of keys `KeysSeparate` | depth 3, 3 coins at positions 0, 1, 5, 7 and 8 (out of bounds); a curve of 56 points, randomness 0 to 9, values -3 to 8 around the order 7; every message of one block, messages of up to 4 elements of three values; 2 mnemonics and one without a checksum, path elements 0 to 8 of 3 bits |
| `Connector.cfg` | `NoDuplicateInputs`, `NeverUnderfunded`, `RebalanceIsExact` | 3 calls on one dict, 4 UTXOs, 5 initial offers, wrapped or raw |
| `Signing.cfg` | `SignaturesCoverSent`, `GuaranteedSignedByOwner`, `ResentAlike` | dicts of up to two intents, each with or without the two offers; 3 submissions |
| `Lifecycle.cfg` | `NothingElseDropped`, `ClosedWhenDone`, `BodyConnected` | 2 sessions (symmetric), each cut and disconnected any number of times, one after the other or at once |
| `WalletSync.cfg` | `SessionsClosed`, `CoinsComplete`, `EndsAfterStream` | 2 calls, 2 coins, 2 transactions |
| `Encodings.cfg` | of the bytes `ReadBack` (integers, arguments, transactions, signing payloads); of the addresses `RoundTrip`, `ErrorsDetected`, `Canonical` | integers around every boundary up to 2^31 - 2; arguments nested three deep; lengths around 64; payloads of 0 to 5 bytes; 2 mistyped characters out of 3; 3 slips |
| `Keystore.cfg` | `LoadedIsGenuine`, `SaveReplaces` | 2 processes, secrets of 1 and 2 units, 2 passwords, 3 saves, cut after any unit or within it |

`TypeOK` is proved for CoinSelection, TransactionBuilder, ReceiptWait and ClientLifecycle,
and so is `SignedByOwner` of TransactionBuilder; no run repeats them. The other modules state
their types, which hold on the instances above.

Why the bounds are enough to be telling: three UTXOs give an exact match before,
after and instead of a greedy selection, ties, zero values and both sides of the
threshold. Two calls compete for the same UTXOs: both find the exact match of 3, and
the one that comes too late has to live with it; every property of the builder
relates at most two calls, and the theorems cover any number of them. The wait
uses the real constants; latencies of 0 and of the limit are its extremes, and the
moments of showing include the critical 120 - 10 - 10 s. Three saves of two processes are
one text over a longer one, cut or not, and a third that has to mend the file. At depth 3 there are empty subtrees
at every level, left and right siblings, and the last position. Three calls of
the connector let one fail, one overlap and one rebalance; a `Connector` call
happens once, so a second attempt is another call. Two intents are what a signer kept from
one to the next needs, three submissions one before and one after an edit. Two sessions
follow each other, or overlap, on one client. Payloads of 0 to 5 bytes leave every
possible remainder of bits, and two mistyped characters of the prefix are four symbols of
the checksum, the most it is designed for. Integers above TLC's 2^31 - 1 are left to
`CompactRoundTrip`, which is proved for all that have at most 67 digits.
The curve is small enough to add every commitment to every other and still has values and
randomness below, at and past the order and points of every order; the field of 7 has all
blocks in its messages, full and partial; three bits of a path element leave numbers on both
sides of the hardening bit, at it, and past the width.

`CHECK_DEADLOCK FALSE` stands in the configurations of the modules added last (signing,
lifecycle, synchronisation, cryptography, encodings, keystore): their programs really stop, when every
call has ended or the bounded number of submissions, saves, coins or transactions is used up. The
other modules stutter explicitly where the program has ended.

Two more runs expect a violation. Each states what a comment or a document of the
repository says and shows that the code does otherwise:

| Run | Says | Does |
|---|---|---|
| `LifecycleCut.cfg` | "Context manager ensures connections are properly closed" (`docs/getting_started.md` 38) | a later failure inside `connect()` leaves the node's connection open: `__aexit__` is not called |
| `SigningUnsigned.cfg` | "Serialize transaction to raw bytes with signing." (`tx/builder.py` 431) | a dApp's balanced transaction has no flag and is sent unsigned |

The remaining configurations hold claims of the same kind, on smaller points or visible
without interleaving, kept to be run by hand. TLC stops at the first claim it finds
violated: take the others out of the file to see the counterexample of one of them. The
modules are the `MC` modules of the same subject, or `ReceiptWait`, `WalletSync`, `ZswapState`
and `Keystore` themselves; `Bech32mRecipient.cfg` is for `MCEncodings`, `BuilderDocs.cfg` for
`MCTransactionBuilder`, `SigningDocs.cfg` for `MCTransactionSigning`:

| Configuration | Property | Says | Does |
|---|---|---|---|
| `CoinSelectionDocs.cfg` | `NoOutputBelowThreshold` | `DUST_THRESHOLD` is the "Minimum UTXO value" (`tx/builder.py` 32) | only change is held to it; a recipient may be paid less |
| | `BalanceIsSpendable` | "Returns {token_type_hex: amount_specks}" (`wallet/unshielded.py` 60) | the key `tokenType` of the indexer's answers is not read: every UTXO counts as NIGHT |
| `BuilderDocs.cfg` | `ConstructionErrorsWrapped` | construction failures raise `TransactionError` (`core/exceptions.py` 60) | `call_contract` always ends in `KeyError`, its address lost in proving; a provable shielded transfer ends in `AttributeError` on the list of proofs |
| | `InstancesHaveContracts` | "ContractInstance with deployed address" (`contract/service.py` 40) | the receipt query asks for no events, so every instance has an address made of the transaction's hash, also when the receipt says FAILURE |
| `ReceiptDocs.cfg` | `FinalizedIsFound` | "Poll Indexer until tx is finalized" (`tx/builder.py` 563) | `transactionResult` is never read into `transaction_result`: every wait times out |
| | `ExponentialBackoff` | "Exponential backoff: 2s, 4s, 8s, 16s... up to 10s" (`tx/builder.py` 594) | linear: 2, 4, 6, 8, 10 |
| `ZswapSpent.cfg` | `MarkSpentRemoves` | "Mark a coin as spent by nullifier." (`zswap/state.py` 129) | the nullifier is compared with `None`; the coin stays listed |
| `SigningDocs.cfg` | `FallibleSignedInIntent` | "offers in the same intent share the owner" (`tx/builder.py` 550) | `signer` is kept from an earlier intent |
| | `CommitmentBindsBalance` | "Ensures cryptographic binding between public value balance and ZK proofs" (`crypto/jubjub.py` 184) | a dApp's transaction is bound to the value 0 |
| | `SignaturesRecomputable` | "Construction: ... \|\| intent_bytes" (`tx/scale.py` 280) | from the second submission on, the signed intent has the signatures of the one before, which are not sent |
| | `IntentPrefixed` | "The data should already include the 'midnight:hash-intent:' prefix" (`wallet/unshielded.py` 78) | the payload has `midnight:unshielded-sig[v1]` |
| `WalletSyncDocs.cfg` | `StateSynced` | "Sync wallet balances and state from Indexer." (`wallet/sync.py` 20) | the coins never reach `wallet.shielded_state` |
| | `CollectsUnspent` | "collect unspent coins" (`wallet/shielded.py` 84) | coins spent later in the stream are returned |
| `CryptographyDocs.cfg` | `AccountsSeparate` | "m/44'/2400'/account'/role/index" (`crypto/keys.py` 86), and `MidnightWallet` takes an account (`wallet/wallet.py` 31) | `from_mnemonic` takes none: all accounts are account 0 |
| | `NegationCancels` | "use the fact that order is JUBJUB_ORDER" (`crypto/jubjub.py` 205) | the generator's order is 8 times that: a negative value does not cancel its positive |
| `Bech32mRecipient.cfg` | `RecipientHas32Bytes` | "Decode recipient address to get 32-byte public key/address" (`tx/builder.py` 154) | a shielded address gives 64 bytes; type and network are dropped |
| `KeystoreCut.cfg` | `StoredSafely` | "Stores encrypted mnemonic/private keys safely on disk." (`wallet/keystore.py` 26) | a save cut after the truncation leaves no keystore at all |

One more thing the connector's module shows without contradicting any document:
overlapping `balance_transaction` calls on one dict each cover the whole
requirement again, and what is paid too much goes to the fee unless the dict is
balanced once more (`RebalanceIsExact`).

## 4. Fairness

`TransactionBuilder` states weak fairness of each call's own steps
(`CallStep`). The event loop resumes a coroutine whose await has completed; the
HTTP requests to the indexer and the proof server have timeouts, so they complete;
the wait has its deadline. `author_submitExtrinsic` runs in a thread without a
timeout, so termination holds under the assumption that the node answers or the
socket breaks. Nothing is assumed about the node, the chain and the indexer: a
transaction may stay pooled and the indexer may stand still for ever.
`EveryCallEnds` and the liveness of `TransferContract` need no more than that.

`WalletSync` states weak fairness of a call's steps outside the stream, for the same
reason, and of the receipt of an event that is there. Nothing makes the subscription
end, since nothing in the code does: `EndsAfterStream` begins where it has ended.

## 5. Proofs

Proved by TLAPS, for every value of the constants that meets the named assumptions
of the modules:

* **Totals and selections** (`OperatorProofs`). The total of a list is a recursive function,
  the total of a set a fold in an order that CHOOSE makes. That such functions exist, and
  that the total of a set depends on no order (`TotalsAgree`), is proved by induction from a
  least counterexample (`LeastNatural`, `InductionUpTo`), because the library's induction
  theorems take operators as parameters. `TotalDominated` compares two sets by sizes and
  values; from it `SelectionsAreSmallest`: no set of eligible UTXOs that covers the
  requirement has fewer elements than a selection.
* **Selection** (`CoinSelectionProofs`, from `ParameterAssumption` and
  `ResponseAssumption`: amounts and fees are naturals, outpoints of one answer are
  distinct). `TypeCorrect`; `SelectionInvariant` for the inductive `SelInv`, which
  adds to the types what each loop has established so far: the eligible list is the
  part of the scanned prefix with the right token (`FilterInv`), the running
  total is the total of the selected list and that list is a prefix of the sorted
  one (`SelectInv`), fee and requirement agree until the dust protection
  (`FeeInv`). From it: `OfferBalances`, `InsufficientIsReal`, `InputsSound`,
  `DustBounded`.
  `LoopsComputeSelections` needs to know in addition by which way the loops ended: by
  `PathInv` either a UTXO matched exactly, or none does and, in a descending list, the
  total was too small before the last UTXO was taken. With `SelectionsAreSmallest`, it gives `InputsAreFewest`.
* **Builder** (`TransactionBuilderProofs`, from `BuilderAssumption`). `TypeCorrect`;
  `BuilderInvariant` for `BuilderInv`: types, `CallInv` (for each call, what its
  `pc`, `wire`, pool and chain entries may be together, which is what makes an
  exception conclusive), `ChainInv` (entries belong to calls that were accepted,
  at most one per call, and applied entries have disjoint inputs). None of the
  safety properties is inductive without the link between `wire`, `pool` and
  `chain`. From it, for any number of calls: `RetryIsSafe`, `ReceiptsAreTrue`,
  `NoDoubleSpendReported`, `SubmittedOnce`, `SignerOwnsInputs`.
* **Money** (`FundsConserved`, in the same module; the genesis is finite, and no outpoint in
  it is that of a call's output). On top of `BuilderInv`, `MoneyInv` says that every offer
  balances and that what was consumed had been produced. A transaction that takes effect
  removes inputs that are in the ledger and that no other one spends, and adds outputs that
  are new: `IncludeConserves` follows the totals through that step, with the totals of
  disjoint sets of OperatorProofs.
* **Refinement** (`ImplementsContract`, in the same module). The initial states of the
  builder are initial states of TransferContract, and every step of it is a step of the
  contract or a stutter, under the mapping `Promise`. `StartRefines` and `CallStepRefines`
  take the calls' actions, `IncludeRefines` the one step of the services the contract sees;
  that an answer "no effect" or "confirmed" is justified when it is given (`AnswersJustified`)
  is what needs `BuilderInv`. The contract's liveness stays with `KeepsContract` in TLC.
* **Wait** (`ClientProofs`, from `WaitAssumption`). `WaitTypes`,
  `OvershootIsBounded` by `ClockInv` (how far past the deadline each `phase` can be),
  `PollsAreSpaced` by `SpacingInv`, `LastPollIsLate` by `AskedInv` (how long ago, in
  each `phase`, the last request was sent).
* **Lifecycle** (`ClientProofs`, from `LifecycleAssumption`). The inductive
  invariant `IInv` is the types and, while no two calls were under way at once, `Alone`: at most one
  session is under way, whatever was cut before it, and for each place it can be at, which connections are open, held,
  pending to be closed, overwritten or lost. The properties say nothing of the place between
  two awaits and are not inductive without it. From it: `LifecycleTypes`,
  `NothingElseIsDropped`, `DisconnectCloses`, `BodyIsConnected`, for any number of
  sessions.
* **Synchronisation** (`WalletProofs`, from `SyncAssumption`: finitely many coins, so
  that they can be listed). `SyncInvariant` for `SyncInv`: for each place of a call, what
  session and pending error go with it (`ProgressOK`: an open session is that of a close that
  went wrong, or still has its close to come), the coins collected are those of the
  events read, each once (`CollectedOK`), and the history finds no coin twice (`HistoryInv`),
  without which no list of found coins has each once. From it, for any number of concurrent
  calls: `NoSessionLeaks`, `CoinsAreComplete`.
* **Connector** (`DAppConnectorProofs`, from `ConnectorAssumption`: the wallet's UTXOs and the
  inputs of a dict are finitely many). `InputsAreDistinct`: the offer spends no outpoint
  twice however many calls of `balance_transaction` overlap on one dict, because the outpoints
  in use are read after the await. `FundsInv` compares the inputs' total with what outputs and fee need, and says
  what each call that is under way has yet to find. From it: `ReturnedIsFunded`, with overpayment
  only where calls overlapped; `RebalanceRecovers`, that a call which asks for no UTXOs ends
  with the exact change; and `ConnectorTypes`. They rest on the totals of sets.
* **Signing** (`TransactionSigningProofs`, from `SigningAssumption`: the intents of a dict are
  a list, and have the fields the code reads). `SigningInv`: the dict keeps its shape, every
  intent that was sent of a dict that asks for signatures is `WellSigned`, and `Recomputable` if
  the dict came unsigned, and the dict continues what was sent of it (`Continues`), without
  which nothing would follow for the next submission. `SignIntentEffect`
  and `SignAllEffect` say what signing leaves of an intent and of the list. From it, for any number of
  segments and attempts: `SigningTypes`, `SignedAsSent`, `OwnerSigns`, `ResentIsAlike`.
* **Keystore** (`StoreInvariant`, in `WalletProofs`, from `KeystoreAssumption`: a secret has at
  least one unit). `StoreInv`: the file's second unit, where it is one of a ciphertext, is that
  of the save that wrote there last, which is the last one that returned or one cut since; a
  save that has met no other finds the file empty, and leaves its text alone in it.
  `ReadsWriter` says that what decrypts is the whole ciphertext of the entry that second
  unit belongs to, whatever the rest was spliced of, and gives `KeystoreIsGenuine`;
  `TextIsRead`, that a whole text is read back, gives `SaveMends`. For any number
  of processes, saves and cuts.
* **Keys** (`KeysAreSeparate`, in `WalletProofs`). A key is a nest of MACs, and `PathOfKey`
  takes it apart, level by level, by lemmas for the two kinds of children (`HardenedInjective`,
  `NormalInjective`): equal keys have equal mnemonics, accounts, roles and indices. With
  `KeyOfAddress`, an address is of one mnemonic. For all mnemonics, indices and widths.
* **Tree** (`RootMatches`, `ProofsLeadToRoot`, in `WalletProofs`, from `ZswapAssumption`), at
  every depth, so at the 32 of the code. `TreeInv` says that the leaves are the coins received
  last for their positions; the rest is about the tree. `LevelsAgree` goes up the levels: the
  stored nodes, and the hashes of empty subtrees where nothing is stored, are the nodes of the
  complete tree. `PathsLeadToRoot` goes up a proof: the hash so far is the node of the complete
  tree above the leaf, whose index `Halves`. Each recursive function first has its equation
  proved (`LevelsEquation`, `PathRootEquation`, ...).
* **Sponge** (`RegistersDiffer`, in `WalletProofs`, from `PoseidonAssumption`: messages are
  sequences of elements), for messages of any length over the field of 7. No step loses
  anything: the S-box (`SboxInjective`, from its seven values), the matrix, which has an
  inverse, with the constants of any round (`LayerInjective`), so full and partial rounds
  (`RoundInjective`) and the permutation (`PermutationInjective`, along `PermutedEquation`).
  `ComparableSeparated` follows two messages chunk by chunk: their registers are equal before
  the chunk that differs and different from it on, or different from the start, where the
  lengths in the capacity lane tell them apart, since chunks never touch that lane.
* **Compact integers** (`EncodingProofs`). `CompactRoundTrip`: the decoder reads back every
  integer and its size, whatever follows, if the first byte can tell its number of digits (up
  to 67). Below 2^30 by one lemma per form (`OneByte`, `TwoBytes`, `FourBytes`) from the
  division of a number into two digits (`SplitNumber`); above, by `DigitsAddUp` over the
  recursive function that makes the digits, whose equation is `DigitsEquation`, and
  `ManyBytes`, where the decoder's sum is compared with it. The last digit is not 0
  (`LastDigit`), so no integer takes more bytes than it needs.
* **Bytes** (`EncodingProofs`, from `ScaleAssumption`: what is serialised has the shapes of
  section 2). `ReadsBack(type, bytes, tree)` says that the type reads the tree off the bytes whatever
  follows them, and leaves exactly what follows. It composes: `PartsReadBack` for one after the
  other, by induction on their number, and from it structures, lists, options, enums and
  tuples; so each serializer has its lemma (`OfferReadsBack`, `IntentReadsBack`, `ZswapReadsBack`,
  `StandardReadsBack`). The ascending arrangement of a dict exists (`AscendingExists`, by
  induction on the dict's size), which `BySegmentSorts` needs, and `MapReadsBack` reads it back. Arguments go by induction
  on the depth of nesting (`LevelReadsBack`, with the equations of the two recursive functions).
  The inductive invariant `ScaleInv` says what `raw` is once it is written; from it
  `EverythingReadsBack`, for all integers, arguments, transactions and intents, and `ScaleTypes`.
  `PayloadIsUnambiguous` is what reading back is for: equal payloads to sign are of
  one segment and one intent, since a tree determines its intent (`IntentTree` is taken
  apart field by field).

* **Addresses** (`EncodingProofs`, from `AddressAssumption`: payloads are octets and what is
  typed is characters), for payloads of any length and whatever happens to a text. Three parts
  carry the two theorems. *The checksum*: `OneChecksum`, six words behind a prefix and its data
  verify if and only if they are `CreateChecksum`'s. The polymod over six last words is the one
  over zeros, XORed with them (`SixFed`), because a difference in the lower words moves up as it is
  (`FeedDiffers`), and six words fit below the top. *The groups*: read as a number to the
  base 256 or 32 (`Value`), the octets and the words of a loop, with what `acc` still holds,
  are the same number after every iteration (`NarrowStep`, `WidenStep`, carried along by
  `Lockstep`); numbers of the same length are equal only if their digits are (`SameValue`).
  From it `GroupsReadBack`, the words of a payload are regrouped to it, and `GroupsCanonical`,
  words whose padding is accepted are those of the payload they give. *The text*: it is split
  at its last separator and joined again (`SplitText`, `JoinText`); symbols and words
  correspond (`SymbolFacts`); no two kinds of address have one prefix (`PrefixesDiffer`). So
  `DecodeEncode` and `EncodeDecode`, each for all addresses or texts, and with the invariant
  `AddressInv`, which says what `text` and `result` have to do with `address`, the theorems
  `AddressesReadBack` and `AddressesAreCanonical`.
* **Mistakes** (the end of `EncodingProofs`), for payloads of any length. By `EncodeDecode` a
  tampered text that decodes is itself the text of an address, so it is enough that no two
  addresses' texts are that close. `BurstsAreDetected`: one character anywhere, or any of six
  neighbouring ones behind the separator. No two registers become one when the same words
  follow (`FeedCancels`, `SameTail`), so six neighbouring words show (`SixWordsShow`); two
  prefixes of one length differ in two places at least (`PrefixesFarApart`); a separator cannot
  move by one mistake (`NotBefore`); and a letter in the other case makes the text a mixed one
  (`NotMixed`, `OtherCase`). `MistakeInv` says that the text is the address's but for the
  mistyped places. `OneSlipIsDetected`: one q too many or too few before a final p. Such a pair
  of texts would need a register that a 0 leaves as it is and a 1 makes the constant
  (`ZeroBeforeOne`); there is none for Bech32m's constant (`NoFixedRegister`), and for that of
  BIP-173 all zeros is one.

Model-checked only: liveness (`EveryCallEnds`, `EndsAfterStream`, and the liveness in
`KeepsContract`), which rests on fairness; `CommitmentsAdd`, which is the associativity of a
curve's addition over a field, with a recursive operator for the multiplication;
`ErrorsDetected` beyond the two theorems above (mistakes that are far apart, several slips),
which is the distance of the code for the lengths and errors of the run: it holds of no more
than four errors and some lengths, so no theorem for all values of the constants states it.

## 6. Not modelled

* Signatures, ciphertexts, zero-knowledge proofs, SHA-256 and HMAC are constructors: what they
  are made from. Bytes are modelled in ScaleEncoding and Bech32m only. JubJub and Poseidon are
  modelled over small fields; ZswapState and TransactionSigning use them as constructors.
* `DustSecretKey`, `hash_to_field` and `coin_commitment` (`crypto/jubjub.py` 90-178) have
  no caller, the data classes of `crypto/commitment.py` no behaviour, and
  `substrate-interface` keypairs are external.
* `contract/compact.py` looks up files of a directory and fills models from JSON;
  `contract/instance.py` looks up an entry point in them.
* Token, ledger and data classes, the test kit: no transitions.
* Two sessions of one client at once: ClientLifecycle takes these steps, its properties
  exclude them (`overlapped`), for no document promises that a client can be entered twice.
  A session after one that failed is no overlap and is covered.
* Spellings the services could choose: the connector compares outpoints as the indexer wrote
  them, DAppConnector as identities; the keys of a dict's intents are text, so an intent under
  the number 0, which the code balances but does not bind, is not among the dicts; every
  exception of the proof server's health check is one `ProofError` in TransactionBuilder.
* `core/retry.py`, `proof/verifier.py`, `proof/disclosure.py`,
  `indexer/mutations.py`, `indexer/subscriptions.py`: unused or without state.
* `substrate-interface`, `gql`, `tenacity`, `aiohttp`: external, modelled by how
  the code uses them (attempt counts, the exceptions that get through).
* Two RPCs in two threads sharing one websocket: the library's concern.

## 7. Plan

Done, because money depends on it, in this order: selection, builder with its
contract, wait, shielded state, connector; then lifecycle, signing, encodings,
synchronisation, addresses, keystore; then the cryptography under them, and what
`deploy` and `get_balance` say they return. Left, in the order of their worth:

1. Composition: DAppConnector's interleavings with TransactionSigning's attempts; a
   `disconnect()` of ClientLifecycle under a synchronisation.
2. Signing with the commitments of JubJub in place of a constructor, over small values.
3. `contract/instance.py` with an ABI under either spelling of its keys, once
   `call_contract` no longer ends in a `KeyError`.

Theorems to come: that commitments add up, once the multiplication is a recursive
function, from the associativity of the small curve's addition.
