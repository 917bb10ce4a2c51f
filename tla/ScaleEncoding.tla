----------------------------- MODULE ScaleEncoding -----------------------------
(***************************************************************************)
(* tx/scale.py: a transaction dict, the payload that is signed, and the    *)
(* arguments of a contract call as bytes.  A value is serialised in one    *)
(* step; the properties read the bytes back with the types the source      *)
(* names in its comments (Vec<UtxoSpend>, Option<UnshieldedOffer>, ...).   *)
(***************************************************************************)
EXTENDS ScaleDecoder, SequencesExt

CONSTANTS
    Numbers,       \* integers to encode
    Arguments,     \* arguments of contract calls
    Transactions,  \* dicts to serialise
    MaxNesting,    \* bound on the depth of nested arguments
    ProofSize,     \* elements of one proof, one memo
    NoOffer        \* an intent's offer that is not there

VARIABLES value, raw, serialized

scaleVars == <<value, raw, serialized>>

ScaleInit ==
    /\ value \in [kind : {"int"}, of : Numbers] \cup [kind : {"args"}, of : Arguments]
                 \cup [kind : {"tx", "payload"}, of : Transactions]
    /\ raw = <<>>
    /\ serialized = FALSE

\* Opaque fields are numbers above 255; these are the ones the code writes.
ZswapTag == 1001
StandardTag == 1002
SigningPrefix == 1003

----------------------------------------------------------------------------
(* What is serialised.                                                     *)

\* Integers of more than 67 digits raise: the first byte cannot count them.
Encodable == {n \in Nat : Len(LittleEndian[n]) <= 67}

ListsOf(S) == {s \in Seq(S) : Len(s) \in Encodable}
ByteString == ListsOf(Nat)

\* A dict is the sequence of its entries, one for each segment.
DictsOf(S) ==
    {d \in ListsOf(S) : \A i, j \in DOMAIN d : d[i].segment = d[j].segment => i = j}

UtxoSpend == [value : Nat, owner : Nat, type_ : Nat, intent_hash : Nat, output_no : Nat]
UtxoOutput == [value : Nat, owner : Nat, type_ : Nat]
UnshieldedOffer ==
    [inputs : ListsOf(UtxoSpend), outputs : ListsOf(UtxoOutput), signatures : ByteString]
ContractAction ==
    [type : {"deploy"}, bytecode : ByteString, initial_state : ByteString]
    \cup [type : {"call"}, address : Nat, entry_point : ByteString, args : ByteString]
Intent ==
    [guaranteed_unshielded_offer : UnshieldedOffer \cup {NoOffer},
     fallible_unshielded_offer : UnshieldedOffer \cup {NoOffer},
     ttl : Nat, actions : ListsOf(ContractAction), binding_commitment : Nat]
Proofs == ListsOf([1 .. ProofSize -> Nat])
ZswapOffer ==
    [spend_proofs : Proofs, output_proofs : Proofs, zswap_memos : Proofs, merkle_root : Nat]
StandardTransaction ==
    [network_id : ByteString,
     intents : DictsOf([segment : Nat, intent : Intent]),
     fallible_coins : DictsOf([segment : Nat, offer : ZswapOffer]),
     binding_randomness : Nat]

\* Arguments of contract calls, nested at most depth deep.
ArgumentsUpTo[depth \in 0 .. MaxNesting] ==
    [kind : {"none"}, of : {<<>>}] \cup [kind : {"bytes", "str"}, of : ByteString]
    \cup [kind : {"bool"}, of : BOOLEAN] \cup [kind : {"int"}, of : Encodable]
    \cup IF depth = 0 THEN {}
         ELSE [kind : {"list", "dict"}, of : ListsOf(ArgumentsUpTo[depth - 1])]

----------------------------------------------------------------------------
(* The serializers.                                                        *)

SerializeBytes(data) == EncodeScaleInt(Len(data)) \o data

\* A count and the items, as the loops over Vec<...> append them.
SerializeVec(items) == EncodeScaleInt(Len(items)) \o FlattenSeq(items)

\* The payload's own length is not written.
TaggedSerialize(tag, payload) == SerializeBytes(tag) \o payload

SerializeUtxoSpend(spend) ==
    <<spend.value, spend.owner, spend.type_, spend.intent_hash, spend.output_no>>

SerializeUtxoOutput(output) == <<output.value, output.owner, output.type_>>

SerializeUnshieldedOffer(offer) ==
    SerializeVec([i \in DOMAIN offer.inputs |-> SerializeUtxoSpend(offer.inputs[i])])
    \o SerializeVec([i \in DOMAIN offer.outputs |-> SerializeUtxoOutput(offer.outputs[i])])
    \o SerializeVec([i \in DOMAIN offer.signatures |-> <<offer.signatures[i]>>])

SerializeContractAction(action) ==
    IF action.type = "deploy"
    THEN <<0>> \o SerializeBytes(action.bytecode) \o SerializeBytes(action.initial_state)
    ELSE <<1, action.address>> \o SerializeBytes(action.entry_point)
                               \o SerializeBytes(action.args)

SerializeOption(offer) ==
    IF offer = NoOffer THEN <<0>> ELSE <<1>> \o SerializeUnshieldedOffer(offer)

SerializeIntent(intent) ==
    SerializeOption(intent.guaranteed_unshielded_offer)
    \o SerializeOption(intent.fallible_unshielded_offer)
    \o <<intent.ttl>>
    \o SerializeVec([i \in DOMAIN intent.actions |->
                        SerializeContractAction(intent.actions[i])])
    \o <<intent.binding_commitment>>

SerializeZswapOffer(offer) ==
    TaggedSerialize(<<ZswapTag>>,
        SerializeVec(offer.spend_proofs) \o SerializeVec(offer.output_proofs)
        \o SerializeVec(offer.zswap_memos) \o <<offer.merkle_root>>)

\* Faulty: the keys are left in the order they were inserted.
ByInsertion(dict) == dict

\* A dict with segments for keys, in the order of int(key).
BySegment(dict) ==
    CHOOSE s \in [DOMAIN dict -> Range(dict)] :
        \A i, j \in DOMAIN s : i < j => s[i].segment < s[j].segment

SerializeStandardTransaction(stx) ==
    LET intents == BySegment(stx.intents)
        f_coins == BySegment(stx.fallible_coins)
    IN  TaggedSerialize(<<StandardTag>>,
            SerializeBytes(stx.network_id)
            \o SerializeVec([i \in DOMAIN intents |->
                    <<intents[i].segment>> \o SerializeIntent(intents[i].intent)])
            \o SerializeVec([i \in DOMAIN f_coins |->
                    <<f_coins[i].segment>> \o SerializeZswapOffer(f_coins[i].offer)])
            \o <<stx.binding_randomness>>)

\* serialize_raw_midnight_tx: pallet 5, call 0.
SerializeRawMidnightTx(midnight_bytes) == <<5, 0>> \o SerializeBytes(midnight_bytes)

GetUnshieldedSigningPayload(segment_id, intent) ==
    <<SigningPrefix, segment_id>> \o SerializeIntent(intent)

\* None, bytes, str, bool and int; list and dict with the bytes of what they
\* hold. A value of another type is serialised as None is.
ArgumentBytes(args, inner) ==
    CASE args.kind = "none" -> <<>>
      [] args.kind \in {"bytes", "str"} -> SerializeBytes(args.of)
      [] args.kind = "bool" -> IF args.of THEN <<1>> ELSE <<0>>
      [] args.kind = "int" -> EncodeScaleInt(args.of)
      [] args.kind = "list" -> SerializeVec([i \in DOMAIN args.of |-> inner[args.of[i]]])
      [] args.kind = "dict" -> FlattenSeq([i \in DOMAIN args.of |-> inner[args.of[i]]])

ArgsBytes[depth \in 0 .. MaxNesting] ==
    [args \in ArgumentsUpTo[depth] |-> ArgumentBytes(args, ArgsBytes[depth - 1])]

SerializeContractArgs(args) == ArgsBytes[MaxNesting][args]

ASSUME ScaleAssumption ==
    /\ MaxNesting \in Nat /\ ProofSize \in Nat
    /\ Numbers \subseteq Encodable
    /\ Arguments \subseteq ArgumentsUpTo[MaxNesting]
    /\ \A stx \in Transactions :
          /\ stx \in StandardTransaction
          /\ Len(SerializeStandardTransaction(stx)) \in Encodable

----------------------------------------------------------------------------
Serialize(kind, bytes) ==
    /\ value.kind = kind
    /\ ~serialized
    /\ raw' = bytes
    /\ serialized' = TRUE
    /\ UNCHANGED value

SerializeInt == Serialize("int", EncodeScaleInt(value.of))
SerializeArgs == Serialize("args", SerializeContractArgs(value.of))

SerializeTx ==
    Serialize("tx", SerializeRawMidnightTx(SerializeStandardTransaction(value.of)))

\* Each intent of the dict is signed on its own.
SerializePayload ==
    value.kind = "payload" /\ \E i \in DOMAIN value.of.intents :
        Serialize("payload", GetUnshieldedSigningPayload(value.of.intents[i].segment,
                                                         value.of.intents[i].intent))

ScaleNext == SerializeInt \/ SerializeArgs \/ SerializeTx \/ SerializePayload

ScaleSpec == ScaleInit /\ [][ScaleNext]_scaleVars

----------------------------------------------------------------------------
(* The types, as the comments of the serializers name them, and the tree   *)
(* each dict stands for.                                                   *)

UtxoSpendType == Struct(<<Fixed, Fixed, Fixed, Fixed, Fixed>>)
UtxoOutputType == Struct(<<Fixed, Fixed, Fixed>>)
OfferType == Struct(<<Vec(UtxoSpendType), Vec(UtxoOutputType), Vec(Fixed)>>)
ActionType == Enum(<<Struct(<<Blob, Blob>>), Struct(<<Fixed, Blob, Blob>>)>>)
IntentType == Struct(<<Option(OfferType), Option(OfferType), Fixed, Vec(ActionType), Fixed>>)
ProofType == Struct([i \in 1 .. ProofSize |-> Fixed])
ZswapType == Struct(<<Blob, Vec(ProofType), Vec(ProofType), Vec(ProofType), Fixed>>)
StandardType ==
    Struct(<<Blob, Blob, Vec(Struct(<<Fixed, IntentType>>)),
             Vec(Struct(<<Fixed, ZswapType>>)), Fixed>>)
PayloadType == Struct(<<Fixed, Fixed, IntentType>>)

Each(list, Tree(_)) == [i \in DOMAIN list |-> Tree(list[i])]
Leaf(field) == <<field>>
Leaves(fields) == Each(fields, Leaf)

OfferTree(offer) ==
    IF offer = NoOffer THEN <<>>
    ELSE LET Spend(u) == Leaves(<<u.value, u.owner, u.type_, u.intent_hash, u.output_no>>)
             Output(o) == Leaves(<<o.value, o.owner, o.type_>>)
         IN  << <<Each(offer.inputs, Spend), Each(offer.outputs, Output),
                  Leaves(offer.signatures)>> >>

ActionTree(action) ==
    IF action.type = "deploy"
    THEN << <<0>>, <<action.bytecode, action.initial_state>> >>
    ELSE << <<1>>, << <<action.address>>, action.entry_point, action.args>> >>

IntentTree(intent) ==
    <<OfferTree(intent.guaranteed_unshielded_offer),
      OfferTree(intent.fallible_unshielded_offer),
      <<intent.ttl>>, Each(intent.actions, ActionTree), <<intent.binding_commitment>>>>

ZswapTree(offer) ==
    << <<ZswapTag>>, Each(offer.spend_proofs, Leaves), Each(offer.output_proofs, Leaves),
       Each(offer.zswap_memos, Leaves), <<offer.merkle_root>> >>

\* A map has one entry per key, the keys ascending, whatever order they were
\* inserted in.
IsMap(trees, dict, Tree(_)) ==
    /\ Len(trees) = Len(dict)
    /\ Range(trees) = {<< <<dict[i].segment>>, Tree(dict[i])>> : i \in DOMAIN dict}
    /\ \A i, j \in DOMAIN trees : i < j => trees[i][1][1] < trees[j][1][1]

IsStandardTree(tree, stx) ==
    LET IntentOf(entry) == IntentTree(entry.intent)
        CoinsOf(entry) == ZswapTree(entry.offer)
    IN  /\ Len(tree) = 5
        /\ tree[1] = <<StandardTag>>
        /\ tree[2] = stx.network_id
        /\ IsMap(tree[3], stx.intents, IntentOf)
        /\ IsMap(tree[4], stx.fallible_coins, CoinsOf)
        /\ tree[5] = <<stx.binding_randomness>>

PayloadTree(segment_id, intent) ==
    << <<SigningPrefix>>, <<segment_id>>, IntentTree(intent)>>

\* The types of contract arguments, known to the contract, and their tree.
ArgumentView(args, inner) ==
    LET types == [i \in DOMAIN args.of |-> inner[args.of[i]].type]
        trees == [i \in DOMAIN args.of |-> inner[args.of[i]].tree]
    IN  CASE args.kind = "none" -> [type |-> Struct(<<>>), tree |-> <<>>]
          [] args.kind \in {"bytes", "str"} -> [type |-> Blob, tree |-> args.of]
          [] args.kind = "bool" -> [type |-> Fixed, tree |-> IF args.of THEN <<1>> ELSE <<0>>]
          [] args.kind = "int" -> [type |-> Compact, tree |-> <<args.of>>]
          [] args.kind = "list" -> [type |-> Tuple(types), tree |-> trees]
          [] args.kind = "dict" -> [type |-> Struct(types), tree |-> trees]

ArgsView[depth \in 0 .. MaxNesting] ==
    [args \in ArgumentsUpTo[depth] |-> ArgumentView(args, ArgsView[depth - 1])]

\* The bytes are read to their end, as the tree.
Reads(type, bytes, tree) == type[bytes] = Reading(tree, <<>>)

----------------------------------------------------------------------------
(* Properties.                                                             *)

ScaleTypeOK ==
    /\ \A i \in DOMAIN raw : raw[i] \in Nat
    /\ value.kind = "int" => \A i \in DOMAIN raw : raw[i] \in Byte
    /\ serialized \in BOOLEAN
    /\ ~serialized => raw = <<>>

\* Every integer is read back, on both sides of 64, 16384 and 2^30, and none
\* takes a longer form than it needs.
IntRoundTrip ==
    serialized /\ value.kind = "int" =>
        LET d == DecodeScaleInt(raw)
        IN  /\ d.ok
            /\ d.value = value.of
            /\ d.size = Len(raw)
            /\ IF value.of < 1073741824
               THEN Len(raw) = (IF value.of < 64 THEN 1 ELSE IF value.of < 16384 THEN 2 ELSE 4)
               ELSE Len(raw) > 4 /\ raw[Len(raw)] # 0

\* Nested arguments are read back by a contract that knows their types.
ArgsRoundTrip ==
    serialized /\ value.kind = "args" =>
        LET view == ArgsView[MaxNesting][value.of]
        IN  Reads(view.type, raw, view.tree)

\* The bytes of a transaction have one reading: every field of every intent,
\* offer and action, the segments in ascending order and nothing besides.
TransactionRoundTrip ==
    serialized /\ value.kind = "tx" =>
        LET call == Struct(<<Fixed, Fixed, Blob>>)[raw]
            stx == StandardType[call.value[3]]
        IN  /\ call.ok /\ call.rest = <<>>
            /\ call.value[1] = <<5>> /\ call.value[2] = <<0>>
            /\ stx.ok /\ stx.rest = <<>>
            /\ IsStandardTree(stx.value, value.of)

\* What is signed has one reading too: a signature over it is about one
\* segment and one intent.
PayloadRoundTrip ==
    serialized /\ value.kind = "payload" =>
        \E i \in DOMAIN value.of.intents :
            Reads(PayloadType, raw, PayloadTree(value.of.intents[i].segment,
                                                value.of.intents[i].intent))

\* All that is serialised can be read back, and in one way.
ReadBack == IntRoundTrip /\ ArgsRoundTrip /\ TransactionRoundTrip /\ PayloadRoundTrip
=============================================================================
