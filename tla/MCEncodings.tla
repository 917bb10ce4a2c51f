------------------------------ MODULE MCEncodings ------------------------------
(***************************************************************************)
(* The two formats by which the wallet is understood by others, the texts  *)
(* of Bech32m and the bytes of ScaleEncoding, side by side: a behaviour    *)
(* exercises one of them.                                                  *)
(***************************************************************************)
EXTENDS Bech32m, ScaleEncoding

----------------------------------------------------------------------------
(* Addresses.                                                              *)

Address(t, n, p) == [type |-> t, network |-> n, payload |-> p]

\* Payloads that leave every number of bits to pad.  The texts of <<22>> and
\* <<33>> end in p, where q's may slip; that of <<55>> does under BIP-173.
MCAddresses ==
    {Address("unshielded", "mainnet", p) :
        p \in {<<>>, <<22>>, <<33>>, <<55>>, <<255>>, <<0, 129>>, <<7, 0, 254>>, <<200, 0, 0, 0, 99>>}}
    \cup {Address("dust", "preview", <<1, 2, 3, 4>>)}

\* What a wallet of each type hands out: 32 bytes, or two keys of 32.
RealAddresses ==
    {Address(t, "preprod", [i \in 1 .. IF t = "shielded" THEN 64 ELSE 32 |-> (i * 37) % 256]) :
        t \in Types}

----------------------------------------------------------------------------
(* Integers, arguments of contract calls and transactions.                 *)

\* Both sides of every boundary, and the largest integers TLC has.
MCIntegers ==
    0 .. 70 \cup 250 .. 260 \cup 16380 .. 16390 \cup 65530 .. 65540
    \cup 4194300 .. 4194310 \cup 1073741818 .. 1073741830 \cup 2147483640 .. 2147483646

Args(type, v) == [kind |-> type, of |-> v]

\* Lengths around 64, where a count takes a second byte.
Bytes(n) == [i \in 1 .. n |-> 300 + i]

Scalars ==
    {Args("none", <<>>), Args("bool", TRUE), Args("bool", FALSE)}
    \cup {Args("int", n) : n \in {0, 1, 63, 64, 20000}}
    \cup {Args("bytes", Bytes(n)) : n \in {0, 1, 63, 64}}

Lists(items) ==
    {Args(type, l) : type \in {"list", "dict"},
                   l \in {<<>>} \cup {<<a>> : a \in items} \cup (items \X items)}

MCArguments ==
    Scalars \cup Lists(Scalars)
    \cup {Args(type, <<a, b>>) : type \in {"list", "dict"},
                               a \in Scalars, b \in Lists({Args("none", <<>>), Args("int", 64)})}

Spend(n) == [value |-> 300 + n, owner |-> 311, type_ |-> 0, intent_hash |-> 312, output_no |-> n]
Output(n) == [value |-> 320 + n, owner |-> 321, type_ |-> 0]

OfferOf(n, m, k) ==
    [inputs |-> [i \in 1 .. n |-> Spend(i)], outputs |-> [i \in 1 .. m |-> Output(i)],
     signatures |-> [i \in 1 .. k |-> 330 + i]]

Offers == {NoOffer, OfferOf(0, 0, 0), OfferOf(1, 0, 1), OfferOf(0, 1, 0), OfferOf(2, 2, 1)}

Actions ==
    {[type |-> "deploy", bytecode |-> Bytes(n), initial_state |-> Bytes(m)] :
        n \in {0, 1, 65}, m \in {0, 1}}
    \cup
    {[type |-> "call", address |-> 341, entry_point |-> Bytes(n), args |-> Bytes(m)] :
        n \in {0, 2}, m \in {0, 1}}

IntentOf(g, f, actions) ==
    [guaranteed_unshielded_offer |-> g, fallible_unshielded_offer |-> f,
     ttl |-> 1800, actions |-> actions, binding_commitment |-> 351]

SomeIntents ==
    {IntentOf(g, f, <<>>) : g \in Offers, f \in Offers}
    \cup {IntentOf(NoOffer, NoOffer, <<a>>) : a \in Actions}
    \cup {IntentOf(OfferOf(1, 1, 1), NoOffer, <<a, b>>) : a \in Actions, b \in Actions}

ProofOf(n) == [i \in 1 .. ProofSize |-> 360 + n]

ZswapOf(n, m, k) ==
    [spend_proofs |-> [i \in 1 .. n |-> ProofOf(i)], output_proofs |-> [i \in 1 .. m |-> ProofOf(i)],
     zswap_memos |-> [i \in 1 .. k |-> ProofOf(i)], merkle_root |-> 371]

SomeCoins == {<<>>} \cup {<<[segment |-> 0, offer |-> ZswapOf(n, m, k)]>> :
                            n \in 0 .. 2, m \in 0 .. 2, k \in 0 .. 1}
                    \cup {<<[segment |-> 10, offer |-> ZswapOf(1, 0, 0)],
                            [segment |-> 2, offer |-> ZswapOf(0, 2, 1)]>>}

Stx(intents, coins) ==
    [network_id |-> Bytes(3), intents |-> intents, fallible_coins |-> coins,
     binding_randomness |-> 381]

MCTransactions ==
    {Stx(<<[segment |-> 0, intent |-> i]>>, <<>>) : i \in SomeIntents}
    \cup {Stx(<<[segment |-> 0, intent |-> IntentOf(OfferOf(0, 0, 0), NoOffer, <<>>)]>>, c) :
            c \in SomeCoins}
    \cup {Stx(<<[segment |-> p, intent |-> IntentOf(g, NoOffer, <<>>)],
                [segment |-> 2, intent |-> IntentOf(NoOffer, f, <<>>)]>>, <<>>) :
            p \in {0, 10}, g \in Offers, f \in Offers}

----------------------------------------------------------------------------
MCInit ==
    \/ /\ Init
       /\ value = [kind |-> "unused"] /\ raw = <<>> /\ serialized = FALSE
    \/ /\ ScaleInit
       /\ address = <<>> /\ text = <<>> /\ how = "unused" /\ places = {} /\ result = <<>>

MCNext ==
    \/ how # "unused" /\ Next /\ UNCHANGED scaleVars
    \/ ScaleNext /\ UNCHANGED vars

MCSpec == MCInit /\ [][MCNext]_<<vars, scaleVars>>
=============================================================================
