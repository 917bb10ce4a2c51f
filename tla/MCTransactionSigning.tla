------------------------- MODULE MCTransactionSigning -------------------------
(* Instances of TransactionSigning for TLC.                                  *)
EXTENDS TransactionSigning

Offer(owner, balance) == [owner |-> owner, balance |-> balance, signatures |-> <<>>]

Intents(segment) ==
    [segment : {segment},
     guaranteed : {NoOffer, Offer("none", 0), Offer("unshielded", 1), Offer("dust", 1)},
     fallible : {NoOffer, Offer("unshielded", 1), Offer("dust", 1)},
     binding_commitment : {Absent, [randomness |-> 9, value |-> 1]}]

Pairs(p, q) == {<<i, j>> : i \in Intents(p), j \in Intents(q)}

\* Dicts of dApps: no intent, one, or two in either order.
DAppDicts ==
    [intents : {<<>>} \cup {<<i>> : i \in Intents(0) \cup Intents(1)}
                      \cup Pairs(0, 1) \cup Pairs(1, 0),
     randomness : {0, 9}, fee : {0}, signed : BOOLEAN]

\* What the builder makes of a transfer, a call and a deployment.
BuilderDicts ==
    [intents : {<<[segment |-> 0, guaranteed |-> Offer(o, 1), fallible |-> NoOffer,
                   binding_commitment |-> [randomness |-> 9, value |-> 1]]>> :
                        o \in {"unshielded", "dust"}},
     randomness : {9}, fee : {1}, signed : {TRUE}]
    \cup
    [intents : {<<[segment |-> 0, guaranteed |-> Offer("none", 0), fallible |-> NoOffer,
                   binding_commitment |-> [randomness |-> 0, value |-> 0]]>>},
     randomness : {0}, fee : {1}, signed : {TRUE}]

\* The dict of a dApp that leaves everything to balance_transaction.
EmptyDicts == [intents : {<<>>}, randomness : {0}, fee : {0}, signed : {FALSE}]

AllDicts == DAppDicts \cup BuilderDicts
=============================================================================
