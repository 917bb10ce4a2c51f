------------------------------ MODULE ZswapState ------------------------------
(***************************************************************************)
(* The wallet's local shielded state: the list of unspent coins, the       *)
(* nullifiers seen, and the sparse Merkle tree of commitments with its     *)
(* root and its membership proofs.                                         *)
(*                                                                         *)
(* The Poseidon hash is a pairing constructor, so two trees have one root  *)
(* only if they are the same tree.  A note stands for the fields a coin's  *)
(* commitment depends on; the position in the tree is not among them.      *)
(***************************************************************************)
EXTENDS Integers, Sequences

CONSTANTS
    Depth,      \* depth of the tree, 32 in the code
    Notes,
    Indices,    \* merkle_tree_index of the coins received
    MaxCoins,   \* bound on the number of coins received
    Zero,       \* the all-zero leaf
    None

ASSUME ZswapAssumption ==
    /\ Depth \in Nat
    /\ Indices \subseteq Nat
    /\ MaxCoins \in Nat
    /\ Zero \notin Notes

ZswapCoins == [note : Notes, merkle_tree_index : Indices]

VARIABLES
    unspent_coins,
    spent_nullifiers,
    leaves,      \* the tree's leaves: index -> commitment
    received     \* history: the coins passed to add_coin

zswapVars == <<unspent_coins, spent_nullifiers, leaves, received>>

ZswapInit ==
    /\ unspent_coins = <<>>
    /\ spent_nullifiers = {}
    /\ leaves = <<>>
    /\ received = <<>>

-----------------------------------------------------------------------------
(* The tree *)

NodeHash(left, right) == <<left, right>>

\* The powers of two, by doubling: the positions below a node of each level.
TwoTo ==
    LET t[level \in 0 .. Depth] == IF level = 0 THEN 1 ELSE 2 * t[level - 1]
    IN  t

\* Hashes of the empty subtrees, by level.
ZeroNodes ==
    LET z[level \in 0 .. Depth] ==
            IF level = 0 THEN Zero ELSE NodeHash(z[level - 1], z[level - 1])
    IN  z

\* The node at an index of a level, stored or empty.
NodeAt(nodes, index, level) ==
    IF index \in DOMAIN nodes THEN nodes[index] ELSE ZeroNodes[level]

\* Faulty: the empty sibling is taken one level too low.
LevelsLowZero(tree) ==
    LET f[level \in 0 .. Depth] ==
            IF level = 0 THEN tree
            ELSE [p \in {i \div 2 : i \in DOMAIN f[level - 1]} |->
                     NodeHash(NodeAt(f[level - 1], 2 * p, 0),
                              NodeAt(f[level - 1], 2 * p + 1, 0))]
    IN  f

\* The non-empty nodes of every level, from the leaves up.
Levels(tree) ==
    LET f[level \in 0 .. Depth] ==
            IF level = 0 THEN tree
            ELSE [p \in {i \div 2 : i \in DOMAIN f[level - 1]} |->
                     NodeHash(NodeAt(f[level - 1], 2 * p, level - 1),
                              NodeAt(f[level - 1], 2 * p + 1, level - 1))]
    IN  f

Root(tree) ==
    IF DOMAIN tree = {} THEN ZeroNodes[Depth] ELSE Levels(tree)[Depth][0]

\* Faulty: the sibling is always the node to the right.
SiblingRight(index) == index + 1

Sibling(index) == IF index % 2 = 0 THEN index + 1 ELSE index - 1

\* The siblings on the way from the leaf at index to the root.
Proof(tree, index) ==
    [n \in 1 .. Depth |->
        NodeAt(Levels(tree)[n - 1], Sibling(index \div TwoTo[n - 1]), n - 1)]

-----------------------------------------------------------------------------
(* The operations *)

\* MerkleTree.insert; out of bounds it raises ValueError.
Insert(tree, index, commitment) ==
    IF index >= TwoTo[Depth] THEN tree
    ELSE [i \in DOMAIN tree \cup {index} |-> IF i = index THEN commitment ELSE tree[i]]

\* The coin is listed before the tree accepts its leaf: it stays listed when
\* insert raises.
AddCoin(coin) ==
    /\ Len(received) < MaxCoins
    /\ unspent_coins' = Append(unspent_coins, coin)
    /\ leaves' = Insert(leaves, coin.merkle_tree_index, coin.note)
    /\ received' = Append(received, coin)
    /\ UNCHANGED spent_nullifiers

\* The nullifier of a coin under the wallet's secret depends on its index only.
Nullifier(coin) == <<"nullifier", coin.merkle_tree_index>>

\* compute_nullifier_safe() as mark_spent calls it, without the secret.
ComputeNullifierSafe(coin) == None

MarkSpent(nullifier) ==
    /\ spent_nullifiers' = spent_nullifiers \cup {nullifier}
    /\ unspent_coins' = SelectSeq(unspent_coins, LAMBDA c : ComputeNullifierSafe(c) # nullifier)
    /\ UNCHANGED <<leaves, received>>

ZswapNext ==
    \/ \E coin \in ZswapCoins : AddCoin(coin)
    \/ \E index \in Indices : MarkSpent(<<"nullifier", index>>)

ZswapSpec == ZswapInit /\ [][ZswapNext]_zswapVars

-----------------------------------------------------------------------------
Positions == 0 .. TwoTo[Depth] - 1

\* Reference: the coin received last for a position.
LastReceived(i) ==
    LET at == {n \in DOMAIN received : received[n].merkle_tree_index = i}
    IN  IF at = {} THEN Zero
        ELSE received[CHOOSE n \in at : \A m \in at : m <= n].note

\* Reference: the complete tree over all positions, node by node.
CompleteTree ==
    LET g[level \in 0 .. Depth] ==
            [p \in 0 .. TwoTo[Depth - level] - 1 |->
                IF level = 0 THEN LastReceived(p)
                ELSE NodeHash(g[level - 1][2 * p], g[level - 1][2 * p + 1])]
    IN  g

\* Reference: what a verifier makes of a leaf and a path.
PathRoot(leaf, index, path) ==
    LET h[n \in 0 .. Depth] ==
            IF n = 0 THEN leaf
            ELSE IF (index \div TwoTo[n - 1]) % 2 = 0 THEN NodeHash(h[n - 1], path[n])
            ELSE NodeHash(path[n], h[n - 1])
    IN  h[Depth]

ZswapTypeOK ==
    /\ unspent_coins \in Seq(ZswapCoins)
    /\ Len(received) <= MaxCoins
    /\ spent_nullifiers \subseteq {<<"nullifier", i>> : i \in Indices}
    /\ DOMAIN leaves \subseteq Positions
    /\ \A i \in DOMAIN leaves : leaves[i] \in Notes

\* The sparse root is the root of the complete tree over the coins received,
\* each position with the last one and nothing out of bounds, whatever the
\* order they came in (lines 38-70 and 121-126).
RootIsComplete == Root(leaves) = CompleteTree[Depth][0]

\* Every position, occupied or not, has a proof that leads from the coin
\* received for it to the root (lines 72-106): it can always be spent.
ProofsVerify ==
    \A i \in Positions : PathRoot(LastReceived(i), i, Proof(leaves, i)) = Root(leaves)

\* "Mark a coin as spent by nullifier": a coin whose nullifier is reported is
\* no longer listed as unspent.
MarkSpentRemoves ==
    [][\A nullifier \in spent_nullifiers' \ spent_nullifiers :
           \A n \in 1 .. Len(unspent_coins') : Nullifier(unspent_coins'[n]) # nullifier]_zswapVars
=============================================================================
