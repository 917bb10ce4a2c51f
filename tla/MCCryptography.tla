---------------------------- MODULE MCCryptography ----------------------------
(***************************************************************************)
(* What the wallet computes on its own: the tree of commitments, the hash  *)
(* of its nodes, binding commitments and keys, side by side.  A behaviour  *)
(* exercises one of them while the others rest: the tree is empty, and the *)
(* others are asked for nothing.                                           *)
(***************************************************************************)
EXTENDS ZswapState, KeyDerivation, Poseidon

CONSTANTS
    Unused,
    P, D, GU, GV, Order

VARIABLES opening, commitment

\* Every message of a single block, and longer ones of three elements.
MCMessages ==
    UNION {[1 .. n -> 0 .. Modulus - 1] : n \in 1 .. 2} \cup UNION {[1 .. n -> {0, 1, 6}] : n \in 3 .. 4}

\* Randomness past the order, values of both signs and past it.
MCOpenings == [randomness : 0 .. 9, value : -3 .. 8]

Binding == INSTANCE JubJub WITH Openings <- MCOpenings

ASSUME MCAssumption == Binding!JubJubAssumption

bindingVars == <<opening, commitment>>

BindingRests == opening = Unused /\ commitment = None
KeysRest == environment = Unused /\ request = Unused /\ derived = Pending
SpongeRests == message = Unused /\ register = Unhashed

MCInit ==
    /\ ZswapInit
    /\ \/ BindingRests /\ KeysRest /\ SpongeRests
       \/ Binding!Init /\ KeysRest /\ SpongeRests
       \/ BindingRests /\ KeysInit /\ SpongeRests
       \/ BindingRests /\ KeysRest /\ SpongeInit

MCNext ==
    \/ /\ BindingRests /\ KeysRest /\ SpongeRests
       /\ ZswapNext /\ UNCHANGED <<spongeVars, bindingVars, keysVars>>
    \/ opening # Unused /\ Binding!Next /\ UNCHANGED <<spongeVars, zswapVars, keysVars>>
    \/ environment # Unused /\ KeysNext /\ UNCHANGED <<spongeVars, zswapVars, bindingVars>>
    \/ message # Unused /\ SpongeNext /\ UNCHANGED <<zswapVars, bindingVars, keysVars>>

MCSpec == MCInit /\ [][MCNext]_<<spongeVars, zswapVars, bindingVars, keysVars>>

----------------------------------------------------------------------------
\* Binding commitments add up (JubJub).
CommitmentsAdd == Binding!CommitmentsAdd

\* The negative of a value removes it (JubJub).
NegationCancels == Binding!NegationCancels
=============================================================================
