------------------------------- MODULE Poseidon -------------------------------
(***************************************************************************)
(* The Poseidon sponge behind transient_hash, with its rounds, its matrix  *)
(* and its constants, over the field of 7 elements: like the scalar field  *)
(* of the code, it has x^5 as a bijection (5 and 6 are coprime).           *)
(***************************************************************************)
EXTENDS Integers, Sequences, FiniteSets

CONSTANTS
    Messages,  \* sequences of field elements that are hashed
    Unhashed

Modulus == 7

Fr(n) == n % Modulus

RATE == 2
FULL_ROUNDS == 8
PARTIAL_ROUNDS == 60

ASSUME PoseidonAssumption == Messages \subseteq Seq(0 .. Modulus - 1)

\* The matrix, reduced modulo 7.
MDS == <<<<0, 1, 2>>, <<6, 2, 1>>, <<2, 3, 6>>>>

\* The constants of the 68 rounds, reduced modulo 7: the three digits of a row.
ROUND_CONSTANTS ==
    <<205, 264, 520, 544, 135, 006, 023, 626, 236, 146, 250, 466, 411, 461, 520, 513, 025,
      223, 262, 504, 152, 302, 312, 125, 215, 444, 612, 636, 025, 103, 244, 136, 233, 312,
      333, 550, 235, 300, 224, 032, 301, 620, 164, 063, 033, 516, 621, 635, 542, 356, 302,
      366, 050, 625, 313, 354, 060, 536, 631, 625, 133, 642, 600, 456, 622, 663, 243, 556>>

VARIABLES message, register

spongeVars == <<message, register>>

----------------------------------------------------------------------------
(* The permutation.                                                        *)

\* The constants of a round, counted from 0; after the last there are none.
Constants(round) ==
    IF round >= Len(ROUND_CONSTANTS) THEN <<0, 0, 0>>
    ELSE LET row == ROUND_CONSTANTS[round + 1]
         IN  <<row \div 100, (row \div 10) % 10, row % 10>>

Sbox(x) == Fr(x * x * x * x * x)

LinearLayer(a, b, c, round) ==
    LET row(i) == Fr(MDS[i][1] * a + MDS[i][2] * b + MDS[i][3] * c + Constants(round + 1)[i])
    IN  <<row(1), row(2), row(3)>>

\* A full round has the S-box on every lane, a partial one on the last only.
IsFull(round) ==
    round < FULL_ROUNDS \div 2 \/ round >= FULL_ROUNDS \div 2 + PARTIAL_ROUNDS

Plus(state, lanes) ==
    <<Fr(state[1] + lanes[1]), Fr(state[2] + lanes[2]), Fr(state[3] + lanes[3])>>

States == (0 .. Modulus - 1) \X (0 .. Modulus - 1) \X (0 .. Modulus - 1)

Rounds == FULL_ROUNDS + PARTIAL_ROUNDS

\* One round of the loops, on every state.
Round == [round \in 0 .. Rounds - 1 |-> [state \in States |->
    IF IsFull(round)
    THEN LinearLayer(Sbox(state[1]), Sbox(state[2]), Sbox(state[3]), round)
    ELSE LinearLayer(state[1], state[2], Sbox(state[3]), round)]]

Permuted(state) ==
    LET after[n \in 0 .. Rounds] ==
            IF n = 0 THEN Plus(state, Constants(0)) ELSE Round[n - 1][after[n - 1]]
    IN  after[Rounds]

Permutation == [state \in States |-> Permuted(state)]

----------------------------------------------------------------------------
(* The sponge.                                                             *)

BlockCount(m) == (Len(m) + RATE - 1) \div RATE

\* The k-th chunk, 0 in the lanes it leaves alone.
Block(m, k) ==
    LET lane(i) == IF RATE * (k - 1) + i <= Len(m) THEN m[RATE * (k - 1) + i] ELSE 0
    IN  <<lane(1), lane(2), 0>>

\* Faulty: the length is not kept in the capacity.
EmptyRegister(m) == <<0, 0, 0>>

\* SpongeCPU::init: the length of the message is in the capacity lane.
InitialRegister(m) == <<0, 0, Fr(Len(m))>>

Absorb(state, block) == Permutation[Plus(state, block)]

\* The register of hash(m) when the message is absorbed; the hash is its first
\* lane.
Register(m) ==
    LET after[k \in 0 .. BlockCount(m)] ==
            IF k = 0 THEN InitialRegister(m) ELSE Absorb(after[k - 1], Block(m, k))
    IN  after[BlockCount(m)]

SpongeInit == message \in Messages /\ register = Unhashed

TransientHash ==
    /\ register = Unhashed
    /\ register' = Register(message)
    /\ UNCHANGED message

SpongeNext == TransientHash

SpongeSpec == SpongeInit /\ [][SpongeNext]_spongeVars

----------------------------------------------------------------------------
\* The blocks in which two messages of one number of blocks differ.
Differing(m, n) == {k \in 1 .. BlockCount(m) : Block(m, k) # Block(n, k)}

\* Messages that differ in one block, or up to their last block only in the
\* number of zeros that fill it.
Comparable(m, n) ==
    /\ m # n
    /\ BlockCount(m) = BlockCount(n)
    /\ \/ Len(m) = Len(n) /\ Cardinality(Differing(m, n)) = 1
       \/ Differing(m, n) \subseteq {1}

\* Such messages end in different registers: no round of the permutation loses
\* anything, and a chunk left partial is told from one filled with zeros
\* (poseidon.py 80-87: "padding is handled by the caller or implicitly?").
SpongeSeparates ==
    register # Unhashed =>
        \A m \in Messages : Comparable(m, message) => Register(m) # register
=============================================================================
