-------------------------------- MODULE JubJub --------------------------------
(***************************************************************************)
(* compute_binding_commitment and the arithmetic under it: the two fields, *)
(* points of a twisted Edwards curve and their compressed form.  The curve *)
(* is a small one of JubJub's shape: -1 is a square modulo P, D is not,     *)
(* and the generator's order is 8 times Order, as it is for the            *)
(* generator of the code.                                                  *)
(***************************************************************************)
EXTENDS Integers

CONSTANTS
    P,         \* Fr.MODULUS
    D,         \* JubJubPoint.D
    GU, GV,    \* JubJubPoint.generator()
    Order,     \* EmbeddedFr.MODULUS and JUBJUB_ORDER
    Openings,  \* [randomness, value] that are committed to
    None

\* What the module expects of its constants; MCCryptography assumes it.
JubJubAssumption ==
    /\ P > 2 /\ Order > 1
    /\ D \in 1 .. P - 1 /\ GU \in 0 .. P - 1 /\ GV \in 0 .. P - 1
    /\ \A o \in Openings : o.randomness \in Nat /\ o.value \in Int

VARIABLES opening, commitment

vars == <<opening, commitment>>

----------------------------------------------------------------------------
(* The field: elements are integers reduced modulo P.                      *)

\* pow(x, P - 2, P): the inverse, and 0 for 0.
Inverse == [x \in 0 .. P - 1 |->
              IF x = 0 THEN 0 ELSE CHOOSE y \in 1 .. P - 1 : (x * y) % P = 1]

Div(x, y) == (x * Inverse[y % P]) % P

----------------------------------------------------------------------------
(* Points.                                                                 *)

Point(u, v) == [u |-> u, v |-> v]
Identity == Point(0, 1)
Generator == Point(GU, GV)

\* Faulty: the denominator of u under v as well.
AddOverOne(p, q) ==
    LET common == (((D * p.u * q.u) % P) * ((p.v * q.v) % P)) % P
    IN  Point(Div(p.u * q.v + p.v * q.u, 1 + common),
              Div(p.v * q.v + p.u * q.u, 1 + common))

Add(p, q) ==
    LET common == (((D * p.u * q.u) % P) * ((p.v * q.v) % P)) % P
    IN  Point(Div(p.u * q.v + p.v * q.u, 1 + common),
              Div(p.v * q.v + p.u * q.u, 1 - common))

\* __mul__: double-and-add over the bits of the scalar, which is reduced
\* modulo Order, not modulo the order of the point.
Times(point, scalar) ==
    LET RECURSIVE Loop(_, _, _)
        Loop(n, temp, res) ==
            IF n = 0 THEN res
            ELSE Loop(n \div 2, Add(temp, temp), IF n % 2 = 1 THEN Add(res, temp) ELSE res)
    IN  Loop(scalar, point, Identity)

\* to_bytes: v, with the lowest bit of u in the free highest bit.
Encode(point) == [v |-> point.v, sign |-> point.u % 2]

----------------------------------------------------------------------------
(* The commitment.                                                         *)

EmbeddedFr(n) == n % Order

H == Add(Generator, Generator)

Abs(n) == IF n < 0 THEN -n ELSE n

\* The scalar of a value; a negative one is taken from Order.
ValueScalar(value) ==
    IF value > 0 THEN EmbeddedFr(value) ELSE EmbeddedFr(Order - (Abs(value) % Order))

CommitmentPoint(o) ==
    LET blinding == Times(Generator, EmbeddedFr(o.randomness))
    IN  IF o.value = 0 THEN blinding ELSE Add(blinding, Times(H, ValueScalar(o.value)))

Init == opening \in Openings /\ commitment = None

ComputeBindingCommitment ==
    /\ commitment = None
    /\ commitment' = Encode(CommitmentPoint(opening))
    /\ UNCHANGED opening

Next == ComputeBindingCommitment

Spec == Init /\ [][Next]_vars

----------------------------------------------------------------------------
OnCurve(p) == (p.v * p.v - p.u * p.u - 1 - D * (((p.u * p.u) % P) * ((p.v * p.v) % P))) % P = 0

Sum(o, q) == [randomness |-> o.randomness + q.randomness, value |-> o.value + q.value]

\* Neither the randomness nor the value of the sum goes past the order.
Small(o) == o.randomness < Order /\ o.value \in 0 .. Order - 1

\* What binds the value of a transaction (curves.py 30-57, jubjub.py 181-210):
\* a commitment is a point of the curve, two of them add up to the commitment
\* on the sum of randomness and value, bit patterns and zero values included,
\* and the bytes are those of no other commitment's point.
CommitmentsAdd ==
    commitment # None =>
        LET point == CommitmentPoint(opening)
        IN  /\ OnCurve(point)
            /\ \A o \in Openings :
                /\ Small(opening) /\ Small(o) /\ Small(Sum(opening, o)) =>
                      CommitmentPoint(Sum(opening, o)) = Add(point, CommitmentPoint(o))
                /\ Encode(CommitmentPoint(o)) = commitment => CommitmentPoint(o) = point

\* jubjub.py:203 "Subtraction: res = res + (-temp) ... use the fact that order
\* is JUBJUB_ORDER": what a value adds to a commitment, its negative removes.
NegationCancels ==
    commitment # None =>
        Add(CommitmentPoint(opening),
            CommitmentPoint([randomness |-> 0, value |-> -opening.value]))
        = CommitmentPoint([opening EXCEPT !.value = 0])
=============================================================================
