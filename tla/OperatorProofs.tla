--------------------------- MODULE OperatorProofs ---------------------------
(***************************************************************************)
(* What the operators of the specifications compute, for every argument:   *)
(* totals of lists and of sets of lines, and what the selection chooses.   *)
(*                                                                         *)
(* The induction theorems of the library quantify over a predicate; here   *)
(* the predicate is a set of numbers, and the least-number principle comes *)
(* from the well-foundedness of < on Nat.                                  *)
(***************************************************************************)
EXTENDS ValueSums, UtxoOps, FiniteSetTheorems, WellFoundedInduction, TLAPS

-----------------------------------------------------------------------------
(* Induction over the natural numbers in a first-order form.               *)

\* A non-empty set of natural numbers has a least element.
LEMMA LeastNatural ==
    ASSUME NEW S \in SUBSET Nat, S # {}
    PROVE  \E m \in S : \A k \in S : m <= k
<1> DEFINE R == OpToRel(<, Nat)
<1>1. IsWellFoundedOn(R, Nat)
  BY NatLessThanWellFounded, Zenon
<1>2. \A x, y \in Nat : x < y => <<x, y>> \in R
  BY DEF OpToRel
<1> HIDE DEF R
<1>3. PICK x \in S : \A y \in S : ~(<<y, x>> \in R)
  BY <1>1, WFMin
<1>4. \A y \in S : ~(y < x)
  BY <1>2, <1>3, Zenon
<1>5. \A y \in S : x <= y
  BY <1>4
<1> QED
  BY <1>5

\* Induction up to n: a set that holds 0 and is closed under successor below
\* n holds every number up to n.
LEMMA InductionUpTo ==
    ASSUME NEW n \in Nat, NEW S,
           0 \in S,
           \A k \in 0 .. n : (k \in S /\ k < n) => k + 1 \in S
    PROVE  \A k \in 0 .. n : k \in S
<1> SUFFICES ASSUME (0 .. n) \ S # {} PROVE FALSE
  OBVIOUS
<1>1. (0 .. n) \ S \in SUBSET Nat
  OBVIOUS
<1>2. PICK m \in (0 .. n) \ S : \A k \in (0 .. n) \ S : m <= k
  BY <1>1, LeastNatural
<1>3. m # 0 /\ m - 1 \in 0 .. n /\ m - 1 < n
  BY <1>2
<1>4. m - 1 \in S
  BY <1>2, <1>3
<1> QED
  BY <1>2, <1>3, <1>4

-----------------------------------------------------------------------------
(* Totals of lists.                                                        *)

\* f holds the prefix sums of s up to n.
SumsTo(f, s, n) ==
    \A i \in 0 .. n : f[i] = IF i = 0 THEN 0 ELSE f[i - 1] + s[i].value

\* The first n lines of s and of r have the same values.
SameValues(s, r, n) == \A i \in 1 .. n : s[i].value = r[i].value

\* Prefix sums exist for every sequence of valued lines.
LEMMA SumsExist ==
    ASSUME NEW s, Len(s) \in Nat, Valued(s)
    PROVE  \E f \in [0 .. Len(s) -> Nat] : SumsTo(f, s, Len(s))
<1> DEFINE S == {n \in Nat : \E f \in [0 .. n -> Nat] : SumsTo(f, s, n)}
<1>1. 0 \in S
  <2> DEFINE z == [i \in 0 .. 0 |-> 0]
  <2>1. z \in [0 .. 0 -> Nat]
    OBVIOUS
  <2>2. SumsTo(z, s, 0)
    BY DEF SumsTo
  <2> QED
    BY <2>1, <2>2
<1>2. \A k \in 0 .. Len(s) : (k \in S /\ k < Len(s)) => k + 1 \in S
  <2> SUFFICES ASSUME NEW k \in 0 .. Len(s), k \in S, k < Len(s)
               PROVE  k + 1 \in S
    OBVIOUS
  <2>1. PICK f \in [0 .. k -> Nat] : SumsTo(f, s, k)
    OBVIOUS
  <2> DEFINE g == [i \in 0 .. (k + 1) |-> IF i = k + 1 THEN f[k] + s[k + 1].value ELSE f[i]]
  <2>2. s[k + 1].value \in Nat
    BY DEF Valued
  <2>3. g \in [0 .. (k + 1) -> Nat]
    BY <2>2
  <2>4. \A i \in 0 .. (k + 1) : g[i] = IF i = 0 THEN 0 ELSE g[i - 1] + s[i].value
    <3> SUFFICES ASSUME NEW i \in 0 .. (k + 1)
                 PROVE  g[i] = IF i = 0 THEN 0 ELSE g[i - 1] + s[i].value
      OBVIOUS
    <3>1. CASE i = k + 1
      BY <3>1
    <3>2. CASE i # k + 1
      <4>1. i \in 0 .. k /\ (i # 0 => i - 1 \in 0 .. k)
        BY <3>2
      <4>2. g[i] = f[i] /\ (i # 0 => g[i - 1] = f[i - 1])
        BY <4>1
      <4>3. f[i] = IF i = 0 THEN 0 ELSE f[i - 1] + s[i].value
        BY <2>1, <4>1 DEF SumsTo
      <4> HIDE DEF g
      <4> QED
        BY <4>2, <4>3
    <3> QED
      BY <3>1, <3>2
  <2> HIDE DEF g
  <2>5. SumsTo(g, s, k + 1)
    BY <2>4 DEF SumsTo
  <2>6. k + 1 \in Nat
    OBVIOUS
  <2> QED
    BY <2>3, <2>5, <2>6
<1> DEFINE n == Len(s)
<1>3. n \in Nat
  OBVIOUS
<1>4. \A k \in 0 .. n : (k \in S /\ k < n) => k + 1 \in S
  BY <1>2
<1> HIDE DEF S, n
<1>5. \A k \in 0 .. n : k \in S
  BY <1>1, <1>3, <1>4, InductionUpTo, Zenon
<1>6. n \in S
  BY <1>3, <1>5
<1> QED
  BY <1>6 DEF S, n

\* PrefixSums satisfies its own recursive equation.
LEMMA PrefixSumsEquation ==
    ASSUME NEW s, Len(s) \in Nat, Valued(s)
    PROVE  SumsTo(PrefixSums(s), s, Len(s))
<1>1. PICK f \in [0 .. Len(s) -> Nat] : SumsTo(f, s, Len(s))
  BY SumsExist
<1> DEFINE Eq(h) == h = [i \in 0 .. Len(s) |-> IF i = 0 THEN 0 ELSE h[i - 1] + s[i].value]
<1>2. Eq(f)
  BY <1>1 DEF SumsTo
<1>3. PrefixSums(s) = CHOOSE h : Eq(h)
  BY DEF PrefixSums
<1>4. Eq(PrefixSums(s))
  BY <1>2, <1>3
<1> QED
  BY <1>4 DEF SumsTo

\* Prefix sums are unique, and depend on the values only.
LEMMA SumsUnique ==
    ASSUME NEW s, NEW r, NEW n \in Nat, NEW f, NEW g,
           SumsTo(f, s, n), SumsTo(g, r, n),
           SameValues(s, r, n)
    PROVE  f[n] = g[n]
<1> DEFINE S == {i \in Nat : f[i] = g[i]}
<1>1. 0 \in S
  BY DEF SumsTo
<1>2. \A k \in 0 .. n : (k \in S /\ k < n) => k + 1 \in S
  <2> SUFFICES ASSUME NEW k \in 0 .. n, k \in S, k < n
               PROVE  k + 1 \in S
    OBVIOUS
  <2>1. f[k + 1] = f[k] + s[k + 1].value
    BY DEF SumsTo
  <2>2. g[k + 1] = g[k] + r[k + 1].value
    BY DEF SumsTo
  <2> QED
    BY <2>1, <2>2 DEF SameValues
<1> HIDE DEF S
<1>3. n \in S
  BY <1>1, <1>2, InductionUpTo
<1> QED
  BY <1>3 DEF S

\* The total of an empty offer is 0.
LEMMA SumEmpty == SumValues(<<>>) = 0
<1>1. SumsTo(PrefixSums(<<>>), <<>>, 0)
  BY PrefixSumsEquation DEF Valued
<1> QED
  BY <1>1 DEF SumsTo, SumValues

\* Two lists with the same values in the same places have the same total.
LEMMA SumSameValues ==
    ASSUME NEW s, NEW r, Len(s) \in Nat, Valued(s), Len(r) = Len(s),
           \A i \in 1 .. Len(s) : r[i].value = s[i].value
    PROVE  SumValues(r) = SumValues(s)
<1> DEFINE n == Len(s)
           ps == PrefixSums(s)
           pr == PrefixSums(r)
<1>1. Valued(r)
  BY DEF Valued
<1>2. SumsTo(ps, s, n)
  BY PrefixSumsEquation
<1>3. SumsTo(pr, r, n)
  BY <1>1, PrefixSumsEquation
<1>4. n \in Nat
  OBVIOUS
<1>5. SameValues(s, r, n)
  BY DEF SameValues
<1> HIDE DEF n, ps, pr
<1>6. ps[n] = pr[n]
  BY <1>2, <1>3, <1>4, <1>5, SumsUnique
<1> QED
  BY <1>6 DEF SumValues, n, ps, pr

\* Appending a line adds its value.
LEMMA SumAppend ==
    ASSUME NEW T, NEW s \in Seq(T), Valued(s), NEW u \in T, u.value \in Nat
    PROVE  SumValues(Append(s, u)) = SumValues(s) + u.value
<1> DEFINE r == Append(s, u)
           n == Len(s)
<1>1. n \in Nat /\ Len(r) = n + 1 /\ r[n + 1] = u /\ \A i \in 1 .. n : r[i] = s[i]
  OBVIOUS
<1>2. Valued(r)
  BY <1>1 DEF Valued
<1> HIDE DEF r, n
<1>3. SumsTo(PrefixSums(r), r, n + 1)
  BY <1>1, <1>2, PrefixSumsEquation
<1>4. SumsTo(PrefixSums(s), s, n)
  BY <1>1, PrefixSumsEquation DEF n
<1>5. SumsTo(PrefixSums(r), r, n)
  BY <1>1, <1>3 DEF SumsTo
<1>6. PrefixSums(r)[n] = PrefixSums(s)[n]
  <2>1. SameValues(r, s, n)
    BY <1>1 DEF SameValues
  <2> QED
    BY <1>1, <1>4, <1>5, <2>1, SumsUnique
<1>7. PrefixSums(r)[n + 1] = PrefixSums(r)[n] + u.value
  BY <1>1, <1>3 DEF SumsTo
<1>8. SumValues(r) = PrefixSums(r)[n + 1] /\ SumValues(s) = PrefixSums(s)[n]
  BY <1>1 DEF SumValues, n
<1> QED
  BY <1>6, <1>7, <1>8 DEF r

-----------------------------------------------------------------------------
(* Totals of finite sets.  MapThenSumSet takes the elements out in an order *)
(* that CHOOSE makes; the total does not depend on it.                      *)

\* Every element of S carries a natural number value.
ValuedSet(S) == IsFiniteSet(S) /\ \A u \in S : u.value \in Nat

\* The element MapThenSumSet takes from a set first.
Chosen(S) == CHOOSE x \in S : TRUE

\* f holds the totals of the subsets of S that have at most n elements.
TotalsTo(f, S, n) ==
    \A T \in SUBSET S : Cardinality(T) <= n =>
        f[T] = IF T = {} THEN 0 ELSE Chosen(T).value + f[T \ {Chosen(T)}]

\* Taking an element out of a subset leaves a smaller one.
LEMMA SubsetFacts ==
    ASSUME NEW S, ValuedSet(S), NEW T \in SUBSET S
    PROVE  /\ IsFiniteSet(T) /\ Cardinality(T) \in Nat /\ ValuedSet(T)
           /\ T = {} <=> Cardinality(T) = 0
           /\ \A x \in T : /\ x.value \in Nat /\ T \ {x} \in SUBSET S
                           /\ Cardinality(T \ {x}) = Cardinality(T) - 1
<1>1. IsFiniteSet(T) /\ Cardinality(T) \in Nat /\ ValuedSet(T)
  BY FS_Subset, FS_CardinalityType DEF ValuedSet
<1>2. T = {} <=> Cardinality(T) = 0
  BY <1>1, FS_EmptySet
<1>3. \A x \in T : Cardinality(T \ {x}) = Cardinality(T) - 1
  BY <1>1, FS_RemoveElement
<1> QED
  BY <1>1, <1>2, <1>3 DEF ValuedSet

LEMMA ChosenOut ==
    ASSUME NEW S, ValuedSet(S), NEW T \in SUBSET S, T # {}
    PROVE  /\ Chosen(T) \in T /\ Chosen(T).value \in Nat
           /\ T \ {Chosen(T)} \in SUBSET S
           /\ Cardinality(T) \in Nat
           /\ Cardinality(T \ {Chosen(T)}) = Cardinality(T) - 1
<1>1. Chosen(T) \in T
  BY DEF Chosen
<1> QED
  BY <1>1, SubsetFacts

LEMMA TotalsExist ==
    ASSUME NEW S, ValuedSet(S)
    PROVE  \E f \in [SUBSET S -> Nat] : TotalsTo(f, S, Cardinality(S))
<1> DEFINE K == {n \in Nat : \E f \in [SUBSET S -> Nat] : TotalsTo(f, S, n)}
           N == Cardinality(S)
<1>1. 0 \in K
  <2> DEFINE z == [T \in SUBSET S |-> 0]
  <2>1. TotalsTo(z, S, 0)
    <3> SUFFICES ASSUME NEW T \in SUBSET S, Cardinality(T) <= 0 PROVE T = {}
      BY DEF TotalsTo
    <3> QED
      BY SubsetFacts
  <2> QED
    BY <2>1
<1>2. ASSUME NEW k \in 0 .. N, k \in K PROVE k + 1 \in K
  <2>1. PICK f \in [SUBSET S -> Nat] : TotalsTo(f, S, k)
    BY <1>2
  <2> DEFINE g == [T \in SUBSET S |-> IF Cardinality(T) <= k THEN f[T]
                                      ELSE Chosen(T).value + f[T \ {Chosen(T)}]]
  <2>2. g \in [SUBSET S -> Nat]
    <3> SUFFICES ASSUME NEW T \in SUBSET S, ~(Cardinality(T) <= k)
                 PROVE  Chosen(T).value + f[T \ {Chosen(T)}] \in Nat
      OBVIOUS
    <3>1. T # {}
      BY SubsetFacts
    <3>2. Chosen(T).value \in Nat /\ f[T \ {Chosen(T)}] \in Nat
      BY <3>1, ChosenOut
    <3> QED
      BY <3>2
  <2>3. ASSUME NEW T \in SUBSET S, Cardinality(T) <= k + 1
        PROVE  g[T] = IF T = {} THEN 0 ELSE Chosen(T).value + g[T \ {Chosen(T)}]
    <3>1. CASE T = {}
      <4>1. Cardinality(T) <= k
        BY <3>1, SubsetFacts
      <4> QED
        BY <2>1, <3>1, <4>1 DEF TotalsTo
    <3>2. CASE T # {}
      <4> DEFINE R == T \ {Chosen(T)}
      <4>1. R \in SUBSET S /\ Cardinality(R) <= k
        BY <2>3, <3>2, ChosenOut
      <4>2. g[R] = f[R]
        BY <4>1
      <4>3. Cardinality(T) <= k => f[T] = Chosen(T).value + f[R]
        BY <2>1, <3>2 DEF TotalsTo
      <4>4. g[T] = Chosen(T).value + f[R]
        BY <4>3
      <4> QED
        BY <3>2, <4>2, <4>4
    <3> QED
      BY <3>1, <3>2
  <2> HIDE DEF g
  <2>4. TotalsTo(g, S, k + 1)
    BY <2>3 DEF TotalsTo
  <2>5. k + 1 \in Nat
    OBVIOUS
  <2> QED
    BY <2>2, <2>4, <2>5
<1>3. N \in Nat
  BY FS_CardinalityType DEF ValuedSet
<1> HIDE DEF K, N
<1>4. N \in K
  BY <1>1, <1>2, <1>3, InductionUpTo
<1> QED
  BY <1>4 DEF K, N

\* Total is computed by such a function.
LEMMA TotalComputed ==
    ASSUME NEW S, ValuedSet(S)
    PROVE  \E f \in [SUBSET S -> Nat] : TotalsTo(f, S, Cardinality(S)) /\ Total(S) = f[S]
<1> DEFINE Eq(h) == h = [T \in SUBSET S |->
                            IF T = {} THEN 0
                            ELSE LET x == CHOOSE x \in T : TRUE
                                 IN  x.value + h[T \ {x}]]
           g == CHOOSE h : Eq(h)
<1>1. PICK f \in [SUBSET S -> Nat] : TotalsTo(f, S, Cardinality(S))
  BY TotalsExist
<1>2. \A T \in SUBSET S : Cardinality(T) <= Cardinality(S)
  BY FS_Subset DEF ValuedSet
<1>3. Eq(f)
  BY <1>1, <1>2 DEF TotalsTo, Chosen
<1>4. Total(S) = g[S]
  BY DEF Total, MapThenSumSet, MapThenFoldSet
<1>5. Eq(g)
  BY <1>3
<1> HIDE DEF g
<1>6. TotalsTo(g, S, Cardinality(S))
  BY <1>5 DEF TotalsTo, Chosen
<1>7. g = [T \in SUBSET S |-> g[T]]
  BY <1>5
<1> DEFINE K == {n \in Nat : \A T \in SUBSET S : Cardinality(T) <= n => g[T] = f[T]}
           N == Cardinality(S)
<1>8. 0 \in K
  <2> SUFFICES ASSUME NEW T \in SUBSET S, Cardinality(T) <= 0 PROVE g[T] = f[T]
    OBVIOUS
  <2>1. T = {} /\ Cardinality(T) <= Cardinality(S)
    BY <1>2, SubsetFacts
  <2> QED
    BY <1>1, <1>6, <2>1 DEF TotalsTo
<1>9. ASSUME NEW k \in 0 .. N, k \in K, k < N PROVE k + 1 \in K
  <2> SUFFICES ASSUME NEW T \in SUBSET S, Cardinality(T) <= k + 1 PROVE g[T] = f[T]
    BY <1>9
  <2>1. CASE T = {}
    BY <1>1, <1>2, <1>6, <2>1 DEF TotalsTo
  <2>2. CASE T # {}
    <3>1. T \ {Chosen(T)} \in SUBSET S /\ Cardinality(T \ {Chosen(T)}) <= k
      BY <1>9, <2>2, ChosenOut
    <3>2. g[T \ {Chosen(T)}] = f[T \ {Chosen(T)}]
      BY <1>9, <3>1
    <3> QED
      BY <1>1, <1>2, <1>6, <2>2, <3>2 DEF TotalsTo
  <2> QED
    BY <2>1, <2>2
<1>10. N \in Nat
  BY FS_CardinalityType DEF ValuedSet
<1> HIDE DEF K, N
<1>11. N \in K
  BY <1>8, <1>9, <1>10, InductionUpTo
<1>12. g[S] = f[S]
  BY <1>11, <1>10 DEF K, N
<1> QED
  BY <1>1, <1>4, <1>12

\* The total of no elements.
LEMMA TotalEmpty == Total({}) = 0
<1>1. ValuedSet({}) /\ Cardinality({}) <= Cardinality({})
  BY FS_EmptySet DEF ValuedSet
<1> QED
  BY <1>1, TotalComputed DEF TotalsTo

LEMMA TotalInNat ==
    ASSUME NEW S, ValuedSet(S)
    PROVE  Total(S) \in Nat
<1>1. PICK f \in [SUBSET S -> Nat] : Total(S) = f[S]
  BY TotalComputed
<1>2. S \in SUBSET S
  OBVIOUS
<1> QED
  BY <1>1, <1>2

\* On the subsets of a set, the function that computes its total agrees with
\* their own totals.
LEMMA TotalsAgree ==
    ASSUME NEW S, ValuedSet(S), NEW f \in [SUBSET S -> Nat],
           TotalsTo(f, S, Cardinality(S)), NEW T \in SUBSET S
    PROVE  f[T] = Total(T)
<1>1. ValuedSet(T)
  BY SubsetFacts
<1>2. PICK g \in [SUBSET T -> Nat] : TotalsTo(g, T, Cardinality(T)) /\ Total(T) = g[T]
  BY <1>1, TotalComputed
<1>3. \A R \in SUBSET T : Cardinality(R) <= Cardinality(T) /\ Cardinality(R) <= Cardinality(S)
  BY FS_Subset, <1>1 DEF ValuedSet
<1> DEFINE K == {n \in Nat : \A R \in SUBSET T : Cardinality(R) <= n => g[R] = f[R]}
           N == Cardinality(T)
<1>4. 0 \in K
  <2> SUFFICES ASSUME NEW R \in SUBSET T, Cardinality(R) <= 0 PROVE g[R] = f[R]
    OBVIOUS
  <2>1. R = {}
    BY SubsetFacts
  <2> QED
    BY <1>2, <1>3, <2>1 DEF TotalsTo
<1>5. ASSUME NEW k \in 0 .. N, k \in K, k < N PROVE k + 1 \in K
  <2> SUFFICES ASSUME NEW R \in SUBSET T, Cardinality(R) <= k + 1 PROVE g[R] = f[R]
    BY <1>5
  <2>1. CASE R = {}
    BY <1>2, <1>3, <2>1 DEF TotalsTo
  <2>2. CASE R # {}
    <3>1. R \ {Chosen(R)} \in SUBSET T /\ Cardinality(R \ {Chosen(R)}) <= k
      BY <1>5, <2>2, ChosenOut
    <3>2. g[R \ {Chosen(R)}] = f[R \ {Chosen(R)}]
      BY <1>5, <3>1
    <3> QED
      BY <1>2, <1>3, <2>2, <3>2 DEF TotalsTo
  <2> QED
    BY <2>1, <2>2
<1>6. N \in Nat
  BY <1>1, FS_CardinalityType DEF ValuedSet
<1> HIDE DEF K, N
<1>7. N \in K
  BY <1>4, <1>5, <1>6, InductionUpTo
<1> QED
  BY <1>2, <1>6, <1>7 DEF K, N

\* The total is that of the first element and the rest ...
LEMMA TotalChosen ==
    ASSUME NEW S, ValuedSet(S), S # {}
    PROVE  Total(S) = Chosen(S).value + Total(S \ {Chosen(S)})
<1>1. PICK f \in [SUBSET S -> Nat] : TotalsTo(f, S, Cardinality(S)) /\ Total(S) = f[S]
  BY TotalComputed
<1>2. S \in SUBSET S /\ S \ {Chosen(S)} \in SUBSET S
  OBVIOUS
<1>4. Cardinality(S) <= Cardinality(S)
  BY FS_CardinalityType DEF ValuedSet
<1>3. f[S] = Chosen(S).value + f[S \ {Chosen(S)}]
  BY <1>1, <1>2, <1>4 DEF TotalsTo
<1>5. f[S \ {Chosen(S)}] = Total(S \ {Chosen(S)})
  BY <1>1, <1>2, TotalsAgree
<1> QED
  BY <1>1, <1>3, <1>5

\* ... and of any element and the rest: the order does not matter.
LEMMA TotalRemove ==
    ASSUME NEW S, ValuedSet(S), NEW x \in S
    PROVE  Total(S) = x.value + Total(S \ {x})
<1> DEFINE K == {n \in Nat : \A T \in SUBSET S : Cardinality(T) <= n =>
                    \A y \in T : Total(T) = y.value + Total(T \ {y})}
           N == Cardinality(S)
<1>1. 0 \in K
  BY SubsetFacts
<1>2. ASSUME NEW k \in 0 .. N, k \in K, k < N PROVE k + 1 \in K
  <2> SUFFICES ASSUME NEW T \in SUBSET S, Cardinality(T) <= k + 1, NEW y \in T
               PROVE  Total(T) = y.value + Total(T \ {y})
    BY <1>2
  <2> DEFINE c == Chosen(T)
  <2>1. /\ c \in T /\ T \ {c} \in SUBSET S /\ Cardinality(T \ {c}) <= k
        /\ T \ {y} \in SUBSET S /\ Cardinality(T \ {y}) <= k
        /\ c.value \in Nat /\ y.value \in Nat
    BY ChosenOut, SubsetFacts
  <2>2. Total(T) = c.value + Total(T \ {c})
    BY TotalChosen, SubsetFacts
  <2> HIDE DEF c
  <2>3. CASE c = y
    BY <2>2, <2>3
  <2>4. CASE c # y
    <3>1. Total(T \ {c}) = y.value + Total((T \ {c}) \ {y})
      BY <1>2, <2>1, <2>4
    <3>2. Total(T \ {y}) = c.value + Total((T \ {y}) \ {c})
      BY <1>2, <2>1, <2>4
    <3>3. (T \ {y}) \ {c} = (T \ {c}) \ {y}
      OBVIOUS
    <3>4. Total((T \ {c}) \ {y}) \in Nat
      <4>1. (T \ {c}) \ {y} \in SUBSET S
        OBVIOUS
      <4> QED
        BY <4>1, SubsetFacts, TotalInNat
    <3>5. Total(T \ {y}) = c.value + Total((T \ {c}) \ {y})
      BY <3>2, <3>3
    <3> QED
      BY <2>1, <2>2, <3>1, <3>4, <3>5
  <2> QED
    BY <2>3, <2>4
<1>3. N \in Nat /\ S \in SUBSET S /\ Cardinality(S) <= N
  BY FS_CardinalityType DEF ValuedSet
<1> HIDE DEF K, N
<1>4. N \in K
  BY <1>1, <1>2, <1>3, InductionUpTo
<1> QED
  BY <1>3, <1>4 DEF K, N

LEMMA TotalAdd ==
    ASSUME NEW S, ValuedSet(S), NEW x, x \notin S, x.value \in Nat
    PROVE  ValuedSet(S \cup {x}) /\ Total(S \cup {x}) = Total(S) + x.value
<1>1. ValuedSet(S \cup {x})
  BY FS_AddElement DEF ValuedSet
<1>2. (S \cup {x}) \ {x} = S
  OBVIOUS
<1>3. Total(S \cup {x}) = x.value + Total(S)
  BY <1>1, <1>2, TotalRemove
<1> QED
  BY <1>1, <1>3, TotalInNat

LEMMA TotalSingle ==
    ASSUME NEW x, x.value \in Nat
    PROVE  ValuedSet({x}) /\ Total({x}) = x.value
<1>1. ValuedSet({}) /\ {} \cup {x} = {x}
  BY FS_EmptySet DEF ValuedSet
<1> QED
  BY <1>1, TotalAdd, TotalEmpty

\* The totals of disjoint sets add up.
LEMMA TotalUnion ==
    ASSUME NEW S, NEW T, ValuedSet(S), ValuedSet(T), S \cap T = {}
    PROVE  ValuedSet(S \cup T) /\ Total(S \cup T) = Total(S) + Total(T)
<1>1. ValuedSet(S \cup T)
  BY FS_Union DEF ValuedSet
<1> DEFINE K == {n \in Nat : \A R \in SUBSET T : Cardinality(R) <= n =>
                                Total(S \cup R) = Total(S) + Total(R)}
           N == Cardinality(T)
<1>2. 0 \in K
  <2> SUFFICES ASSUME NEW R \in SUBSET T, Cardinality(R) <= 0
               PROVE  Total(S \cup R) = Total(S) + Total(R)
    OBVIOUS
  <2>1. R = {} /\ S \cup R = S
    BY SubsetFacts
  <2> QED
    BY <2>1, TotalEmpty, TotalInNat
<1>3. ASSUME NEW k \in 0 .. N, k \in K, k < N PROVE k + 1 \in K
  <2> SUFFICES ASSUME NEW R \in SUBSET T, Cardinality(R) <= k + 1
               PROVE  Total(S \cup R) = Total(S) + Total(R)
    BY <1>3
  <2>1. CASE R = {}
    <3>1. S \cup R = S
      BY <2>1
    <3> QED
      BY <2>1, <3>1, TotalEmpty, TotalInNat
  <2>2. CASE R # {}
    <3> DEFINE c == Chosen(R)
    <3>1. c \in R /\ c.value \in Nat /\ R \ {c} \in SUBSET T /\ Cardinality(R \ {c}) <= k
      BY <1>3, <2>2, ChosenOut
    <3>2. ValuedSet(R) /\ ValuedSet(R \ {c}) /\ ValuedSet(S \cup R)
      <4>1. S \cup R \in SUBSET (S \cup T)
        OBVIOUS
      <4> QED
        BY <1>1, <3>1, <4>1, SubsetFacts
    <3>3. Total(R) = c.value + Total(R \ {c})
      BY <2>2, <3>2, TotalChosen
    <3> HIDE DEF c
    <3>4. (S \cup R) \ {c} = S \cup (R \ {c}) /\ c \in S \cup R
      BY <3>1
    <3>5. Total(S \cup R) = c.value + Total(S \cup (R \ {c}))
      BY <3>2, <3>4, TotalRemove
    <3>6. Total(S \cup (R \ {c})) = Total(S) + Total(R \ {c})
      BY <1>3, <3>1
    <3>7. Total(S) \in Nat /\ Total(R \ {c}) \in Nat
      BY <3>2, TotalInNat
    <3> QED
      BY <3>1, <3>3, <3>5, <3>6, <3>7
  <2> QED
    BY <2>1, <2>2
<1>4. N \in Nat /\ T \in SUBSET T /\ Cardinality(T) <= N
  BY FS_CardinalityType DEF ValuedSet
<1> HIDE DEF K, N
<1>5. N \in K
  BY <1>2, <1>3, <1>4, InductionUpTo
<1> QED
  BY <1>1, <1>4, <1>5 DEF K, N

\* A subset is worth at most as much, and the rest is the difference.
LEMMA TotalSubset ==
    ASSUME NEW S, ValuedSet(S), NEW T \in SUBSET S
    PROVE  /\ ValuedSet(T) /\ ValuedSet(S \ T)
           /\ Total(S) = Total(T) + Total(S \ T)
           /\ Total(T) <= Total(S)
<1>1. ValuedSet(T) /\ ValuedSet(S \ T)
  <2>1. S \ T \in SUBSET S
    OBVIOUS
  <2> QED
    BY <2>1, SubsetFacts
<1>2. T \cap (S \ T) = {} /\ T \cup (S \ T) = S
  OBVIOUS
<1>3. Total(S) = Total(T) + Total(S \ T)
  BY <1>1, <1>2, TotalUnion
<1> QED
  BY <1>1, <1>3, TotalInNat

\* The values of a function at finitely many arguments are finitely many.
LEMMA ImageFinite ==
    ASSUME NEW C, IsFiniteSet(C), NEW f
    PROVE  IsFiniteSet({f[c] : c \in C})
<1> DEFINE R == {f[c] : c \in C}
           g == [c \in C |-> f[c]]
<1>1. g \in Surjection(C, R)
  BY DEF Surjection
<1> QED
  BY <1>1, FS_Surjection

\* The values of f, one line for each member of C.
Lines(C, f) == {[id |-> c, value |-> f[c]] : c \in C}

LEMMA LinesValued ==
    ASSUME NEW C, IsFiniteSet(C), NEW f, \A c \in C : f[c] \in Nat
    PROVE  ValuedSet(Lines(C, f))
<1> DEFINE g == [c \in C |-> [id |-> c, value |-> f[c]]]
<1>1. IsFiniteSet({g[c] : c \in C})
  BY ImageFinite
<1>2. Lines(C, f) = {g[c] : c \in C}
  BY DEF Lines
<1>3. \A u \in Lines(C, f) : u.value \in Nat
  BY DEF Lines
<1> QED
  BY <1>1, <1>2, <1>3 DEF ValuedSet

\* A member that joins adds its value to the total of the lines.
LEMMA LinesJoin ==
    ASSUME NEW C, IsFiniteSet(C), NEW c, c \notin C, NEW f, NEW g,
           \A d \in C : f[d] \in Nat /\ g[d] = f[d], g[c] \in Nat
    PROVE  Total(Lines(C \cup {c}, g)) = Total(Lines(C, f)) + g[c]
<1> DEFINE line == [id |-> c, value |-> g[c]]
<1>1. ValuedSet(Lines(C, f))
  BY LinesValued
<1>2. Lines(C \cup {c}, g) = Lines(C, f) \cup {line}
  BY DEF Lines
<1>3. line \notin Lines(C, f) /\ line.value = g[c]
  BY DEF Lines
<1> HIDE DEF line
<1> QED
  BY <1>1, <1>2, <1>3, TotalAdd

\* When the value of one member changes, the total changes by as much.
LEMMA LinesChange ==
    ASSUME NEW C, IsFiniteSet(C), NEW c \in C, NEW f, NEW g,
           \A d \in C : f[d] \in Nat, \A d \in C \ {c} : g[d] = f[d], g[c] \in Nat
    PROVE  /\ Total(Lines(C, g)) = Total(Lines(C, f)) - f[c] + g[c]
           /\ Total(Lines(C, f)) \in Nat
<1> DEFINE R == C \ {c}
<1>1. IsFiniteSet(R) /\ c \notin R /\ C = R \cup {c} /\ \A d \in R : f[d] \in Nat /\ g[d] = f[d]
  BY FS_RemoveElement
<1>2. f[c] \in Nat /\ g[c] \in Nat
  OBVIOUS
<1> HIDE DEF R
<1>3. Total(Lines(R \cup {c}, g)) = Total(Lines(R, f)) + g[c]
  BY <1>1, <1>2, LinesJoin
<1>4. Total(Lines(R \cup {c}, f)) = Total(Lines(R, f)) + f[c]
  BY <1>1, <1>2, LinesJoin
<1>5. Total(Lines(R, f)) \in Nat
  BY <1>1, LinesValued, TotalInNat
<1> QED
  BY <1>1, <1>2, <1>3, <1>4, <1>5

\* A list without repetitions is worth what the set of its elements is worth.
LEMMA SumIsTotal ==
    ASSUME NEW s, Len(s) \in Nat, Valued(s),
           \A i, j \in 1 .. Len(s) : s[i] = s[j] => i = j
    PROVE  LET S == {s[i] : i \in 1 .. Len(s)}
           IN  ValuedSet(S) /\ Total(S) = SumValues(s) /\ Cardinality(S) = Len(s)
<1> DEFINE n == Len(s)
           Upto(k) == {s[i] : i \in 1 .. k}
           ps == PrefixSums(s)
           K == {k \in Nat : /\ ValuedSet(Upto(k)) /\ Total(Upto(k)) = ps[k]
                             /\ Cardinality(Upto(k)) = k}
<1>1. SumsTo(ps, s, n)
  BY PrefixSumsEquation
<1>2. n \in Nat /\ \A i \in 1 .. n : s[i].value \in Nat
  BY DEF Valued
<1> HIDE DEF n, ps
<1>3. 0 \in K
  <2>1. Upto(0) = {}
    OBVIOUS
  <2>2. ValuedSet({}) /\ Cardinality({}) = 0
    BY FS_EmptySet DEF ValuedSet
  <2>3. ps[0] = 0
    BY <1>1, <1>2 DEF SumsTo
  <2> HIDE DEF Upto
  <2> QED
    BY <2>1, <2>2, <2>3, TotalEmpty
<1>4. ASSUME NEW k \in 0 .. n, k \in K, k < n PROVE k + 1 \in K
  <2>1. k + 1 \in 1 .. n /\ s[k + 1].value \in Nat
    BY <1>2, <1>4
  <2>2. Upto(k + 1) = Upto(k) \cup {s[k + 1]}
    <3>1. 1 .. (k + 1) = (1 .. k) \cup {k + 1}
      OBVIOUS
    <3> QED
      BY <3>1
  <2>3. s[k + 1] \notin Upto(k)
    <3> SUFFICES ASSUME NEW i \in 1 .. k, s[i] = s[k + 1] PROVE FALSE
      OBVIOUS
    <3>1. i \in 1 .. n /\ i # k + 1
      BY <1>2, <1>4
    <3> QED
      BY <2>1, <3>1 DEF n
  <2>4. ps[k + 1] = ps[k] + s[k + 1].value
    BY <1>1, <2>1 DEF SumsTo
  <2>5. ValuedSet(Upto(k)) /\ Total(Upto(k)) = ps[k] /\ Cardinality(Upto(k)) = k
    BY <1>4
  <2> HIDE DEF Upto
  <2>6. /\ ValuedSet(Upto(k + 1))
        /\ Total(Upto(k + 1)) = Total(Upto(k)) + s[k + 1].value
    BY <2>1, <2>2, <2>3, <2>5, TotalAdd
  <2>7. Cardinality(Upto(k + 1)) = k + 1
    BY <2>2, <2>3, <2>5, FS_AddElement DEF ValuedSet
  <2> QED
    BY <2>4, <2>5, <2>6, <2>7
<1> HIDE DEF K
<1>5. n \in Nat /\ n \in 0 .. n
  BY <1>2
<1>6. \A k \in 0 .. n : k \in K
  BY <1>3, <1>4, <1>5, InductionUpTo
<1> QED
  BY <1>5, <1>6 DEF K, n, ps, SumValues

\* A set is worth no more than another that has at least as many elements,
\* each worth at least as much.
LEMMA TotalDominated ==
    ASSUME NEW A, NEW B, ValuedSet(A), ValuedSet(B), Cardinality(A) <= Cardinality(B),
           \A a \in A, b \in B : a.value <= b.value
    PROVE  Total(A) <= Total(B)
<1> DEFINE K == {n \in Nat : \A S \in SUBSET A, R \in SUBSET B :
                    Cardinality(S) <= n /\ Cardinality(S) <= Cardinality(R)
                        => Total(S) <= Total(R)}
           N == Cardinality(A)
<1>1. 0 \in K
  <2> SUFFICES ASSUME NEW S \in SUBSET A, NEW R \in SUBSET B, Cardinality(S) <= 0
               PROVE  Total(S) <= Total(R)
    OBVIOUS
  <2>1. S = {} /\ ValuedSet(R)
    BY SubsetFacts
  <2> QED
    BY <2>1, TotalEmpty, TotalInNat
<1>2. ASSUME NEW k \in 0 .. N, k \in K, k < N PROVE k + 1 \in K
  <2> SUFFICES ASSUME NEW S \in SUBSET A, NEW R \in SUBSET B,
                      Cardinality(S) <= k + 1, Cardinality(S) <= Cardinality(R)
               PROVE  Total(S) <= Total(R)
    BY <1>2
  <2>1. ValuedSet(S) /\ ValuedSet(R) /\ Cardinality(S) \in Nat /\ Cardinality(R) \in Nat
    BY SubsetFacts
  <2>2. CASE S = {}
    BY <2>1, <2>2, TotalEmpty, TotalInNat
  <2>3. CASE S # {}
    <3>1. Cardinality(S) # 0
      BY <2>3, SubsetFacts
    <3>2. R # {}
      <4> SUFFICES ASSUME R = {} PROVE FALSE
        OBVIOUS
      <4>1. Cardinality(R) = 0
        BY SubsetFacts
      <4> QED
        BY <2>1, <3>1, <4>1
    <3>3. PICK a \in S, b \in R : a.value <= b.value
      BY <2>3, <3>2
    <3>4. /\ S \ {a} \in SUBSET A /\ Cardinality(S \ {a}) = Cardinality(S) - 1
          /\ R \ {b} \in SUBSET B /\ Cardinality(R \ {b}) = Cardinality(R) - 1
          /\ a.value \in Nat /\ b.value \in Nat
      BY SubsetFacts
    <3>5. Total(S \ {a}) <= Total(R \ {b})
      BY <1>2, <2>1, <3>4
    <3>6. Total(S) = a.value + Total(S \ {a}) /\ Total(R) = b.value + Total(R \ {b})
      BY <2>1, TotalRemove
    <3>7. Total(S \ {a}) \in Nat /\ Total(R \ {b}) \in Nat
      <4>1. ValuedSet(S \ {a}) /\ ValuedSet(R \ {b})
        BY <3>4, SubsetFacts
      <4> QED
        BY <4>1, TotalInNat
    <3> QED
      BY <3>3, <3>4, <3>5, <3>6, <3>7
  <2> QED
    BY <2>2, <2>3
<1>3. N \in Nat /\ A \in SUBSET A /\ B \in SUBSET B /\ Cardinality(A) <= N
  BY FS_CardinalityType DEF ValuedSet
<1> HIDE DEF K, N
<1>4. N \in K
  BY <1>1, <1>2, <1>3, InductionUpTo
<1> QED
  BY <1>3, <1>4 DEF K, N

\* The largest elements are worth the most: no other subset of E with as few
\* elements is worth more.
LEMMA LargestAreWorthMost ==
    ASSUME NEW E, ValuedSet(E), NEW S \in SUBSET E, LargestFirst(S, E),
           NEW R \in SUBSET E, Cardinality(R) <= Cardinality(S)
    PROVE  Total(R) <= Total(S)
<1> DEFINE C == R \cap S
<1>1. /\ ValuedSet(R) /\ ValuedSet(S) /\ C \in SUBSET R /\ C \in SUBSET S
      /\ R \ S = R \ C /\ S \ R = S \ C
  BY SubsetFacts
<1>2. Total(R) = Total(C) + Total(R \ S) /\ Total(S) = Total(C) + Total(S \ R)
  BY <1>1, TotalSubset
<1>3. ValuedSet(R \ S) /\ ValuedSet(S \ R) /\ ValuedSet(C)
  BY <1>1, TotalSubset
<1>4. Cardinality(R \ S) <= Cardinality(S \ R)
  <2>1. Cardinality(R \ S) = Cardinality(R) - Cardinality(R \cap S)
    BY <1>1, FS_Difference DEF ValuedSet
  <2>2. Cardinality(S \ R) = Cardinality(S) - Cardinality(S \cap R)
    BY <1>1, FS_Difference DEF ValuedSet
  <2>3. S \cap R = R \cap S
    OBVIOUS
  <2>4. Cardinality(R) \in Nat /\ Cardinality(S) \in Nat /\ Cardinality(R \cap S) \in Nat
    BY <1>1, <1>3, FS_CardinalityType DEF ValuedSet
  <2>5. Cardinality(S \ R) = Cardinality(S) - Cardinality(R \cap S)
    BY <2>2, <2>3
  <2> QED
    BY <2>1, <2>4, <2>5
<1>5. \A a \in R \ S, b \in S \ R : a.value <= b.value
  <2> SUFFICES ASSUME NEW a \in R \ S, NEW b \in S \ R PROVE a.value <= b.value
    OBVIOUS
  <2>1. b.value >= a.value
    BY DEF LargestFirst
  <2> QED
    BY <2>1 DEF ValuedSet
<1>6. Total(R \ S) <= Total(S \ R)
  BY <1>3, <1>4, <1>5, TotalDominated
<1>7. Total(R \ S) \in Nat /\ Total(S \ R) \in Nat /\ Total(C) \in Nat
  BY <1>3, TotalInNat
<1> QED
  BY <1>2, <1>6, <1>7

\* What the selection may choose has the fewest UTXOs that cover a positive
\* requirement.
THEOREM SelectionsAreSmallest ==
    ASSUME NEW E, ValuedSet(E), NEW required \in Nat \ {0},
           NEW S \in Selections(E, required), NEW R \in SUBSET E, Total(R) >= required
    PROVE  Cardinality(S) <= Cardinality(R)
<1>1. ValuedSet(R) /\ Cardinality(R) \in Nat
  BY SubsetFacts
<1>2. Cardinality(R) >= 1
  <2>1. R # {}
    BY TotalEmpty
  <2> QED
    BY <1>1, <2>1, SubsetFacts
<1>3. ASSUME NEW u, S = {u} PROVE Cardinality(S) <= Cardinality(R)
  BY <1>1, <1>2, <1>3, FS_Singleton
<1>4. CASE S \in GreedySelections(E, required)
  <2>1. /\ S \in SUBSET E /\ LargestFirst(S, E)
        /\ S = {} \/ StopsAt(S, required)
    BY <1>4 DEF GreedySelections
  <2>2. CASE S = {}
    BY <1>1, <2>2, FS_EmptySet
  <2>3. CASE StopsAt(S, required)
    <3>1. PICK last \in S : /\ \A u \in S : u.value >= last.value
                            /\ S = {last} \/ Total(S \ {last}) < required
      BY <2>3 DEF StopsAt
    <3>2. CASE S = {last}
      BY <1>3, <3>2
    <3>3. CASE Total(S \ {last}) < required
      <4> DEFINE T == S \ {last}
      <4>1. T \in SUBSET E /\ Cardinality(S) = Cardinality(T) + 1 /\ Cardinality(S) \in Nat
        <5>1. S \in SUBSET E /\ last \in S
          BY <2>1, <3>1
        <5>2. IsFiniteSet(S) /\ Cardinality(S) \in Nat
          BY <5>1, SubsetFacts
        <5>3. Cardinality(S \ {last}) = Cardinality(S) - 1
          BY <5>1, <5>2, FS_RemoveElement
        <5> QED
          BY <5>1, <5>2, <5>3
      <4>2. LargestFirst(T, E)
        <5> SUFFICES ASSUME NEW u \in T, NEW w \in E \ T PROVE u.value >= w.value
          BY DEF LargestFirst
        <5>1. CASE w = last
          BY <3>1, <5>1
        <5>2. CASE w # last
          BY <2>1, <5>2 DEF LargestFirst
        <5> QED
          BY <5>1, <5>2
      <4>3. ValuedSet(T) /\ Cardinality(T) \in Nat
        BY <4>1, SubsetFacts
      <4>4. Total(T) \in Nat /\ Total(R) \in Nat /\ Total(T) < required
        BY <1>1, <3>3, <4>3, TotalInNat
      <4> HIDE DEF T
      <4>5. ~(Cardinality(R) <= Cardinality(T))
        <5> SUFFICES ASSUME Cardinality(R) <= Cardinality(T) PROVE FALSE
          OBVIOUS
        <5>1. Total(R) <= Total(T)
          BY <4>1, <4>2, LargestAreWorthMost
        <5> QED
          BY <4>4, <5>1
      <4> QED
        BY <1>1, <4>1, <4>3, <4>5
    <3> QED
      BY <3>1, <3>2, <3>3
  <2> QED
    BY <2>1, <2>2, <2>3
<1> QED
  BY <1>3, <1>4 DEF Selections

=============================================================================
