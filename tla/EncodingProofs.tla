--------------------------- MODULE EncodingProofs ---------------------------
(***************************************************************************)
(* What is written is read back.  Of the SCALE serializers, whatever       *)
(* follows it: the compact integer, byte strings, lists, options and       *)
(* enumerations, then every structure of tx/scale.py from a UTXO to a      *)
(* transaction.  Of the Bech32m addresses: the checksum, the groups of     *)
(* bits, the characters, then the texts of a behaviour, and what becomes   *)
(* of one that was mistyped.                                               *)
(***************************************************************************)
EXTENDS Bech32m, ScaleEncoding, OperatorProofs, SequenceTheorems

-----------------------------------------------------------------------------
(* Compact integers: whatever follows, the decoder reads back the integer  *)
(* and stops at its end.                                                   *)

\* A number below 2^30 is the sum of its low six bits and three bytes.
LEMMA SplitNumber ==
    ASSUME NEW val \in Nat, val < 1073741824
    PROVE  /\ val % 64 \in 0 .. 63
           /\ (val \div 64) % 256 \in Byte
           /\ (val \div 16384) % 256 \in Byte
           /\ val \div 4194304 \in Byte
           /\ val = (val % 64) + 64 * ((val \div 64) % 256)
                    + 16384 * ((val \div 16384) % 256) + 4194304 * (val \div 4194304)
<1>1. val % 64 \in 0 .. 63 /\ (val \div 64) % 256 \in Byte /\ (val \div 16384) % 256 \in Byte
    BY SMT DEF Byte
<1>2. val \div 4194304 \in Byte
    BY SMT DEF Byte
<1>3. val = (val % 64) + 64 * ((val \div 64) % 256) + 16384 * (val \div 16384)
    BY SMT
<1>4. val \div 16384 = ((val \div 16384) % 256) + 256 * (val \div 4194304)
    BY SMT
<1>5. val = (val % 64) + 64 * ((val \div 64) % 256)
                     + 16384 * ((val \div 16384) % 256) + 4194304 * (val \div 4194304)
    BY SMT, <1>3, <1>4
<1> QED
    BY SMT, <1>1, <1>2, <1>5

\* One byte below 64.
LEMMA OneByte ==
    ASSUME NEW val \in Nat, val < 64, NEW rest \in Seq(Nat)
    PROVE  DecodeScaleInt(EncodeScaleInt(val) \o rest)
                = [ok |-> TRUE, value |-> val, size |-> 1]
<1> DEFINE first == 4 * val
           s == <<first>> \o rest
<1>1. EncodeScaleInt(val) = <<first>>
    BY SMT DEF EncodeScaleInt, EncodeSmall
<1>2. s # <<>> /\ s[1] = first /\ Len(s) >= 1
    BY SMT
<1>3. first \in Byte /\ first % 4 = 0 /\ first \div 4 = val
    BY SMT DEF Byte
<1>4. CompactSize(s[1]) = 1
    BY SMT, <1>2, <1>3 DEF CompactSize
<1>5. EncodeScaleInt(val) \o rest = s
    BY SMT, <1>1
<1> HIDE DEF first, s
<1>6. DecodeScaleInt(s) = [ok |-> TRUE, value |-> DecodedValue(s), size |-> 1]
    BY SMT, <1>2, <1>3, <1>4 DEF DecodeScaleInt
<1>7. DecodedValue(s) = val
    BY SMT, <1>2, <1>3 DEF DecodedValue
<1> QED
    BY <1>5, <1>6, <1>7

\* Two bytes below 16384.
LEMMA TwoBytes ==
    ASSUME NEW val \in Nat, 64 <= val, val < 16384, NEW rest \in Seq(Nat)
    PROVE  DecodeScaleInt(EncodeScaleInt(val) \o rest)
                = [ok |-> TRUE, value |-> val, size |-> 2]
<1> DEFINE first == 4 * (val % 64) + 1
           s == <<first, val \div 64>> \o rest
<1>1. EncodeScaleInt(val) = <<first, val \div 64>>
    BY SMT DEF EncodeScaleInt, EncodeSmall
<1>2. s # <<>> /\ s[1] = first /\ s[2] = val \div 64 /\ Len(s) >= 2
    BY SMT
<1>3. /\ first \in Byte /\ first % 4 = 1 /\ first \div 4 = val % 64
      /\ val \div 64 \in Byte
      /\ val = (val % 64) + 64 * (val \div 64)
    BY SMT DEF Byte
<1>4. CompactSize(s[1]) = 2
    BY SMT, <1>2, <1>3 DEF CompactSize
<1>7. EncodeScaleInt(val) \o rest = s
    BY SMT, <1>1
<1> HIDE DEF first, s
<1>5. DecodeScaleInt(s) = [ok |-> TRUE, value |-> DecodedValue(s), size |-> 2]
    BY SMT, <1>2, <1>3, <1>4 DEF DecodeScaleInt
<1>6. DecodedValue(s) = val
    BY SMT, <1>2, <1>3 DEF DecodedValue
<1> QED
    BY <1>5, <1>6, <1>7

\* Four bytes below 2^30.
LEMMA FourBytes ==
    ASSUME NEW val \in Nat, 16384 <= val, val < 1073741824, NEW rest \in Seq(Nat)
    PROVE  DecodeScaleInt(EncodeScaleInt(val) \o rest)
                = [ok |-> TRUE, value |-> val, size |-> 4]
<1> DEFINE first == 4 * (val % 64) + 2
           second == (val \div 64) % 256
           third == (val \div 16384) % 256
           fourth == val \div 4194304
           s == <<first, second, third, fourth>> \o rest
<1>1. EncodeScaleInt(val) = <<first, second, third, fourth>>
    BY SMT DEF EncodeScaleInt, EncodeSmall
<1>2. /\ s # <<>> /\ Len(s) >= 4
      /\ s[1] = first /\ s[2] = second /\ s[3] = third /\ s[4] = fourth
    BY SMT
<1>3. /\ second \in Byte /\ third \in Byte /\ fourth \in Byte
      /\ val = (val % 64) + 64 * second + 16384 * third + 4194304 * fourth
    BY SMT, SplitNumber
<1>4. first \in Byte /\ first % 4 = 2 /\ first \div 4 = val % 64
    BY SMT, SplitNumber DEF Byte
<1>5. CompactSize(s[1]) = 4
    BY SMT, <1>2, <1>4 DEF CompactSize
<1>8. EncodeScaleInt(val) \o rest = s
    BY SMT, <1>1
<1> HIDE DEF first, second, third, fourth, s
<1>6. DecodeScaleInt(s) = [ok |-> TRUE, value |-> DecodedValue(s), size |-> 4]
    BY SMT, <1>2, <1>3, <1>4, <1>5 DEF DecodeScaleInt
<1>7. DecodedValue(s) = val
    BY SMT, <1>2, <1>3, <1>4 DEF DecodedValue
<1> QED
    BY <1>6, <1>7, <1>8

\* Every number below 2^30 is read back.
LEMMA SmallRoundTrip ==
    ASSUME NEW val \in Nat, val < 1073741824, NEW rest \in Seq(Nat)
    PROVE  DecodeScaleInt(EncodeScaleInt(val) \o rest)
                = [ok |-> TRUE, value |-> val, size |-> Len(EncodeScaleInt(val))]
<1>1. CASE val < 64
    <2>1. Len(EncodeScaleInt(val)) = 1
        BY SMT, <1>1 DEF EncodeScaleInt, EncodeSmall
    <2> QED
        BY SMT, <1>1, <2>1, OneByte
<1>2. CASE 64 <= val /\ val < 16384
    <2>1. Len(EncodeScaleInt(val)) = 2
        BY SMT, <1>2 DEF EncodeScaleInt, EncodeSmall
    <2> QED
        BY SMT, <1>2, <2>1, TwoBytes
<1>3. CASE 16384 <= val
    <2>1. Len(EncodeScaleInt(val)) = 4
        BY SMT, <1>3 DEF EncodeScaleInt, EncodeSmall
    <2> QED
        BY SMT, <1>3, <2>1, FourBytes
<1> QED
    BY SMT, <1>1, <1>2, <1>3

\* The digits of a number are its lowest and those of the rest
\* (the while loop of encode_scale_int).
LEMMA DigitsEquation ==
    \A n \in Nat : LittleEndian[n] = IF n = 0 THEN <<>>
                                     ELSE <<n % 256>> \o LittleEndian[n \div 256]
<1> DEFINE Eq(f, m) == f = [n \in 0 .. m |-> IF n = 0 THEN <<>>
                                             ELSE <<n % 256>> \o f[n \div 256]]
<1>1. ASSUME NEW m \in Nat PROVE \E f : Eq(f, m)
  <2> DEFINE S == {k \in 0 .. m : \E f : Eq(f, k)}
  <2>1. 0 \in S
    <3>1. Eq([n \in 0 .. 0 |-> <<>>], 0)
      OBVIOUS
    <3> HIDE DEF Eq
    <3> QED
      BY <3>1
  <2>2. ASSUME NEW k \in 0 .. m, k \in S, k < m PROVE k + 1 \in S
    <3>1. PICK f : Eq(f, k)
      BY <2>2
    <3> DEFINE last == <<(k + 1) % 256>> \o f[(k + 1) \div 256]
               g == [n \in 0 .. (k + 1) |-> IF n = k + 1 THEN last ELSE f[n]]
    <3>2. \A n \in 0 .. (k + 1) :
              g[n] = IF n = 0 THEN <<>> ELSE <<n % 256>> \o g[n \div 256]
      <4> SUFFICES ASSUME NEW n \in 0 .. (k + 1)
                   PROVE  g[n] = IF n = 0 THEN <<>> ELSE <<n % 256>> \o g[n \div 256]
        OBVIOUS
      <4>1. n # 0 => n \div 256 \in 0 .. k /\ n \div 256 # k + 1
        OBVIOUS
      <4>2. n # 0 => g[n \div 256] = f[n \div 256]
        BY <4>1
      <4>3. CASE n = k + 1
        <5>1. g[n] = last /\ n # 0
          BY <4>3
        <5> HIDE DEF g
        <5> QED
          BY <4>2, <4>3, <5>1
      <4>4. CASE n # k + 1
        <5>1. n \in 0 .. k /\ g[n] = f[n]
          BY <4>4
        <5>2. f[n] = IF n = 0 THEN <<>> ELSE <<n % 256>> \o f[n \div 256]
          BY <3>1, <5>1, ZenonT(30)
        <5> HIDE DEF g
        <5> QED
          BY <4>2, <5>1, <5>2
      <4> QED
        BY <4>3, <4>4
    <3>3. Eq(g, k + 1)
      <4>1. g = [n \in 0 .. (k + 1) |-> g[n]]
        OBVIOUS
      <4> HIDE DEF g
      <4> QED
        BY <3>2, <4>1, ZenonT(30)
    <3> HIDE DEF Eq
    <3> QED
      BY <2>2, <3>3
  <2>3. m \in S
    <3> HIDE DEF S
    <3> QED
      BY <2>1, <2>2, InductionUpTo
  <2> QED
    BY <2>3
<1> DEFINE F(m) == CHOOSE f : Eq(f, m)
<1>2. \A m \in Nat : Eq(F(m), m)
  <2> HIDE DEF Eq
  <2> QED
    BY <1>1
<1> HIDE DEF F
<1>3. \A m \in Nat : \A n \in 0 .. m :
          F(m)[n] = IF n = 0 THEN <<>> ELSE <<n % 256>> \o F(m)[n \div 256]
  <2> SUFFICES ASSUME NEW m \in Nat, NEW n \in 0 .. m
               PROVE  F(m)[n] = IF n = 0 THEN <<>> ELSE <<n % 256>> \o F(m)[n \div 256]
    OBVIOUS
  <2>1. Eq(F(m), m)
    BY <1>2
  <2> QED
    BY <2>1, ZenonT(30)
<1>4. \A n \in Nat : \A m \in Nat : n <= m => F(m)[n] = F(n)[n]
  <2> DEFINE Bad == {n \in Nat : \E m \in Nat : n <= m /\ F(m)[n] # F(n)[n]}
  <2> SUFFICES ASSUME Bad # {} PROVE FALSE
    OBVIOUS
  <2>1. PICK n \in Bad : \A k \in Bad : n <= k
    <3>1. Bad \in SUBSET Nat
      OBVIOUS
    <3> HIDE DEF Bad
    <3> QED
      BY <3>1, LeastNatural
  <2>2. PICK m \in Nat : n <= m /\ F(m)[n] # F(n)[n]
    BY <2>1
  <2>5. n \in Nat /\ n \in 0 .. m /\ n \in 0 .. n
    BY <2>1, <2>2
  <2>6. /\ F(m)[n] = IF n = 0 THEN <<>> ELSE <<n % 256>> \o F(m)[n \div 256]
        /\ F(n)[n] = IF n = 0 THEN <<>> ELSE <<n % 256>> \o F(n)[n \div 256]
    <3> HIDE DEF Bad
    <3> QED
      BY <1>3, <2>5
  <2>3. CASE n = 0
    BY <2>2, <2>3, <2>6
  <2>4. CASE n # 0
    <3> DEFINE h == n \div 256
    <3>1. h \in Nat /\ h < n /\ h <= m /\ n \in Nat
      BY <2>2, <2>4
    <3>2. h \notin Bad
      BY <2>1, <3>1
    <3>4. F(m)[n] = <<n % 256>> \o F(m)[h] /\ F(n)[n] = <<n % 256>> \o F(n)[h]
      BY <2>4, <2>6
    <3> HIDE DEF h
    <3>3. F(m)[h] = F(h)[h] /\ F(n)[h] = F(h)[h]
      BY <3>1, <3>2
    <3> QED
      BY <2>2, <3>3, <3>4
  <2> QED
    BY <2>3, <2>4
<1> DEFINE L == [n \in Nat |-> F(n)[n]]
           Rec(f) == f = [n \in Nat |-> IF n = 0 THEN <<>> ELSE <<n % 256>> \o f[n \div 256]]
<1>5. \A n \in Nat : L[n] = IF n = 0 THEN <<>> ELSE <<n % 256>> \o L[n \div 256]
  <2> SUFFICES ASSUME NEW n \in Nat
               PROVE  L[n] = IF n = 0 THEN <<>> ELSE <<n % 256>> \o L[n \div 256]
    OBVIOUS
  <2>1. n \div 256 \in Nat /\ n \div 256 <= n
    OBVIOUS
  <2>2. F(n)[n \div 256] = L[n \div 256]
    BY <1>4, <2>1
  <2>3. L[n] = F(n)[n]
    OBVIOUS
  <2> HIDE DEF L
  <2> QED
    BY <1>3, <2>2, <2>3
<1>6. Rec(L)
  <2>1. L = [n \in Nat |-> L[n]]
    OBVIOUS
  <2> HIDE DEF L
  <2> QED
    BY <1>5, <2>1, ZenonT(30)
<1>7. LittleEndian = CHOOSE f : Rec(f)
  BY DEF LittleEndian
<1>8. Rec(LittleEndian)
  <2> HIDE DEF L, Rec
  <2> QED
    BY <1>6, <1>7
<1> QED
  BY <1>8, ZenonT(30)

\* The digits are bytes, and adding them up from the highest gives the number.
LEMMA DigitsAddUp ==
    \A v \in Nat :
        /\ LittleEndian[v] \in Seq(Byte)
        /\ \A h : /\ h[0] = 0
                  /\ \A i \in 1 .. Len(LittleEndian[v]) :
                         h[i] = LittleEndian[v][Len(LittleEndian[v]) + 1 - i] + 256 * h[i - 1]
                  => h[Len(LittleEndian[v])] = v
<1> DEFINE Sums(h, s) == /\ h[0] = 0
                         /\ \A i \in 1 .. Len(s) : h[i] = s[Len(s) + 1 - i] + 256 * h[i - 1]
           Good(v) == /\ LittleEndian[v] \in Seq(Byte)
                      /\ \A h : Sums(h, LittleEndian[v]) => h[Len(LittleEndian[v])] = v
           Bad == {v \in Nat : ~Good(v)}
<1> SUFFICES ASSUME Bad # {} PROVE FALSE
  OBVIOUS
<1>1. PICK v \in Bad : \A k \in Bad : v <= k
  <2>1. Bad \in SUBSET Nat
    OBVIOUS
  <2> HIDE DEF Bad
  <2> QED
    BY <2>1, LeastNatural
<1>2. v \in Nat /\ ~Good(v)
  BY <1>1
<1>3. v # 0
  <2> SUFFICES ASSUME v = 0 PROVE Good(v)
    BY <1>2
  <2>1. LittleEndian[v] = <<>>
    BY DigitsEquation
  <2> QED
    BY <2>1
<1> DEFINE t == LittleEndian[v \div 256]
           s == LittleEndian[v]
           n == Len(t)
<1>4. v \div 256 \in Nat /\ v \div 256 < v /\ v % 256 \in Byte
      /\ v = (v % 256) + 256 * (v \div 256)
  <2>1. v \in Nat \ {0}
    BY <1>2, <1>3
  <2> HIDE DEF Good, Bad
  <2> QED
    BY <2>1 DEF Byte
<1>5. Good(v \div 256)
  BY <1>1, <1>4
<1>6. s = <<v % 256>> \o t
  BY <1>2, <1>3, DigitsEquation, ZenonT(30)
<1>7. t \in Seq(Byte) /\ n \in Nat
  BY <1>5
<1>8. \A h : Sums(h, t) => h[n] = v \div 256
  BY <1>5
<1> HIDE DEF t, s, Good, Bad, Sums
<1>9. /\ s \in Seq(Byte) /\ Len(s) = n + 1 /\ s[1] = v % 256
      /\ \A i \in 1 .. n : s[i + 1] = t[i]
  <2> DEFINE x == v % 256
  <2>1. x \in Byte
    BY <1>4
  <2> HIDE DEF x
  <2>2. s = <<x>> \o t
    BY <1>6 DEF x
  <2>3. \A i \in 1 .. n : i + 1 \in 1 .. n + 1 /\ i + 1 > 1 /\ (i + 1) - 1 = i
    BY <1>7
  <2>4. s \in Seq(Byte) /\ Len(s) = n + 1 /\ s[1] = x
    BY <1>7, <2>1, <2>2
  <2>5. \A i \in 1 .. n : s[i + 1] = t[i]
    BY <1>7, <2>2, <2>3
  <2> QED
    BY <2>4, <2>5 DEF x
<1>10. ASSUME NEW h, Sums(h, s) PROVE h[Len(s)] = v
  <2>1. Sums(h, t)
    <3>1. ASSUME NEW i \in 1 .. n PROVE h[i] = t[n + 1 - i] + 256 * h[i - 1]
      <4>1. i \in 1 .. Len(s) /\ Len(s) + 1 - i = (n + 1 - i) + 1 /\ n + 1 - i \in 1 .. n
        BY <1>7, <1>9
      <4>2. h[i] = s[Len(s) + 1 - i] + 256 * h[i - 1]
        BY <1>10, <4>1 DEF Sums
      <4> QED
        BY <1>9, <4>1, <4>2
    <3> QED
      BY <1>10, <3>1 DEF Sums
  <2>2. h[n] = v \div 256
    BY <1>8, <2>1
  <2>3. n + 1 \in 1 .. Len(s) /\ Len(s) + 1 - (n + 1) = 1 /\ (n + 1) - 1 = n
    BY <1>7, <1>9
  <2>4. h[n + 1] = s[1] + 256 * h[n]
    BY <1>10, <2>3 DEF Sums
  <2> QED
    BY <1>4, <1>9, <2>2, <2>4
<1> QED
  BY <1>2, <1>9, <1>10 DEF s, Good

\* A number above 0 has one digit more than the rest.
LEMMA OneDigitMore ==
    ASSUME NEW n \in Nat \ {0}
    PROVE  /\ n \div 256 \in Nat
           /\ Len(LittleEndian[n]) = 1 + Len(LittleEndian[n \div 256])
           /\ Len(LittleEndian[n]) \in Nat /\ Len(LittleEndian[n]) >= 1
<1> DEFINE t == LittleEndian[n \div 256]
           x == n % 256
<1>1. n \div 256 \in Nat /\ x \in Byte
  BY DEF Byte
<1>2. LittleEndian[n] = <<x>> \o t
  <2>1. n \in Nat /\ n # 0
    OBVIOUS
  <2> QED
    BY <2>1, DigitsEquation, Zenon
<1>3. t \in Seq(Byte)
  BY <1>1, DigitsAddUp
<1> HIDE DEF t, x
<1>4. Len(<<x>> \o t) = 1 + Len(t) /\ Len(t) \in Nat
  BY <1>1, <1>3
<1> QED
  BY <1>1, <1>2, <1>4 DEF t

\* From 2^30 on there are four digits or more.
LEMMA FourDigits ==
    ASSUME NEW v \in Nat, v >= 1073741824
    PROVE  Len(LittleEndian[v]) >= 4
<1> DEFINE a == v \div 256
           b == a \div 256
           c == b \div 256
<1>2. a \in Nat /\ a >= 4194304
  BY SMT
<1> HIDE DEF a
<1>3. b \in Nat /\ b >= 16384
  BY SMT, <1>2
<1> HIDE DEF b
<1>4. c \in Nat /\ c >= 64
  BY SMT, <1>3
<1> HIDE DEF c
<1>5. Len(LittleEndian[c]) \in Nat /\ Len(LittleEndian[c]) >= 1
  BY SMT, <1>4, OneDigitMore
<1>6. Len(LittleEndian[b]) = 1 + Len(LittleEndian[c])
  BY SMT, <1>3, OneDigitMore DEF c
<1>7. Len(LittleEndian[a]) = 1 + Len(LittleEndian[b])
  BY SMT, <1>2, OneDigitMore DEF b
<1>8. Len(LittleEndian[v]) = 1 + Len(LittleEndian[a])
  BY SMT, OneDigitMore DEF a
<1> QED
  BY SMT, <1>5, <1>6, <1>7, <1>8

\* What the decoder adds up satisfies its equation.
LEMMA DigitsValueEquation ==
    ASSUME NEW s, NEW n \in Nat
    PROVE  \E h : /\ h[0] = 0
                  /\ \A i \in 1 .. n : h[i] = s[n + 2 - i] + 256 * h[i - 1]
                  /\ DigitsValue(s, n) = h[n]
<1> DEFINE Eq(h, m) == h = [i \in 0 .. m |-> IF i = 0 THEN 0
                                             ELSE s[n + 2 - i] + 256 * h[i - 1]]
           S == {m \in 0 .. n : \E h : Eq(h, m)}
<1>1. 0 \in S
  <2>1. Eq([i \in 0 .. 0 |-> 0], 0)
    OBVIOUS
  <2> HIDE DEF Eq
  <2> QED
    BY <2>1
<1>2. ASSUME NEW k \in 0 .. n, k \in S, k < n PROVE k + 1 \in S
  <2>1. PICK f : Eq(f, k)
    BY <1>2
  <2> DEFINE last == s[n + 2 - (k + 1)] + 256 * f[k]
             g == [i \in 0 .. (k + 1) |-> IF i = k + 1 THEN last ELSE f[i]]
  <2>2. \A i \in 0 .. (k + 1) : g[i] = IF i = 0 THEN 0 ELSE s[n + 2 - i] + 256 * g[i - 1]
    <3> SUFFICES ASSUME NEW i \in 0 .. (k + 1)
                 PROVE  g[i] = IF i = 0 THEN 0 ELSE s[n + 2 - i] + 256 * g[i - 1]
      OBVIOUS
    <3>1. CASE i = k + 1
      <4>1. i # 0 /\ i - 1 = k /\ k \in 0 .. (k + 1) /\ k # k + 1
        BY <3>1
      <4>2. g[i] = last /\ g[k] = f[k]
        BY <3>1, <4>1
      <4> HIDE DEF g
      <4> QED
        BY <3>1, <4>1, <4>2
    <3>2. CASE i # k + 1
      <4>1. i \in 0 .. k /\ (i # 0 => i - 1 \in 0 .. (k + 1) /\ i - 1 # k + 1)
        BY <3>2
      <4>2. g[i] = f[i] /\ (i # 0 => g[i - 1] = f[i - 1])
        BY <3>2, <4>1
      <4>3. f[i] = IF i = 0 THEN 0 ELSE s[n + 2 - i] + 256 * f[i - 1]
        BY <2>1, <4>1
      <4> HIDE DEF g
      <4> QED
        BY <4>2, <4>3
    <3> QED
      BY <3>1, <3>2
  <2>3. Eq(g, k + 1)
    <3>1. g = [i \in 0 .. (k + 1) |-> g[i]]
      OBVIOUS
    <3> HIDE DEF g
    <3> QED
      BY <2>2, <3>1
  <2> HIDE DEF Eq
  <2> QED
    BY <1>2, <2>3
<1>3. n \in S
  <2> HIDE DEF S
  <2> QED
    BY <1>1, <1>2, InductionUpTo
<1> DEFINE r == CHOOSE h : Eq(h, n)
<1>4. DigitsValue(s, n) = r[n]
  BY DEF DigitsValue
<1>5. Eq(r, n)
  BY <1>3
<1> HIDE DEF r
<1>6. r[0] = 0
  BY <1>5
<1>7. \A i \in 1 .. n : r[i] = s[n + 2 - i] + 256 * r[i - 1]
  BY <1>5
<1> QED
  BY <1>4, <1>6, <1>7

\* The number of digits and the digits, from 2^30 on.
LEMMA ManyBytes ==
    ASSUME NEW val \in Nat, NEW rest \in Seq(Nat),
           4 <= Len(LittleEndian[val]), Len(LittleEndian[val]) <= 67,
           EncodeScaleInt(val)
               = <<4 * (Len(LittleEndian[val]) - 4) + 3>> \o LittleEndian[val]
    PROVE  DecodeScaleInt(EncodeScaleInt(val) \o rest)
                = [ok |-> TRUE, value |-> val, size |-> 1 + Len(LittleEndian[val])]
<1> DEFINE t == LittleEndian[val]
           n == Len(t)
           first == 4 * (n - 4) + 3
           s == (<<first>> \o t) \o rest
<1>1. t \in Seq(Byte) /\ n \in 4 .. 67
  <2>1. t \in Seq(Byte)
    BY DigitsAddUp
  <2>2. n \in Nat
    BY <2>1
  <2>3. 4 <= n /\ n <= 67
    OBVIOUS
  <2> HIDE DEF n
  <2> QED
    BY <2>1, <2>2, <2>3
<1>2. EncodeScaleInt(val) \o rest = s
  OBVIOUS
<1>11. \A h : h[0] = 0 /\ (\A i \in 1 .. n : h[i] = t[n + 1 - i] + 256 * h[i - 1]) => h[n] = val
  BY DigitsAddUp
<1> HIDE DEF t, n
<1>31. n \in Nat /\ n \in 4 .. 67
  BY <1>1 DEF n
<1>3. first \in Byte /\ first % 4 = 3 /\ first \div 4 = n - 4
  BY <1>31 DEF Byte
<1> HIDE DEF first
<1>4. /\ s # <<>> /\ s[1] = first /\ Len(s) >= n + 1
      /\ \A i \in 1 .. n : s[i + 1] = t[i] /\ t[i] \in Byte
  BY <1>1, <1>3 DEF n
<1> HIDE DEF s
<1>5. CompactSize(s[1]) = n + 1
  BY <1>31, <1>3, <1>4 DEF CompactSize
<1>6. \A i \in 2 .. n + 1 : s[i] \in Byte
  <2> SUFFICES ASSUME NEW i \in 2 .. n + 1 PROVE s[i] \in Byte
    OBVIOUS
  <2>1. i - 1 \in 1 .. n /\ (i - 1) + 1 = i
    BY <1>31
  <2> QED
    BY <1>4, <2>1
<1>7. DecodeScaleInt(s) = [ok |-> TRUE, value |-> DecodedValue(s), size |-> n + 1]
  BY <1>3, <1>4, <1>5, <1>6 DEF DecodeScaleInt
<1>8. DecodedValue(s) = DigitsValue(s, n)
  <2>1. s[1] \div 4 + 4 = n
    BY <1>31, <1>3, <1>4
  <2> QED
    BY <1>3, <1>4, <2>1 DEF DecodedValue
<1>9. PICK h : /\ h[0] = 0
               /\ \A i \in 1 .. n : h[i] = s[n + 2 - i] + 256 * h[i - 1]
               /\ DigitsValue(s, n) = h[n]
  <2>1. n \in Nat
    BY <1>31
  <2> QED
    BY ONLY <2>1, DigitsValueEquation
<1>10. \A i \in 1 .. n : h[i] = t[n + 1 - i] + 256 * h[i - 1]
  <2> SUFFICES ASSUME NEW i \in 1 .. n PROVE h[i] = t[n + 1 - i] + 256 * h[i - 1]
    OBVIOUS
  <2>1. n + 1 - i \in 1 .. n /\ (n + 1 - i) + 1 = n + 2 - i
    BY <1>31
  <2>2. h[i] = s[n + 2 - i] + 256 * h[i - 1]
    BY <1>9
  <2>3. s[(n + 1 - i) + 1] = t[n + 1 - i]
    BY <1>4, <2>1
  <2> QED
    BY <2>1, <2>2, <2>3
<1>12. h[n] = val
  BY <1>9, <1>10, <1>11
<1>13. n + 1 = 1 + n
  BY <1>31
<1> QED
  BY <1>2, <1>7, <1>8, <1>9, <1>12, <1>13 DEF t, n

\* Every count, length and integer is read back whose digits, at most 67, the
\* first byte can tell, and what follows it is left alone: a Vec or a String
\* ends where the code meant it to end.
THEOREM CompactRoundTrip ==
    ASSUME NEW val \in Nat, Len(LittleEndian[val]) <= 67, NEW rest \in Seq(Nat)
    PROVE  DecodeScaleInt(EncodeScaleInt(val) \o rest)
                = [ok |-> TRUE, value |-> val, size |-> Len(EncodeScaleInt(val))]
<1>1. CASE val >= 1073741824
    <2>1. LittleEndian[val] \in Seq(Byte)
        BY SMT, DigitsAddUp
    <2>5. Len(LittleEndian[val]) >= 4
        BY SMT, <1>1, FourDigits
    <2>3. EncodeScaleInt(val) = <<4 * (Len(LittleEndian[val]) - 4) + 3>> \o LittleEndian[val]
        BY SMT, <1>1 DEF EncodeScaleInt
    <2>4. Len(EncodeScaleInt(val)) = 1 + Len(LittleEndian[val])
        BY SMT, <2>1, <2>3
    <2>6. DecodeScaleInt(EncodeScaleInt(val) \o rest)
              = [ok |-> TRUE, value |-> val, size |-> 1 + Len(LittleEndian[val])]
        <3>1. val \in Nat /\ rest \in Seq(Nat) /\ Len(LittleEndian[val]) <= 67
            BY SMT
        <3> QED
            BY ONLY <2>3, <2>5, <3>1, ManyBytes, Zenon
    <2> QED
        BY SMT, <2>4, <2>6
<1>2. CASE val < 1073741824
    BY SMT, <1>2, SmallRoundTrip
<1> QED
    BY SMT, <1>1, <1>2

-----------------------------------------------------------------------------
(* Readers.                                                                *)

\* The type takes the tree from these bytes and leaves what follows.
ReadsBack(type, bytes, tree) ==
    /\ bytes \in Input
    /\ \A rest \in Input : type[bytes \o rest] = Reading(tree, rest)

\* Joining is associative.
LEMMA Regroup == \A a, b, c \in Input : (a \o b) \o c = a \o (b \o c)
BY DEF Input

\* Joined inputs are an input.
LEMMA Joined == \A a, b \in Input : a \o b \in Input
BY DEF Input

\* What ReadAll has after one more type.
Further(before, type) ==
    IF before.ok /\ type[before.rest].ok
    THEN Reading(Append(before.value, type[before.rest].value), type[before.rest].rest)
    ELSE Unreadable

\* What is read after each type satisfies its equation.
LEMMA ReadAllEquation ==
    ASSUME NEW types, NEW s, Len(types) \in Nat
    PROVE  \E h : /\ h[0] = Reading(<<>>, s)
                  /\ \A i \in 1 .. Len(types) : h[i] = Further(h[i - 1], types[i])
                  /\ ReadAll(types, s) = h[Len(types)]
<1> DEFINE n == Len(types)
           Eq(h, m) == h = [i \in 0 .. m |-> IF i = 0 THEN Reading(<<>>, s)
                                             ELSE Further(h[i - 1], types[i])]
           S == {m \in 0 .. n : \E h : Eq(h, m)}
<1>1. 0 \in S
  <2>1. Eq([i \in 0 .. 0 |-> Reading(<<>>, s)], 0)
    OBVIOUS
  <2> HIDE DEF Eq
  <2> QED
    BY <2>1
<1>2. ASSUME NEW k \in 0 .. n, k \in S, k < n PROVE k + 1 \in S
  <2>1. PICK f : Eq(f, k)
    BY <1>2
  <2> DEFINE last == Further(f[k], types[k + 1])
             g == [i \in 0 .. (k + 1) |-> IF i = k + 1 THEN last ELSE f[i]]
  <2>2. \A i \in 0 .. (k + 1) : g[i] = IF i = 0 THEN Reading(<<>>, s)
                                       ELSE Further(g[i - 1], types[i])
    <3> SUFFICES ASSUME NEW i \in 0 .. (k + 1)
                 PROVE  g[i] = IF i = 0 THEN Reading(<<>>, s)
                               ELSE Further(g[i - 1], types[i])
      OBVIOUS
    <3>1. CASE i = k + 1
      <4>1. i # 0 /\ i - 1 = k /\ k \in 0 .. (k + 1) /\ k # k + 1
        BY <3>1
      <4>2. g[i] = last /\ g[k] = f[k]
        BY <3>1, <4>1
      <4> HIDE DEF g
      <4> QED
        BY <3>1, <4>1, <4>2
    <3>2. CASE i # k + 1
      <4>1. i \in 0 .. k /\ (i # 0 => i - 1 \in 0 .. (k + 1) /\ i - 1 # k + 1)
        BY <3>2
      <4>2. g[i] = f[i] /\ (i # 0 => g[i - 1] = f[i - 1])
        BY <3>2, <4>1
      <4>3. f[i] = IF i = 0 THEN Reading(<<>>, s) ELSE Further(f[i - 1], types[i])
        BY <2>1, <4>1
      <4> HIDE DEF g
      <4> QED
        BY <4>2, <4>3
    <3> QED
      BY <3>1, <3>2
  <2>3. Eq(g, k + 1)
    <3>1. g = [i \in 0 .. (k + 1) |-> g[i]]
      OBVIOUS
    <3> HIDE DEF g
    <3> QED
      BY <2>2, <3>1
  <2> HIDE DEF Eq
  <2> QED
    BY <1>2, <2>3
<1>3. n \in S
  <2>1. n \in Nat
    OBVIOUS
  <2> HIDE DEF S, n
  <2>2. \A k \in 0 .. n : k \in S
    BY <1>1, <1>2, <2>1, InductionUpTo
  <2> QED
    BY <2>1, <2>2
<1> DEFINE r == CHOOSE h : Eq(h, n)
<1>4. ReadAll(types, s) = r[n]
  BY DEF ReadAll, Further
<1>5. Eq(r, n)
  BY <1>3
<1> HIDE DEF r
<1>6. r[0] = Reading(<<>>, s)
  BY <1>5
<1>7. \A i \in 1 .. n : r[i] = Further(r[i - 1], types[i])
  BY <1>5
<1> QED
  BY <1>4, <1>6, <1>7

\* Joining a list of sequences: the prefixes that FlattenSeq builds.
LEMMA FlattenEquation ==
    ASSUME NEW parts, Len(parts) \in Nat \ {0}
    PROVE  \E h : /\ h[1] = parts[1]
                  /\ \A i \in 2 .. Len(parts) : h[i] = h[i - 1] \o parts[i]
                  /\ FlattenSeq(parts) = h[Len(parts)]
<1> DEFINE n == Len(parts)
           Eq(h, m) == h = [i \in 1 .. m |-> IF i = 1 THEN parts[i] ELSE h[i - 1] \o parts[i]]
           S == {m \in 0 .. n : \E h : Eq(h, m)}
<1>1. 0 \in S
  <2>1. Eq([i \in 1 .. 0 |-> <<>>], 0)
    OBVIOUS
  <2> HIDE DEF Eq
  <2> QED
    BY <2>1
<1>2. ASSUME NEW k \in 0 .. n, k \in S, k < n PROVE k + 1 \in S
  <2>1. PICK f : Eq(f, k)
    BY <1>2
  <2> DEFINE last == IF k = 0 THEN parts[1] ELSE f[k] \o parts[k + 1]
             g == [i \in 1 .. (k + 1) |-> IF i = k + 1 THEN last ELSE f[i]]
  <2>2. \A i \in 1 .. (k + 1) : g[i] = IF i = 1 THEN parts[i] ELSE g[i - 1] \o parts[i]
    <3> SUFFICES ASSUME NEW i \in 1 .. (k + 1)
                 PROVE  g[i] = IF i = 1 THEN parts[i] ELSE g[i - 1] \o parts[i]
      OBVIOUS
    <3>1. CASE i = k + 1
      <4>1. i - 1 = k /\ (i # 1 => k \in 1 .. (k + 1) /\ k # k + 1) /\ (i = 1 <=> k = 0)
        BY <3>1
      <4>2. g[i] = last /\ (i # 1 => g[k] = f[k])
        BY <3>1, <4>1
      <4> HIDE DEF g
      <4> QED
        BY <3>1, <4>1, <4>2
    <3>2. CASE i # k + 1
      <4>1. i \in 1 .. k /\ (i # 1 => i - 1 \in 1 .. (k + 1) /\ i - 1 # k + 1)
        BY <3>2
      <4>2. g[i] = f[i] /\ (i # 1 => g[i - 1] = f[i - 1])
        BY <3>2, <4>1
      <4>3. f[i] = IF i = 1 THEN parts[i] ELSE f[i - 1] \o parts[i]
        BY <2>1, <4>1
      <4> HIDE DEF g
      <4> QED
        BY <4>2, <4>3
    <3> QED
      BY <3>1, <3>2
  <2>3. Eq(g, k + 1)
    <3>1. g = [i \in 1 .. (k + 1) |-> g[i]]
      OBVIOUS
    <3> HIDE DEF g
    <3> QED
      BY <2>2, <3>1
  <2> HIDE DEF Eq
  <2> QED
    BY <1>2, <2>3
<1>3. n \in S
  <2>1. n \in Nat
    OBVIOUS
  <2> HIDE DEF S, n
  <2>2. \A k \in 0 .. n : k \in S
    BY <1>1, <1>2, <2>1, InductionUpTo
  <2> QED
    BY <2>1, <2>2
<1> DEFINE r == CHOOSE h : Eq(h, n)
<1>4. FlattenSeq(parts) = r[n]
  BY DEF FlattenSeq
<1>5. Eq(r, n)
  BY <1>3
<1> HIDE DEF r
<1>6. r[1] = parts[1]
  BY <1>5
<1>7. \A i \in 2 .. n : r[i] = r[i - 1] \o parts[i]
  <2> SUFFICES ASSUME NEW i \in 2 .. n PROVE r[i] = r[i - 1] \o parts[i]
    OBVIOUS
  <2>1. i \in 1 .. n /\ i # 1
    OBVIOUS
  <2> QED
    BY <1>5, <2>1
<1> QED
  BY <1>4, <1>6, <1>7

\* The prefixes of a joined list, from none of its parts to all of them.
LEMMA FlattenPrefixes ==
    ASSUME NEW parts \in Seq(Input)
    PROVE  \E p : /\ p[0] = <<>>
                  /\ \A i \in 1 .. Len(parts) : p[i] = p[i - 1] \o parts[i]
                  /\ p[Len(parts)] = FlattenSeq(parts)
                  /\ \A i \in 0 .. Len(parts) : p[i] \in Input
<1> DEFINE n == Len(parts)
<1>0. n \in Nat /\ \A i \in 1 .. n : parts[i] \in Input
  OBVIOUS
<1>1. CASE n = 0
  <2>1. parts = <<>> /\ FlattenSeq(parts) = parts
    BY <1>1 DEF FlattenSeq
  <2> DEFINE p == [i \in 0 .. 0 |-> <<>>]
  <2>2. p[0] = <<>>
    OBVIOUS
  <2>3. <<>> \in Input
    BY DEF Input
  <2> HIDE DEF p
  <2>4. p[n] = FlattenSeq(parts) /\ \A i \in 0 .. n : p[i] \in Input
    BY <1>1, <2>1, <2>2, <2>3
  <2>5. \A i \in 1 .. n : p[i] = p[i - 1] \o parts[i]
    BY <1>1
  <2> QED
    BY <2>2, <2>4, <2>5
<1>2. CASE n # 0
  <2>1. PICK h : /\ h[1] = parts[1]
                 /\ \A i \in 2 .. n : h[i] = h[i - 1] \o parts[i]
                 /\ FlattenSeq(parts) = h[n]
    BY <1>0, <1>2, FlattenEquation
  <2> DEFINE p == [i \in 0 .. n |-> IF i = 0 THEN <<>> ELSE h[i]]
             S == {i \in 0 .. n : p[i] \in Input}
  <2>2. p[0] = <<>> /\ \A i \in 1 .. n : p[i] = h[i]
    BY <1>0
  <2>3. p[n] = FlattenSeq(parts)
    BY <1>0, <1>2, <2>1, <2>2
  <2> HIDE DEF p
  <2>4. ASSUME NEW i \in 1 .. n PROVE p[i] = p[i - 1] \o parts[i]
    <3>1. CASE i = 1
      <4>1. parts[1] \in Seq(Nat) /\ i - 1 = 0
        BY <1>0, <3>1 DEF Input
      <4>2. <<>> \o parts[1] = parts[1]
        BY <4>1
      <4> QED
        BY <2>1, <2>2, <3>1, <4>1, <4>2
    <3>2. CASE i # 1
      <4>1. i \in 2 .. n /\ i - 1 \in 1 .. n
        BY <1>0, <3>2
      <4> QED
        BY <2>1, <2>2, <4>1
    <3> QED
      BY <3>1, <3>2
  <2>5. 0 \in S
    <3>1. p[0] \in Input /\ 0 \in 0 .. n
      BY <1>0, <2>2 DEF Input
    <3> HIDE DEF n
    <3> QED
      BY <3>1
  <2>6. ASSUME NEW k \in 0 .. n, k \in S, k < n PROVE k + 1 \in S
    <3>1. k + 1 \in 1 .. n /\ (k + 1) - 1 = k /\ k + 1 \in 0 .. n
      BY <1>0, <2>6
    <3>2. p[k + 1] = p[k] \o parts[k + 1]
      BY <2>4, <3>1
    <3>3. p[k] \in Seq(Nat) /\ parts[k + 1] \in Seq(Nat)
      BY <1>0, <2>6, <3>1 DEF Input
    <3>4. p[k + 1] \in Input
      BY <3>2, <3>3 DEF Input
    <3> QED
      BY <3>1, <3>4
  <2>7. \A i \in 0 .. n : i \in S
    <3> HIDE DEF S, n
    <3> QED
      BY <1>0, <2>5, <2>6, InductionUpTo
  <2> QED
    BY <2>2, <2>3, <2>4, <2>7
<1> QED
  BY <1>1, <1>2

\* One more tree.
LEMMA AppendTree ==
    ASSUME NEW k \in Nat, NEW trees
    PROVE  Append([j \in 1 .. k |-> trees[j]], trees[k + 1])
               = [j \in 1 .. (k + 1) |-> trees[j]]
<1> DEFINE V == {trees[j] : j \in 1 .. (k + 1)}
           s == [j \in 1 .. k |-> trees[j]]
           t == [j \in 1 .. (k + 1) |-> trees[j]]
<1>1. s \in Seq(V) /\ Len(s) = k /\ t \in Seq(V) /\ Len(t) = k + 1 /\ trees[k + 1] \in V
  OBVIOUS
<1>2. \A j \in 1 .. k : s[j] = t[j]
  OBVIOUS
<1>3. t[k + 1] = trees[k + 1]
  OBVIOUS
<1> HIDE DEF s, t, V
<1>4. Append(s, trees[k + 1]) \in Seq(V) /\ Len(Append(s, trees[k + 1])) = k + 1
  BY <1>1
<1>5. \A j \in 1 .. (k + 1) : Append(s, trees[k + 1])[j] = t[j]
  BY <1>1, <1>2, <1>3
<1>6. Append(s, trees[k + 1]) = t
  BY <1>1, <1>4, <1>5, SeqEqual
<1> QED
  BY <1>6 DEF s, t

\* The parts of a structure are read back one after the other.
LEMMA PartsReadBack ==
    ASSUME NEW parts \in Seq(Input), NEW types, NEW trees, Len(types) = Len(parts),
           trees = [i \in 1 .. Len(parts) |-> trees[i]],
           \A i \in 1 .. Len(parts) : ReadsBack(types[i], parts[i], trees[i]),
           NEW rest \in Input
    PROVE  /\ FlattenSeq(parts) \in Input
           /\ ReadAll(types, FlattenSeq(parts) \o rest) = Reading(trees, rest)
<1> DEFINE n == Len(parts)
<1>0. n \in Nat /\ Len(types) = n
  OBVIOUS
<1>1. PICK p : /\ p[0] = <<>>
               /\ \A i \in 1 .. n : p[i] = p[i - 1] \o parts[i]
               /\ p[n] = FlattenSeq(parts)
               /\ \A i \in 0 .. n : p[i] \in Input
  BY FlattenPrefixes
<1> DEFINE Run(h, k, s) == /\ h[0] = Reading(<<>>, s)
                           /\ \A i \in 1 .. k : h[i] = Further(h[i - 1], types[i])
           Trees(k) == [j \in 1 .. k |-> trees[j]]
           S == {k \in 0 .. n : \A r \in Input : \A h :
                    Run(h, k, p[k] \o r) => h[k] = Reading(Trees(k), r)}
<1>2. 0 \in S
  <2>1. ASSUME NEW r \in Input, NEW h, Run(h, 0, p[0] \o r) PROVE h[0] = Reading(Trees(0), r)
    <3>1. p[0] \o r = r
      BY <1>1 DEF Input
    <3>2. Trees(0) = <<>>
      OBVIOUS
    <3> HIDE DEF Trees
    <3> QED
      BY <2>1, <3>1, <3>2
  <2> HIDE DEF Run, Trees
  <2> QED
    BY <1>0, <2>1
<1>3. ASSUME NEW k \in 0 .. n, k \in S, k < n PROVE k + 1 \in S
  <2>1. k + 1 \in 1 .. n /\ (k + 1) - 1 = k /\ k + 1 \in 0 .. n /\ k \in Nat
    BY <1>0, <1>3
  <2>2. ASSUME NEW r \in Input, NEW h, Run(h, k + 1, p[k + 1] \o r)
        PROVE  h[k + 1] = Reading(Trees(k + 1), r)
    <3> DEFINE q == parts[k + 1] \o r
    <3>1. ReadsBack(types[k + 1], parts[k + 1], trees[k + 1])
      BY <2>1
    <3>2. parts[k + 1] \in Input /\ p[k] \in Input /\ q \in Input
      BY <1>1, <3>1 DEF ReadsBack, Input
    <3>3. p[k + 1] \o r = p[k] \o q
      <4>1. p[k + 1] = p[k] \o parts[k + 1]
        BY <1>1, <2>1
      <4>2. (p[k] \o parts[k + 1]) \o r = p[k] \o (parts[k + 1] \o r)
        <5>1. p[k] \in Input /\ parts[k + 1] \in Input /\ r \in Input
          BY <3>2
        <5>2. \A x, y \in Input : (p[k] \o x) \o y = p[k] \o (x \o y)
          <6>1. p[k] \in Input
            BY <5>1
          <6> QED
            BY ONLY <6>1, Regroup, Zenon
        <5> QED
          BY ONLY <5>1, <5>2, Zenon
      <4> QED
        BY <4>1, <4>2
    <3>4. types[k + 1][q] = Reading(trees[k + 1], r)
      BY <3>1 DEF ReadsBack
    <3> HIDE DEF q
    <3>5. Run(h, k, p[k] \o q)
      BY <2>1, <2>2, <3>3
    <3>6. h[k] = Reading(Trees(k), q)
      <4> HIDE DEF Run, Trees
      <4> QED
        BY <1>3, <3>2, <3>5
    <3>7. h[k + 1] = Further(h[k], types[k + 1])
      BY <2>1, <2>2
    <3>8. Further(h[k], types[k + 1]) = Reading(Append(Trees(k), trees[k + 1]), r)
      <4> HIDE DEF Trees
      <4>1. h[k].ok /\ h[k].value = Trees(k) /\ h[k].rest = q
        BY <3>6 DEF Reading
      <4>2. /\ types[k + 1][q].ok
            /\ types[k + 1][q].value = trees[k + 1]
            /\ types[k + 1][q].rest = r
        BY <3>4 DEF Reading
      <4> QED
        BY <4>1, <4>2, Zenon DEF Further
    <3>9. Append(Trees(k), trees[k + 1]) = Trees(k + 1)
      BY <2>1, AppendTree
    <3> HIDE DEF Trees
    <3> QED
      BY <3>7, <3>8, <3>9
  <2> HIDE DEF Run, Trees
  <2> QED
    BY <2>1, <2>2
<1>4. n \in S
  <2> HIDE DEF S, n
  <2>1. \A k \in 0 .. n : k \in S
    BY <1>0, <1>2, <1>3, InductionUpTo
  <2> QED
    BY <1>0, <2>1
<1>5. PICK h : Run(h, n, FlattenSeq(parts) \o rest) /\ ReadAll(types, FlattenSeq(parts) \o rest) = h[n]
  <2> HIDE DEF n
  <2> QED
    BY <1>0, ReadAllEquation
<1>6. h[n] = Reading(Trees(n), rest)
  <2> HIDE DEF Run, Trees
  <2> QED
    BY <1>1, <1>4, <1>5
<1>7. FlattenSeq(parts) \in Input
  BY <1>0, <1>1
<1>8. Trees(n) = trees
  OBVIOUS
<1> HIDE DEF Trees
<1> QED
  BY <1>5, <1>6, <1>7, <1>8

\* A compact integer is bytes, and as short as its form allows.
LEMMA EncodedBytes ==
    ASSUME NEW val \in Nat, Len(LittleEndian[val]) <= 67
    PROVE  /\ EncodeScaleInt(val) \in Seq(Byte)
           /\ val < 64 => Len(EncodeScaleInt(val)) = 1
           /\ 64 <= val /\ val < 16384 => Len(EncodeScaleInt(val)) = 2
           /\ 16384 <= val /\ val < 1073741824 => Len(EncodeScaleInt(val)) = 4
           /\ val >= 1073741824 => Len(EncodeScaleInt(val)) = 1 + Len(LittleEndian[val])
<1>1. CASE val < 64
  <2>1. EncodeScaleInt(val) = <<4 * val>>
    BY SMT, <1>1 DEF EncodeScaleInt, EncodeSmall
  <2>2. 4 * val \in Byte
    BY SMT, <1>1 DEF Byte
  <2> QED
    BY SMT, <1>1, <2>1, <2>2
<1>2. CASE 64 <= val /\ val < 16384
  <2> DEFINE a == 4 * (val % 64) + 1
             b == val \div 64
  <2>1. EncodeScaleInt(val) = <<a, b>>
    BY SMT, <1>2 DEF EncodeScaleInt, EncodeSmall
  <2>2. a \in Byte /\ b \in Byte
    BY SMT, <1>2 DEF Byte
  <2> HIDE DEF a, b
  <2> QED
    BY SMT, <1>2, <2>1, <2>2
<1>3. CASE 16384 <= val /\ val < 1073741824
  <2> DEFINE a == 4 * (val % 64) + 2
             b == (val \div 64) % 256
             c == (val \div 16384) % 256
             d == val \div 4194304
  <2>1. EncodeScaleInt(val) = <<a, b, c, d>>
    BY SMT, <1>3 DEF EncodeScaleInt, EncodeSmall
  <2>2. val % 64 \in 0 .. 63 /\ b \in Byte /\ c \in Byte /\ d \in Byte
    BY SMT, <1>3, SplitNumber
  <2>3. a \in Byte
    <3>1. \A m \in 0 .. 63 : 4 * m + 2 \in Byte
      BY SMT DEF Byte
    <3>2. val % 64 \in 0 .. 63
      BY <2>2
    <3> QED
      BY ONLY <3>1, <3>2, Zenon DEF a
  <2> HIDE DEF a, b, c, d
  <2> QED
    BY SMT, <1>3, <2>1, <2>2, <2>3
<1>4. CASE val >= 1073741824
  <2> DEFINE t == LittleEndian[val]
             a == 4 * (Len(t) - 4) + 3
  <2>1. t \in Seq(Byte)
    BY SMT, DigitsAddUp
  <2>2. Len(t) >= 4
    BY SMT, <1>4, FourDigits
  <2>3. EncodeScaleInt(val) = <<a>> \o t
    BY SMT, <1>4 DEF EncodeScaleInt
  <2>4. Len(t) <= 67 /\ Len(t) \in Nat
    BY SMT, <2>1
  <2>5. a \in Byte
    <3>1. \A m \in Nat : m >= 4 /\ m <= 67 => 4 * (m - 4) + 3 \in Byte
      BY SMT DEF Byte
    <3> QED
      BY ONLY <3>1, <2>2, <2>4, Zenon DEF a
  <2> HIDE DEF a, t
  <2>6. EncodeScaleInt(val) \in Seq(Byte) /\ Len(EncodeScaleInt(val)) = 1 + Len(t)
    BY SMT, <2>1, <2>3, <2>5
  <2> QED
    BY SMT, <1>4, <2>6 DEF t
<1> QED
  BY SMT, <1>1, <1>2, <1>3, <1>4

\* What is left behind the front of an input.
LEMMA DropFront ==
    ASSUME NEW front \in Input, NEW rest \in Input
    PROVE  Drop(front \o rest, Len(front)) = rest
<1>1. front \in Seq(Nat) /\ rest \in Seq(Nat)
  BY DEF Input
<1> DEFINE s == front \o rest
           t == SubSeq(s, Len(front) + 1, Len(s))
<1>2. s \in Seq(Nat) /\ Len(s) = Len(front) + Len(rest)
  BY <1>1
<1>3. t \in Seq(Nat) /\ Len(t) = Len(rest) /\ \A i \in 1 .. Len(rest) : t[i] = s[Len(front) + i]
  BY <1>1, <1>2
<1>4. \A i \in 1 .. Len(rest) : s[Len(front) + i] = rest[i]
  BY <1>1
<1> HIDE DEF s
<1>5. t = rest
  <2> HIDE DEF t
  <2> QED
    BY <1>1, <1>3, <1>4, SeqEqual
<1> QED
  BY <1>5 DEF s, Drop

\* The front itself.
LEMMA TakeFront ==
    ASSUME NEW front \in Input, NEW rest \in Input
    PROVE  SubSeq(front \o rest, 1, Len(front)) = front
<1>1. front \in Seq(Nat) /\ rest \in Seq(Nat)
  BY DEF Input
<1> DEFINE s == front \o rest
           t == SubSeq(s, 1, Len(front))
<1>2. s \in Seq(Nat) /\ Len(s) = Len(front) + Len(rest)
  BY <1>1
<1>3. t \in Seq(Nat) /\ Len(t) = Len(front) /\ \A i \in 1 .. Len(front) : t[i] = s[i]
  BY <1>1, <1>2
<1>4. \A i \in 1 .. Len(front) : s[i] = front[i]
  BY <1>1
<1> HIDE DEF s
<1>5. t = front
  <2> HIDE DEF t
  <2> QED
    BY <1>1, <1>3, <1>4, SeqEqual
<1> QED
  BY <1>5 DEF s

\* A count at the front of an input is found, and what it counts.
LEMMA CountReadsBack ==
    ASSUME NEW val \in Encodable, NEW rest \in Input
    PROVE  /\ EncodeScaleInt(val) \in Input
           /\ DecodeScaleInt(EncodeScaleInt(val) \o rest).ok
           /\ DecodeScaleInt(EncodeScaleInt(val) \o rest).value = val
           /\ Drop(EncodeScaleInt(val) \o rest,
                   DecodeScaleInt(EncodeScaleInt(val) \o rest).size) = rest
<1>1. val \in Nat /\ Len(LittleEndian[val]) <= 67 /\ rest \in Seq(Nat)
  BY DEF Encodable, Input
<1>2. EncodeScaleInt(val) \in Seq(Byte)
  BY SMT, <1>1, EncodedBytes
<1> DEFINE e == EncodeScaleInt(val)
           d == DecodeScaleInt(e \o rest)
<1>3. e \in Input
  <2>1. Byte \subseteq Nat
    BY DEF Byte
  <2>2. e \in Seq(Byte)
    BY <1>2
  <2> HIDE DEF e
  <2> QED
    BY <2>1, <2>2, SeqMonotonic DEF Input
<1>4. d = [ok |-> TRUE, value |-> val, size |-> Len(e)]
  BY <1>1, CompactRoundTrip
<1> HIDE DEF e, d
<1>5. d.ok /\ d.value = val /\ d.size = Len(e)
  BY <1>4
<1>6. Drop(e \o rest, Len(e)) = rest
  BY <1>3, DropFront
<1> QED
  BY <1>3, <1>5, <1>6 DEF d, e

-----------------------------------------------------------------------------
(* Every type reads back what its serializer writes.                       *)

\* A field of fixed width.
LEMMA FixedReadsBack ==
    ASSUME NEW x \in Nat
    PROVE  ReadsBack(Fixed, <<x>>, <<x>>)
<1>1. <<x>> \in Input
  BY DEF Input
<1>2. ASSUME NEW rest \in Input PROVE Fixed[<<x>> \o rest] = Reading(<<x>>, rest)
  <2> DEFINE s == <<x>> \o rest
  <2>1. rest \in Seq(Nat)
    BY DEF Input
  <2>2. s \in Seq(Nat) /\ s # <<>> /\ s[1] = x /\ Tail(s) = rest
    BY <2>1
  <2> HIDE DEF s
  <2>3. Fixed[s] = Reading(<<s[1]>>, Tail(s))
    BY <2>2 DEF Fixed, Input
  <2> QED
    BY <2>2, <2>3 DEF s
<1> QED
  BY <1>1, <1>2 DEF ReadsBack

\* A compact integer.
LEMMA CompactReadsBack ==
    ASSUME NEW val \in Encodable
    PROVE  ReadsBack(Compact, EncodeScaleInt(val), <<val>>)
<1> DEFINE e == EncodeScaleInt(val)
<1>1. <<>> \in Input
  BY DEF Input
<1>2. e \in Input
  BY <1>1, CountReadsBack
<1>3. ASSUME NEW rest \in Input PROVE Compact[e \o rest] = Reading(<<val>>, rest)
  <2> DEFINE s == e \o rest
             n == DecodeScaleInt(s)
  <2>1. s \in Input
    BY <1>2, Joined
  <2>2. n.ok /\ n.value = val /\ Drop(s, n.size) = rest
    BY CountReadsBack
  <2>3. Compact[s] = IF n.ok THEN Reading(<<n.value>>, Drop(s, n.size)) ELSE Unreadable
    <3> HIDE DEF s
    <3> QED
      BY <2>1 DEF Compact
  <2> HIDE DEF s, n
  <2> QED
    BY <2>2, <2>3 DEF s
<1> QED
  BY <1>2, <1>3 DEF ReadsBack

\* A byte string of any length that can be written.
LEMMA BlobReadsBack ==
    ASSUME NEW data \in ByteString
    PROVE  ReadsBack(Blob, SerializeBytes(data), data)
<1> DEFINE e == EncodeScaleInt(Len(data))
<1>0. data \in Input /\ Len(data) \in Encodable
  BY DEF ByteString, ListsOf, Input
<1>1. <<>> \in Input
  BY DEF Input
<1>2. e \in Input
  BY <1>0, <1>1, CountReadsBack
<1>3. SerializeBytes(data) = e \o data /\ e \o data \in Input
  BY <1>0, <1>2, Joined DEF SerializeBytes
<1>4. ASSUME NEW rest \in Input PROVE Blob[(e \o data) \o rest] = Reading(data, rest)
  <2> DEFINE b == data \o rest
             s == e \o b
             n == DecodeScaleInt(s)
  <2>1. b \in Input
    BY <1>0, Joined
  <2>2. (e \o data) \o rest = s
    BY <1>0, <1>2, Regroup, Zenon
  <2>3. Drop(b, Len(data)) = rest /\ SubSeq(b, 1, Len(data)) = data /\ Len(data) <= Len(b)
    <3>1. Len(b) = Len(data) + Len(rest) /\ Len(data) \in Nat /\ Len(rest) \in Nat
      BY <1>0 DEF Input
    <3>2. Len(data) <= Len(b)
      <4> HIDE DEF b
      <4> QED
        BY <3>1
    <3> QED
      BY <1>0, <3>2, DropFront, TakeFront
  <2> HIDE DEF b
  <2>4. s \in Input
    BY <1>2, <2>1, Joined
  <2>5. n.ok /\ n.value = Len(data) /\ Drop(s, n.size) = b
    BY <1>0, <2>1, CountReadsBack
  <2>6. Blob[s] = IF n.ok /\ n.value <= Len(Drop(s, n.size))
                  THEN Reading(SubSeq(Drop(s, n.size), 1, n.value), Drop(Drop(s, n.size), n.value))
                  ELSE Unreadable
    <3> HIDE DEF s
    <3> QED
      BY <2>4 DEF Blob
  <2> HIDE DEF s, n
  <2>7. Blob[s] = Reading(SubSeq(b, 1, Len(data)), Drop(b, Len(data)))
    BY <2>3, <2>5, <2>6, Zenon
  <2> QED
    BY <2>2, <2>3, <2>7
<1> HIDE DEF e
<1> QED
  BY <1>3, <1>4 DEF ReadsBack

\* A structure: its fields one after the other.
LEMMA StructReadsBack ==
    ASSUME NEW parts \in Seq(Input), NEW types, NEW trees, Len(types) = Len(parts),
           \A i \in 1 .. Len(parts) : ReadsBack(types[i], parts[i], trees[i])
    PROVE  ReadsBack(Struct(types), FlattenSeq(parts), [i \in 1 .. Len(parts) |-> trees[i]])
<1> DEFINE f == FlattenSeq(parts)
           t == [i \in 1 .. Len(parts) |-> trees[i]]
<1>1. <<>> \in Input
  BY DEF Input
<1>2. f \in Input /\ \A rest \in Input : ReadAll(types, f \o rest) = Reading(t, rest)
  <2>1. /\ t = [i \in 1 .. Len(parts) |-> t[i]]
        /\ \A i \in 1 .. Len(parts) : ReadsBack(types[i], parts[i], t[i])
    OBVIOUS
  <2> HIDE DEF t
  <2>2. ASSUME NEW rest \in Input
        PROVE  f \in Input /\ ReadAll(types, f \o rest) = Reading(t, rest)
    BY <2>1, PartsReadBack
  <2> QED
    BY <1>1, <2>2
<1> HIDE DEF f, t
<1>3. ASSUME NEW rest \in Input PROVE Struct(types)[f \o rest] = Reading(t, rest)
  <2> DEFINE s == f \o rest
  <2>1. s \in Input
    BY <1>2, Joined
  <2>2. Struct(types)[s] = ReadAll(types, s)
    <3> HIDE DEF s
    <3> QED
      BY <2>1 DEF Struct
  <2> QED
    BY <1>2, <2>2
<1> QED
  BY <1>2, <1>3 DEF ReadsBack, f, t

\* A list: the count, then the items.
LEMMA VecReadsBack ==
    ASSUME NEW items \in Seq(Input), Len(items) \in Encodable, NEW type, NEW trees,
           \A i \in 1 .. Len(items) : ReadsBack(type, items[i], trees[i])
    PROVE  ReadsBack(Vec(type), SerializeVec(items), [i \in 1 .. Len(items) |-> trees[i]])
<1> DEFINE e == EncodeScaleInt(Len(items))
           f == FlattenSeq(items)
           t == [i \in 1 .. Len(items) |-> trees[i]]
           types == [i \in 1 .. Len(items) |-> type]
<1>1. <<>> \in Input
  BY DEF Input
<1>2. e \in Input
  BY <1>1, CountReadsBack
<1>3. f \in Input /\ \A rest \in Input : ReadAll(types, f \o rest) = Reading(t, rest)
  <2>1. Len(types) = Len(items) /\ \A i \in 1 .. Len(items) : types[i] = type
    OBVIOUS
  <2> HIDE DEF types
  <2>2. /\ t = [i \in 1 .. Len(items) |-> t[i]]
        /\ \A i \in 1 .. Len(items) : ReadsBack(types[i], items[i], t[i])
    BY <2>1
  <2> HIDE DEF t
  <2>3. ASSUME NEW rest \in Input
        PROVE  f \in Input /\ ReadAll(types, f \o rest) = Reading(t, rest)
    BY <2>1, <2>2, PartsReadBack
  <2> QED
    BY <1>1, <2>3
<1>4. SerializeVec(items) = e \o f /\ e \o f \in Input
  BY <1>2, <1>3, Joined DEF SerializeVec
<1>5. ASSUME NEW rest \in Input PROVE Vec(type)[(e \o f) \o rest] = Reading(t, rest)
  <2> DEFINE b == f \o rest
             s == e \o b
             n == DecodeScaleInt(s)
  <2>1. b \in Input
    BY <1>3, Joined
  <2>2. (e \o f) \o rest = s
    BY <1>2, <1>3, Regroup, Zenon
  <2>3. ReadAll(types, b) = Reading(t, rest)
    BY <1>3
  <2> HIDE DEF b
  <2>4. s \in Input
    BY <1>2, <2>1, Joined
  <2>5. n.ok /\ n.value = Len(items) /\ Drop(s, n.size) = b
    BY <2>1, CountReadsBack
  <2>6. Vec(type)[s] = IF n.ok THEN ReadAll([i \in 1 .. n.value |-> type], Drop(s, n.size))
                       ELSE Unreadable
    <3> HIDE DEF s
    <3> QED
      BY <2>4 DEF Vec
  <2> HIDE DEF s, n, t
  <2>7. Vec(type)[s] = ReadAll(types, b)
    BY <2>5, <2>6
  <2> QED
    BY <2>2, <2>3, <2>7
<1> HIDE DEF e, f, t
<1>6. ReadsBack(Vec(type), SerializeVec(items), t)
  BY <1>4, <1>5 DEF ReadsBack
<1> QED
  BY <1>6 DEF t

\* A list with a type for each element.
LEMMA TupleReadsBack ==
    ASSUME NEW items \in Seq(Input), Len(items) \in Encodable, NEW types, NEW trees,
           Len(types) = Len(items),
           \A i \in 1 .. Len(items) : ReadsBack(types[i], items[i], trees[i])
    PROVE  ReadsBack(Tuple(types), SerializeVec(items), [i \in 1 .. Len(items) |-> trees[i]])
<1> DEFINE e == EncodeScaleInt(Len(items))
           f == FlattenSeq(items)
           t == [i \in 1 .. Len(items) |-> trees[i]]
<1>1. <<>> \in Input
  BY DEF Input
<1>2. e \in Input
  BY <1>1, CountReadsBack
<1>3. f \in Input /\ \A rest \in Input : ReadAll(types, f \o rest) = Reading(t, rest)
  <2>1. /\ t = [i \in 1 .. Len(items) |-> t[i]]
        /\ \A i \in 1 .. Len(items) : ReadsBack(types[i], items[i], t[i])
    OBVIOUS
  <2> HIDE DEF t
  <2>2. ASSUME NEW rest \in Input
        PROVE  f \in Input /\ ReadAll(types, f \o rest) = Reading(t, rest)
    BY <2>1, PartsReadBack
  <2> QED
    BY <1>1, <2>2
<1>4. SerializeVec(items) = e \o f /\ e \o f \in Input
  BY <1>2, <1>3, Joined DEF SerializeVec
<1>5. ASSUME NEW rest \in Input PROVE Tuple(types)[(e \o f) \o rest] = Reading(t, rest)
  <2> DEFINE b == f \o rest
             s == e \o b
             n == DecodeScaleInt(s)
  <2>1. b \in Input
    BY <1>3, Joined
  <2>2. (e \o f) \o rest = s
    BY <1>2, <1>3, Regroup, Zenon
  <2>3. ReadAll(types, b) = Reading(t, rest)
    BY <1>3
  <2> HIDE DEF b
  <2>4. s \in Input
    BY <1>2, <2>1, Joined
  <2>5. n.ok /\ n.value = Len(items) /\ Drop(s, n.size) = b
    BY <2>1, CountReadsBack
  <2>6. Tuple(types)[s] = IF n.ok /\ n.value = Len(types) THEN ReadAll(types, Drop(s, n.size))
                          ELSE Unreadable
    <3> HIDE DEF s
    <3> QED
      BY <2>4 DEF Tuple
  <2> HIDE DEF s, n, t
  <2>7. Tuple(types)[s] = ReadAll(types, b)
    BY <2>5, <2>6
  <2> QED
    BY <2>2, <2>3, <2>7
<1> HIDE DEF e, f, t
<1>6. ReadsBack(Tuple(types), SerializeVec(items), t)
  BY <1>4, <1>5 DEF ReadsBack
<1> QED
  BY <1>6 DEF t

\* Joining a list of one input.
LEMMA FlattenOne ==
    \A a \in Input : FlattenSeq(<<a>>) = a
<1> SUFFICES ASSUME NEW a \in Input
             PROVE  FlattenSeq(<<a>>) = a
  OBVIOUS
<1> DEFINE s == <<a>>
<1>1. Len(s) = 1 /\ s[1] = a
  OBVIOUS
<1> HIDE DEF s
<1>2. Len(s) \in Nat \ {0}
  BY <1>1
<1>3. PICK h : /\ h[1] = s[1]
               /\ \A i \in 2 .. Len(s) : h[i] = h[i - 1] \o s[i]
               /\ FlattenSeq(s) = h[Len(s)]
  BY <1>2, FlattenEquation, Zenon
<1>4. FlattenSeq(s) = a
  BY <1>1, <1>3
<1> QED
  BY <1>4 DEF s

\* Joining a list of two inputs.
LEMMA FlattenTwo ==
    \A a, b \in Input : FlattenSeq(<<a, b>>) = a \o b
<1> SUFFICES ASSUME NEW a \in Input, NEW b \in Input
             PROVE  FlattenSeq(<<a, b>>) = a \o b
  OBVIOUS
<1> DEFINE s == <<a, b>>
<1>1. Len(s) = 2 /\ s[1] = a /\ s[2] = b
  OBVIOUS
<1> HIDE DEF s
<1>2. Len(s) \in Nat \ {0}
  BY <1>1
<1>3. PICK h : /\ h[1] = s[1]
               /\ \A i \in 2 .. Len(s) : h[i] = h[i - 1] \o s[i]
               /\ FlattenSeq(s) = h[Len(s)]
  BY <1>2, FlattenEquation, Zenon
<1>5. h[2] = h[1] \o s[2]
  <2>2. 2 \in 2 .. Len(s) /\ 2 - 1 = 1
    BY <1>1
  <2>12. h[2] = h[1] \o s[2]
    BY <1>3, <2>2, Zenon
  <2> QED
    BY <2>12
<1>4. FlattenSeq(s) = a \o b
  BY <1>1, <1>3, <1>5
<1> QED
  BY <1>4 DEF s

\* Joining a list of three inputs.
LEMMA FlattenThree ==
    \A a, b, c \in Input : FlattenSeq(<<a, b, c>>) = (a \o b) \o c
<1> SUFFICES ASSUME NEW a \in Input, NEW b \in Input, NEW c \in Input
             PROVE  FlattenSeq(<<a, b, c>>) = (a \o b) \o c
  OBVIOUS
<1> DEFINE s == <<a, b, c>>
<1>1. Len(s) = 3 /\ s[1] = a /\ s[2] = b /\ s[3] = c
  OBVIOUS
<1> HIDE DEF s
<1>2. Len(s) \in Nat \ {0}
  BY <1>1
<1>3. PICK h : /\ h[1] = s[1]
               /\ \A i \in 2 .. Len(s) : h[i] = h[i - 1] \o s[i]
               /\ FlattenSeq(s) = h[Len(s)]
  BY <1>2, FlattenEquation, Zenon
<1>5. h[2] = h[1] \o s[2] /\ h[3] = h[2] \o s[3]
  <2>2. 2 \in 2 .. Len(s) /\ 2 - 1 = 1
    BY <1>1
  <2>3. 3 \in 2 .. Len(s) /\ 3 - 1 = 2
    BY <1>1
  <2>12. h[2] = h[1] \o s[2]
    BY <1>3, <2>2, Zenon
  <2>13. h[3] = h[2] \o s[3]
    BY <1>3, <2>3, Zenon
  <2> QED
    BY <2>12, <2>13
<1>4. FlattenSeq(s) = (a \o b) \o c
  BY <1>1, <1>3, <1>5
<1> QED
  BY <1>4 DEF s

\* Joining a list of five inputs.
LEMMA FlattenFive ==
    \A a, b, c, d, e \in Input : FlattenSeq(<<a, b, c, d, e>>) = (((a \o b) \o c) \o d) \o e
<1> SUFFICES ASSUME NEW a \in Input, NEW b \in Input, NEW c \in Input, NEW d \in Input, NEW e \in Input
             PROVE  FlattenSeq(<<a, b, c, d, e>>) = (((a \o b) \o c) \o d) \o e
  OBVIOUS
<1> DEFINE s == <<a, b, c, d, e>>
<1>1. Len(s) = 5 /\ s[1] = a /\ s[2] = b /\ s[3] = c /\ s[4] = d /\ s[5] = e
  OBVIOUS
<1> HIDE DEF s
<1>2. Len(s) \in Nat \ {0}
  BY <1>1
<1>3. PICK h : /\ h[1] = s[1]
               /\ \A i \in 2 .. Len(s) : h[i] = h[i - 1] \o s[i]
               /\ FlattenSeq(s) = h[Len(s)]
  BY <1>2, FlattenEquation, Zenon
<1>5. h[2] = h[1] \o s[2] /\ h[3] = h[2] \o s[3] /\ h[4] = h[3] \o s[4] /\ h[5] = h[4] \o s[5]
  <2>2. 2 \in 2 .. Len(s) /\ 2 - 1 = 1
    BY <1>1
  <2>3. 3 \in 2 .. Len(s) /\ 3 - 1 = 2
    BY <1>1
  <2>4. 4 \in 2 .. Len(s) /\ 4 - 1 = 3
    BY <1>1
  <2>5. 5 \in 2 .. Len(s) /\ 5 - 1 = 4
    BY <1>1
  <2>12. h[2] = h[1] \o s[2]
    BY <1>3, <2>2, Zenon
  <2>13. h[3] = h[2] \o s[3]
    BY <1>3, <2>3, Zenon
  <2>14. h[4] = h[3] \o s[4]
    BY <1>3, <2>4, Zenon
  <2>15. h[5] = h[4] \o s[5]
    BY <1>3, <2>5, Zenon
  <2> QED
    BY <2>12, <2>13, <2>14, <2>15
<1>4. FlattenSeq(s) = (((a \o b) \o c) \o d) \o e
  BY <1>1, <1>3, <1>5
<1> QED
  BY <1>4 DEF s

\* A structure of one field.
LEMMA OneReadBack ==
    ASSUME NEW b1 \in Input, NEW T1, NEW x1, ReadsBack(T1, b1, x1)
    PROVE  \A rest \in Input : ReadAll(<<T1>>, b1 \o rest) = Reading(<<x1>>, rest)
<1> DEFINE parts == <<b1>>
           types == <<T1>>
           trees == <<x1>>
<1>1. parts \in Seq(Input) /\ Len(parts) = 1 /\ Len(types) = 1
  OBVIOUS
<1>2. \A i \in 1 .. Len(parts) : ReadsBack(types[i], parts[i], trees[i])
  OBVIOUS
<1>3. FlattenSeq(parts) = b1
  BY FlattenOne, Zenon
<1>4. [i \in 1 .. Len(parts) |-> trees[i]] = trees
  OBVIOUS
<1> HIDE DEF parts, types, trees
<1>5. ASSUME NEW rest \in Input PROVE ReadAll(types, b1 \o rest) = Reading(trees, rest)
  <2>1. ReadAll(types, FlattenSeq(parts) \o rest) = Reading(trees, rest)
    BY <1>1, <1>2, <1>4, PartsReadBack
  <2> QED
    BY <1>3, <1>4, <2>1
<1> QED
  BY <1>5 DEF types, trees

\* A structure of two fields.
LEMMA TwoReadBack ==
    ASSUME NEW b1 \in Input, NEW b2 \in Input, NEW T1, NEW T2, NEW x1, NEW x2,
           ReadsBack(T1, b1, x1), ReadsBack(T2, b2, x2)
    PROVE  /\ ReadsBack(Struct(<<T1, T2>>), b1 \o b2, <<x1, x2>>)
           /\ \A rest \in Input : ReadAll(<<T1, T2>>, (b1 \o b2) \o rest) = Reading(<<x1, x2>>, rest)
<1> DEFINE parts == <<b1, b2>>
           types == <<T1, T2>>
           trees == <<x1, x2>>
<1>1. parts \in Seq(Input) /\ Len(parts) = 2 /\ Len(types) = 2
  OBVIOUS
<1>2. \A i \in 1 .. Len(parts) : ReadsBack(types[i], parts[i], trees[i])
  OBVIOUS
<1>3. FlattenSeq(parts) = b1 \o b2
  BY FlattenTwo, Zenon
<1>4. [i \in 1 .. Len(parts) |-> trees[i]] = trees
  OBVIOUS
<1> HIDE DEF parts, types, trees
<1>5. ReadsBack(Struct(types), b1 \o b2, trees)
  <2>1. ReadsBack(Struct(types), FlattenSeq(parts), [i \in 1 .. Len(parts) |-> trees[i]])
    BY <1>1, <1>2, StructReadsBack
  <2> QED
    BY <1>3, <1>4, <2>1
<1>6. ASSUME NEW rest \in Input PROVE ReadAll(types, (b1 \o b2) \o rest) = Reading(trees, rest)
  <2> DEFINE s == (b1 \o b2) \o rest
  <2>1. s \in Input
    BY Joined
  <2>2. Struct(types)[s] = Reading(trees, rest)
    BY <1>5 DEF ReadsBack
  <2> HIDE DEF s
  <2>3. Struct(types)[s] = ReadAll(types, s)
    BY <2>1 DEF Struct
  <2> QED
    BY <2>2, <2>3 DEF s
<1> QED
  BY <1>5, <1>6 DEF types, trees

\* A structure of three fields.
LEMMA ThreeReadBack ==
    ASSUME NEW b1 \in Input, NEW b2 \in Input, NEW b3 \in Input,
           NEW T1, NEW T2, NEW T3, NEW x1, NEW x2, NEW x3,
           ReadsBack(T1, b1, x1), ReadsBack(T2, b2, x2), ReadsBack(T3, b3, x3)
    PROVE  ReadsBack(Struct(<<T1, T2, T3>>), (b1 \o b2) \o b3, <<x1, x2, x3>>)
<1> DEFINE parts == <<b1, b2, b3>>
           types == <<T1, T2, T3>>
           trees == <<x1, x2, x3>>
<1>1. parts \in Seq(Input) /\ Len(parts) = 3 /\ Len(types) = 3
  OBVIOUS
<1>2. \A i \in 1 .. Len(parts) : ReadsBack(types[i], parts[i], trees[i])
  OBVIOUS
<1>3. FlattenSeq(parts) = (b1 \o b2) \o b3
  BY FlattenThree, Zenon
<1>4. [i \in 1 .. Len(parts) |-> trees[i]] = trees
  OBVIOUS
<1> HIDE DEF parts, types, trees
<1>5. ReadsBack(Struct(types), FlattenSeq(parts), [i \in 1 .. Len(parts) |-> trees[i]])
  BY <1>1, <1>2, StructReadsBack
<1>6. ReadsBack(Struct(types), (b1 \o b2) \o b3, trees)
  BY <1>3, <1>4, <1>5
<1> QED
  BY <1>6 DEF types, trees

\* A structure of five fields.
LEMMA FiveReadBack ==
    ASSUME NEW b1 \in Input, NEW b2 \in Input, NEW b3 \in Input, NEW b4 \in Input,
           NEW b5 \in Input,
           NEW T1, NEW T2, NEW T3, NEW T4, NEW T5,
           NEW x1, NEW x2, NEW x3, NEW x4, NEW x5,
           ReadsBack(T1, b1, x1), ReadsBack(T2, b2, x2), ReadsBack(T3, b3, x3),
           ReadsBack(T4, b4, x4), ReadsBack(T5, b5, x5)
    PROVE  ReadsBack(Struct(<<T1, T2, T3, T4, T5>>), (((b1 \o b2) \o b3) \o b4) \o b5,
                     <<x1, x2, x3, x4, x5>>)
<1> DEFINE parts == <<b1, b2, b3, b4, b5>>
           types == <<T1, T2, T3, T4, T5>>
           trees == <<x1, x2, x3, x4, x5>>
<1>1. parts \in Seq(Input) /\ Len(parts) = 5 /\ Len(types) = 5
  OBVIOUS
<1>2. \A i \in 1 .. Len(parts) : ReadsBack(types[i], parts[i], trees[i])
  OBVIOUS
<1>3. FlattenSeq(parts) = (((b1 \o b2) \o b3) \o b4) \o b5
  <2>1. b1 \in Input /\ b2 \in Input
    OBVIOUS
  <2>2. \A c, d, e \in Input :
            FlattenSeq(<<b1, b2, c, d, e>>) = (((b1 \o b2) \o c) \o d) \o e
    <3>1. b1 \in Input
      BY <2>1
    <3>2. \A b, c, d, e \in Input :
              FlattenSeq(<<b1, b, c, d, e>>) = (((b1 \o b) \o c) \o d) \o e
      BY ONLY <3>1, FlattenFive, Zenon
    <3>3. b2 \in Input
      BY <2>1
    <3> QED
      BY ONLY <3>2, <3>3, Zenon
  <2>3. b3 \in Input
    OBVIOUS
  <2>4. \A d, e \in Input :
            FlattenSeq(<<b1, b2, b3, d, e>>) = (((b1 \o b2) \o b3) \o d) \o e
    BY ONLY <2>2, <2>3, Zenon
  <2>5. b4 \in Input
    OBVIOUS
  <2>6. \A e \in Input :
            FlattenSeq(<<b1, b2, b3, b4, e>>) = (((b1 \o b2) \o b3) \o b4) \o e
    BY ONLY <2>4, <2>5, Zenon
  <2>7. b5 \in Input
    OBVIOUS
  <2> QED
    BY ONLY <2>6, <2>7, Zenon
<1>4. [i \in 1 .. Len(parts) |-> trees[i]] = trees
  OBVIOUS
<1> HIDE DEF parts, types, trees
<1>5. ReadsBack(Struct(types), FlattenSeq(parts), [i \in 1 .. Len(parts) |-> trees[i]])
  BY <1>1, <1>2, StructReadsBack
<1>6. ReadsBack(Struct(types), (((b1 \o b2) \o b3) \o b4) \o b5, trees)
  BY <1>3, <1>4, <1>5
<1> QED
  BY <1>6 DEF types, trees

\* A single element at the front.
LEMMA FrontElement ==
    ASSUME NEW x \in Nat, NEW b \in Input
    PROVE  /\ <<x>> \in Input /\ <<x>> \o b \in Input /\ <<x>> \o b # <<>>
           /\ (<<x>> \o b)[1] = x /\ Tail(<<x>> \o b) = b
BY DEF Input

\* An optional value: a 0 for none, a 1 and the value for some.
LEMMA NoneReadsBack ==
    ASSUME NEW T PROVE ReadsBack(Option(T), <<0>>, <<>>)
<1>1. ASSUME NEW rest \in Input PROVE Option(T)[<<0>> \o rest] = Reading(<<>>, rest)
  <2> DEFINE s == <<0>> \o rest
  <2>1. s \in Input /\ s # <<>> /\ s[1] = 0 /\ Tail(s) = rest
    BY FrontElement
  <2> HIDE DEF s
  <2>2. Option(T)[s] = Reading(<<>>, rest)
    BY <2>1 DEF Option
  <2> QED
    BY <2>2 DEF s
<1>2. <<0>> \in Input
  BY DEF Input
<1> QED
  BY <1>1, <1>2 DEF ReadsBack

\* The value that is there.
LEMMA SomeReadsBack ==
    ASSUME NEW T, NEW b \in Input, NEW x, ReadsBack(T, b, x)
    PROVE  ReadsBack(Option(T), <<1>> \o b, <<x>>)
<1>1. ASSUME NEW rest \in Input PROVE Option(T)[(<<1>> \o b) \o rest] = Reading(<<x>>, rest)
  <2> DEFINE r == b \o rest
             s == <<1>> \o r
  <2>1. r \in Input
    BY Joined
  <2>2. <<1>> \in Input
    BY DEF Input
  <2>3. (<<1>> \o b) \o rest = s
    BY <2>2, Regroup, Zenon
  <2>4. ReadAll(<<T>>, r) = Reading(<<x>>, rest)
    BY OneReadBack
  <2> HIDE DEF r
  <2>5. s \in Input /\ s # <<>> /\ s[1] = 1 /\ Tail(s) = r
    BY <2>1, FrontElement
  <2> HIDE DEF s
  <2>6. Option(T)[s] = ReadAll(<<T>>, Tail(s))
    BY <2>5 DEF Option
  <2> QED
    BY <2>3, <2>4, <2>5, <2>6
<1>2. <<1>> \o b \in Input
  BY FrontElement
<1> QED
  BY <1>1, <1>2 DEF ReadsBack

\* A case of an enumeration: its discriminant and its fields.
LEMMA CaseReadsBack ==
    ASSUME NEW types, NEW k \in Nat, k + 1 \in DOMAIN types,
           NEW b \in Input, NEW x, ReadsBack(types[k + 1], b, x)
    PROVE  ReadsBack(Enum(types), <<k>> \o b, <<<<k>>, x>>)
<1>1. ASSUME NEW rest \in Input
      PROVE  Enum(types)[(<<k>> \o b) \o rest] = Reading(<<<<k>>, x>>, rest)
  <2> DEFINE r == b \o rest
             s == <<k>> \o r
             T == types[k + 1]
  <2>1. r \in Input
    BY Joined
  <2>2. <<k>> \in Input
    BY DEF Input
  <2>3. (<<k>> \o b) \o rest = s
    BY <2>2, Regroup, Zenon
  <2>4. ReadAll(<<Fixed, T>>, (<<k>> \o b) \o rest) = Reading(<<<<k>>, x>>, rest)
    <3>1. ReadsBack(Fixed, <<k>>, <<k>>)
      BY FixedReadsBack
    <3>2. ReadsBack(T, b, x)
      OBVIOUS
    <3> HIDE DEF T
    <3> QED
      BY <2>2, <3>1, <3>2, TwoReadBack
  <2> HIDE DEF r
  <2>5. s \in Input /\ s # <<>> /\ s[1] = k
    BY <2>1, FrontElement
  <2> HIDE DEF s
  <2>6. Enum(types)[s] = ReadAll(<<Fixed, T>>, s)
    BY <2>5 DEF Enum
  <2> QED
    BY <2>3, <2>4, <2>6
<1>2. <<k>> \o b \in Input
  BY FrontElement
<1> QED
  BY <1>1, <1>2 DEF ReadsBack

-----------------------------------------------------------------------------
(* The structures of a transaction.                                        *)

\* A list given by its items and their trees.
LEMMA ItemsReadBack ==
    ASSUME NEW n \in Encodable, NEW items, NEW trees, NEW type,
           items = [i \in 1 .. n |-> items[i]], trees = [i \in 1 .. n |-> trees[i]],
           \A i \in 1 .. n : ReadsBack(type, items[i], trees[i])
    PROVE  ReadsBack(Vec(type), SerializeVec(items), trees)
<1>1. n \in Nat
  BY DEF Encodable
<1>2. \A i \in 1 .. n : items[i] \in Input
  BY DEF ReadsBack
<1>3. items \in Seq(Input) /\ Len(items) = n
  BY <1>1, <1>2
<1>4. ReadsBack(Vec(type), SerializeVec(items), [i \in 1 .. Len(items) |-> trees[i]])
  BY <1>3, VecReadsBack
<1> QED
  BY <1>3, <1>4

\* Fields of fixed width, joined one by one, are the sequence of them.
LEMMA FlattenSingles ==
    ASSUME NEW s \in Input
    PROVE  FlattenSeq([i \in 1 .. Len(s) |-> <<s[i]>>]) = s
<1> DEFINE n == Len(s)
           parts == [i \in 1 .. n |-> <<s[i]>>]
<1>0. s \in Seq(Nat) /\ n \in Nat
  BY DEF Input
<1>1. parts \in Seq(Input) /\ Len(parts) = n /\ \A i \in 1 .. n : parts[i] = <<s[i]>>
  BY <1>0 DEF Input
<1> HIDE DEF parts
<1>2. PICK p : /\ p[0] = <<>>
               /\ \A i \in 1 .. n : p[i] = p[i - 1] \o parts[i]
               /\ p[n] = FlattenSeq(parts)
  BY <1>1, FlattenPrefixes
<1> DEFINE S == {k \in 0 .. n : p[k] = SubSeq(s, 1, k)}
<1>3. 0 \in S
  <2>1. SubSeq(s, 1, 0) = <<>>
    BY <1>0
  <2>2. 0 \in 0 .. n /\ p[0] = SubSeq(s, 1, 0)
    BY <1>0, <1>2, <2>1
  <2> HIDE DEF n
  <2> QED
    BY <2>2
<1>4. ASSUME NEW k \in 0 .. n, k \in S, k < n PROVE k + 1 \in S
  <2>1. k + 1 \in 1 .. n /\ (k + 1) - 1 = k /\ k + 1 \in 0 .. n
    BY <1>0, <1>4
  <2>2. p[k + 1] = SubSeq(s, 1, k) \o <<s[k + 1]>>
    BY <1>1, <1>2, <1>4, <2>1
  <2>3. SubSeq(s, 1, k) \o <<s[k + 1]>> = SubSeq(s, 1, k + 1)
    BY <1>0, <2>1
  <2> QED
    BY <2>1, <2>2, <2>3
<1>5. n \in S
  <2> HIDE DEF S, n
  <2>1. \A k \in 0 .. n : k \in S
    BY <1>0, <1>3, <1>4, InductionUpTo
  <2> QED
    BY <1>0, <2>1
<1>6. SubSeq(s, 1, n) = s
  BY <1>0
<1> QED
  BY <1>2, <1>5, <1>6 DEF parts

\* A structure of fields of fixed width only: a UTXO, a proof, a memo.
LEMMA FieldsReadBack ==
    ASSUME NEW s \in Input
    PROVE  ReadsBack(Struct([i \in 1 .. Len(s) |-> Fixed]), s, Leaves(s))
<1> DEFINE n == Len(s)
           parts == [i \in 1 .. n |-> <<s[i]>>]
           types == [i \in 1 .. n |-> Fixed]
<1>0. s \in Seq(Nat) /\ n \in Nat
  BY DEF Input
<1>1. parts \in Seq(Input) /\ Len(parts) = n /\ Len(types) = n
  BY <1>0 DEF Input
<1>2. \A i \in 1 .. Len(parts) : ReadsBack(types[i], parts[i], parts[i])
  BY <1>0, <1>1, FixedReadsBack
<1>3. [i \in 1 .. Len(parts) |-> parts[i]] = Leaves(s)
  BY <1>0, <1>1 DEF Leaves, Each, Leaf
<1>4. FlattenSeq(parts) = s
  BY FlattenSingles
<1> HIDE DEF parts, types, n
<1>5. ReadsBack(Struct(types), FlattenSeq(parts), [i \in 1 .. Len(parts) |-> parts[i]])
  BY <1>1, <1>2, StructReadsBack
<1> QED
  BY <1>3, <1>4, <1>5 DEF types, n

\* A UTXO that is spent, field by field.
LEMMA SpendReadsBack ==
    ASSUME NEW u \in UtxoSpend
    PROVE  ReadsBack(UtxoSpendType, SerializeUtxoSpend(u),
                     Leaves(<<u.value, u.owner, u.type_, u.intent_hash, u.output_no>>))
<1> DEFINE s == <<u.value, u.owner, u.type_, u.intent_hash, u.output_no>>
<1>1. s \in Input /\ Len(s) = 5
  BY DEF UtxoSpend, Input
<1>2. SerializeUtxoSpend(u) = s
  BY DEF SerializeUtxoSpend
<1> HIDE DEF s
<1>3. UtxoSpendType = Struct([i \in 1 .. Len(s) |-> Fixed])
  <2>1. <<Fixed, Fixed, Fixed, Fixed, Fixed>> = [i \in 1 .. 5 |-> Fixed]
    OBVIOUS
  <2> QED
    BY <1>1, <2>1 DEF UtxoSpendType
<1>4. ReadsBack(UtxoSpendType, s, Leaves(s))
  BY <1>1, <1>3, FieldsReadBack
<1> QED
  BY <1>2, <1>4 DEF s

\* A new UTXO.
LEMMA OutputReadsBack ==
    ASSUME NEW o \in UtxoOutput
    PROVE  ReadsBack(UtxoOutputType, SerializeUtxoOutput(o), Leaves(<<o.value, o.owner, o.type_>>))
<1> DEFINE s == <<o.value, o.owner, o.type_>>
<1>1. s \in Input /\ Len(s) = 3
  BY DEF UtxoOutput, Input
<1>2. SerializeUtxoOutput(o) = s
  BY DEF SerializeUtxoOutput
<1> HIDE DEF s
<1>3. UtxoOutputType = Struct([i \in 1 .. Len(s) |-> Fixed])
  <2>1. <<Fixed, Fixed, Fixed>> = [i \in 1 .. 3 |-> Fixed]
    OBVIOUS
  <2> QED
    BY <1>1, <2>1 DEF UtxoOutputType
<1>4. ReadsBack(UtxoOutputType, s, Leaves(s))
  BY <1>1, <1>3, FieldsReadBack
<1> QED
  BY <1>2, <1>4 DEF s

\* A list that can be written, as a function on its positions.
LEMMA ListShape ==
    ASSUME NEW S, NEW list \in ListsOf(S)
    PROVE  /\ Len(list) \in Encodable /\ DOMAIN list = 1 .. Len(list)
           /\ \A i \in 1 .. Len(list) : list[i] \in S
BY DEF ListsOf

\* An offer: the inputs, the outputs and the signatures.
LEMMA OfferReadsBack ==
    ASSUME NEW offer \in UnshieldedOffer, offer # NoOffer
    PROVE  /\ ReadsBack(OfferType, SerializeUnshieldedOffer(offer), OfferTree(offer)[1])
           /\ OfferTree(offer) = <<OfferTree(offer)[1]>>
<1> DEFINE ins == offer.inputs
           outs == offer.outputs
           sigs == offer.signatures
           Spend(u) == Leaves(<<u.value, u.owner, u.type_, u.intent_hash, u.output_no>>)
           Output(o) == Leaves(<<o.value, o.owner, o.type_>>)
           bi == [i \in DOMAIN ins |-> SerializeUtxoSpend(ins[i])]
           bo == [i \in DOMAIN outs |-> SerializeUtxoOutput(outs[i])]
           bs == [i \in DOMAIN sigs |-> <<sigs[i]>>]
           ti == [i \in DOMAIN ins |-> Spend(ins[i])]
           to == [i \in DOMAIN outs |-> Output(outs[i])]
           ts == [i \in DOMAIN sigs |-> <<sigs[i]>>]
<1>1. ins \in ListsOf(UtxoSpend) /\ outs \in ListsOf(UtxoOutput) /\ sigs \in ListsOf(Nat)
  BY DEF UnshieldedOffer, ByteString
<1> HIDE DEF ins, outs, sigs, Spend, Output
<1>2. ReadsBack(Vec(UtxoSpendType), SerializeVec(bi), ti)
  <2>1. /\ Len(ins) \in Encodable /\ DOMAIN ins = 1 .. Len(ins)
        /\ \A i \in 1 .. Len(ins) : ins[i] \in UtxoSpend
    BY <1>1, ListShape
  <2>2. /\ bi = [i \in 1 .. Len(ins) |-> bi[i]] /\ ti = [i \in 1 .. Len(ins) |-> ti[i]]
    BY <2>1
  <2>3. \A i \in 1 .. Len(ins) : ReadsBack(UtxoSpendType, bi[i], ti[i])
    BY <2>1, SpendReadsBack DEF Spend
  <2> HIDE DEF bi, ti
  <2> QED
    BY <2>1, <2>2, <2>3, ItemsReadBack
<1>3. ReadsBack(Vec(UtxoOutputType), SerializeVec(bo), to)
  <2>1. /\ Len(outs) \in Encodable /\ DOMAIN outs = 1 .. Len(outs)
        /\ \A i \in 1 .. Len(outs) : outs[i] \in UtxoOutput
    BY <1>1, ListShape
  <2>2. /\ bo = [i \in 1 .. Len(outs) |-> bo[i]] /\ to = [i \in 1 .. Len(outs) |-> to[i]]
    BY <2>1
  <2>3. \A i \in 1 .. Len(outs) : ReadsBack(UtxoOutputType, bo[i], to[i])
    BY <2>1, OutputReadsBack DEF Output
  <2> HIDE DEF bo, to
  <2> QED
    BY <2>1, <2>2, <2>3, ItemsReadBack
<1>4. ReadsBack(Vec(Fixed), SerializeVec(bs), ts)
  <2>1. /\ Len(sigs) \in Encodable /\ DOMAIN sigs = 1 .. Len(sigs)
        /\ \A i \in 1 .. Len(sigs) : sigs[i] \in Nat
    BY <1>1, ListShape
  <2>2. /\ bs = [i \in 1 .. Len(sigs) |-> bs[i]] /\ ts = [i \in 1 .. Len(sigs) |-> ts[i]]
    BY <2>1
  <2>3. \A i \in 1 .. Len(sigs) : ReadsBack(Fixed, bs[i], ts[i])
    BY <2>1, FixedReadsBack
  <2> HIDE DEF bs, ts
  <2> QED
    BY <2>1, <2>2, <2>3, ItemsReadBack
<1>5. SerializeUnshieldedOffer(offer)
          = (SerializeVec(bi) \o SerializeVec(bo)) \o SerializeVec(bs)
  BY DEF SerializeUnshieldedOffer, ins, outs, sigs
<1>6. OfferTree(offer) = << <<ti, to, ts>> >>
  BY DEF OfferTree, Each, Leaves, Leaf, Spend, Output, ins, outs, sigs
<1> HIDE DEF bi, bo, bs, ti, to, ts
<1>7. /\ SerializeVec(bi) \in Input /\ SerializeVec(bo) \in Input
      /\ SerializeVec(bs) \in Input
  BY <1>2, <1>3, <1>4 DEF ReadsBack
<1>8. ReadsBack(Struct(<<Vec(UtxoSpendType), Vec(UtxoOutputType), Vec(Fixed)>>),
                (SerializeVec(bi) \o SerializeVec(bo)) \o SerializeVec(bs), <<ti, to, ts>>)
  BY <1>2, <1>3, <1>4, <1>7, ThreeReadBack
<1> QED
  BY <1>5, <1>6, <1>8 DEF OfferType

\* An offer that may be missing.
LEMMA OptionReadsBack ==
    ASSUME NEW offer \in UnshieldedOffer \cup {NoOffer}
    PROVE  ReadsBack(Option(OfferType), SerializeOption(offer), OfferTree(offer))
<1>1. CASE offer = NoOffer
  <2>1. SerializeOption(offer) = <<0>> /\ OfferTree(offer) = <<>>
    BY <1>1 DEF SerializeOption, OfferTree
  <2> QED
    BY <2>1, NoneReadsBack
<1>2. CASE offer # NoOffer
  <2>1. /\ ReadsBack(OfferType, SerializeUnshieldedOffer(offer), OfferTree(offer)[1])
        /\ OfferTree(offer) = <<OfferTree(offer)[1]>>
    BY <1>2, OfferReadsBack
  <2>2. SerializeUnshieldedOffer(offer) \in Input
    BY <2>1 DEF ReadsBack
  <2>3. SerializeOption(offer) = <<1>> \o SerializeUnshieldedOffer(offer)
    BY <1>2 DEF SerializeOption
  <2>4. ReadsBack(Option(OfferType), <<1>> \o SerializeUnshieldedOffer(offer),
                  <<OfferTree(offer)[1]>>)
    BY <2>1, <2>2, SomeReadsBack
  <2> QED
    BY <2>1, <2>3, <2>4
<1> QED
  BY <1>1, <1>2

\* An action: a deployment or a call.
LEMMA ActionReadsBack ==
    ASSUME NEW action \in ContractAction
    PROVE  ReadsBack(ActionType, SerializeContractAction(action), ActionTree(action))
<1> DEFINE deploy == Struct(<<Blob, Blob>>)
           call == Struct(<<Fixed, Blob, Blob>>)
           types == <<deploy, call>>
<1>0. 1 \in DOMAIN types /\ 2 \in DOMAIN types /\ types[1] = deploy /\ types[2] = call
  OBVIOUS
<1>9. ActionType = Enum(types)
  BY DEF ActionType
<1> HIDE DEF deploy, call, types
<1>1. CASE action.type = "deploy"
  <2> DEFINE x == action.bytecode
             y == action.initial_state
             bx == SerializeBytes(x)
             by == SerializeBytes(y)
  <2>1. x \in ByteString /\ y \in ByteString
    BY <1>1 DEF ContractAction
  <2>2. /\ SerializeContractAction(action) = (<<0>> \o bx) \o by
        /\ ActionTree(action) = << <<0>>, <<x, y>> >>
    BY <1>1 DEF SerializeContractAction, ActionTree
  <2> HIDE DEF x, y
  <2>3. ReadsBack(Blob, bx, x) /\ ReadsBack(Blob, by, y)
    BY <2>1, BlobReadsBack
  <2> HIDE DEF bx, by
  <2>4. bx \in Input /\ by \in Input /\ <<0>> \in Input
    BY <2>3 DEF ReadsBack, Input
  <2>5. ReadsBack(deploy, bx \o by, <<x, y>>)
    BY <2>3, <2>4, TwoReadBack DEF deploy
  <2>6. bx \o by \in Input
    BY <2>4, Joined
  <2>7. ReadsBack(Enum(types), <<0>> \o (bx \o by), << <<0>>, <<x, y>> >>)
    <3>1. 0 \in Nat /\ 0 + 1 \in DOMAIN types /\ types[0 + 1] = deploy
      BY <1>0
    <3> QED
      BY <2>5, <2>6, <3>1, CaseReadsBack
  <2>8. (<<0>> \o bx) \o by = <<0>> \o (bx \o by)
    BY <2>4, Regroup, Zenon
  <2> QED
    BY <1>9, <2>2, <2>7, <2>8
<1>2. CASE action.type # "deploy"
  <2> DEFINE a == action.address
             x == action.entry_point
             y == action.args
             ba == <<a>>
             bx == SerializeBytes(x)
             by == SerializeBytes(y)
  <2>1. a \in Nat /\ x \in ByteString /\ y \in ByteString
    BY <1>2 DEF ContractAction
  <2>2. /\ SerializeContractAction(action) = (<<1, a>> \o bx) \o by
        /\ ActionTree(action) = << <<1>>, << <<a>>, x, y>> >>
    BY <1>2 DEF SerializeContractAction, ActionTree
  <2> HIDE DEF x, y, a
  <2>3. ReadsBack(Blob, bx, x) /\ ReadsBack(Blob, by, y) /\ ReadsBack(Fixed, ba, ba)
    BY <2>1, BlobReadsBack, FixedReadsBack
  <2>9. <<1, a>> = <<1>> \o ba
    BY <2>1
  <2>10. ActionTree(action) = << <<1>>, <<ba, x, y>> >>
    BY <2>2
  <2> HIDE DEF bx, by, ba
  <2>4. ba \in Input /\ bx \in Input /\ by \in Input /\ <<1>> \in Input
    BY <2>3 DEF ReadsBack, Input
  <2>5. ReadsBack(call, (ba \o bx) \o by, <<ba, x, y>>)
    BY <2>3, <2>4, ThreeReadBack DEF call
  <2>6. ba \o bx \in Input /\ (ba \o bx) \o by \in Input
    BY <2>4, Joined
  <2>7. ReadsBack(Enum(types), <<1>> \o ((ba \o bx) \o by), << <<1>>, <<ba, x, y>> >>)
    <3>1. 1 \in Nat /\ 1 + 1 \in DOMAIN types /\ types[1 + 1] = call
      BY <1>0
    <3> QED
      BY <2>5, <2>6, <3>1, CaseReadsBack
  <2>8. ((<<1>> \o ba) \o bx) \o by = <<1>> \o ((ba \o bx) \o by)
    <3>1. (<<1>> \o ba) \o bx = <<1>> \o (ba \o bx)
      BY <2>4, Regroup, Zenon
    <3>2. (<<1>> \o (ba \o bx)) \o by = <<1>> \o ((ba \o bx) \o by)
      BY <2>4, <2>6, Regroup, Zenon
    <3> QED
      BY <3>1, <3>2, Zenon
  <2> QED
    BY <1>9, <2>2, <2>7, <2>8, <2>9, <2>10
<1> QED
  BY <1>1, <1>2

\* An intent: its two offers, its time to live, its actions and its
\* commitment.
LEMMA IntentReadsBack ==
    ASSUME NEW intent \in Intent
    PROVE  ReadsBack(IntentType, SerializeIntent(intent), IntentTree(intent))
<1> DEFINE g == intent.guaranteed_unshielded_offer
           f == intent.fallible_unshielded_offer
           acts == intent.actions
           items == [i \in DOMAIN acts |-> SerializeContractAction(acts[i])]
           trees == [i \in DOMAIN acts |-> ActionTree(acts[i])]
           b1 == SerializeOption(g)
           b2 == SerializeOption(f)
           b3 == <<intent.ttl>>
           b4 == SerializeVec(items)
           b5 == <<intent.binding_commitment>>
           T1 == Option(OfferType)
           T4 == Vec(ActionType)
           x1 == OfferTree(g)
           x2 == OfferTree(f)
<1>0. /\ g \in UnshieldedOffer \cup {NoOffer} /\ f \in UnshieldedOffer \cup {NoOffer}
      /\ intent.ttl \in Nat /\ intent.binding_commitment \in Nat
      /\ acts \in ListsOf(ContractAction)
  BY DEF Intent
<1>1. SerializeIntent(intent) = (((b1 \o b2) \o b3) \o b4) \o b5
  BY DEF SerializeIntent
<1>2. IntentTree(intent) = <<x1, x2, b3, trees, b5>>
  BY DEF IntentTree, Each
<1>3. IntentType = Struct(<<T1, T1, Fixed, T4, Fixed>>)
  BY DEF IntentType
<1>4. ReadsBack(T1, b1, x1) /\ ReadsBack(T1, b2, x2)
  BY <1>0, OptionReadsBack
<1>5. ReadsBack(Fixed, b3, b3) /\ ReadsBack(Fixed, b5, b5)
  BY <1>0, FixedReadsBack
<1>6. ReadsBack(T4, b4, trees)
  <2> HIDE DEF acts
  <2>1. /\ Len(acts) \in Encodable /\ DOMAIN acts = 1 .. Len(acts)
        /\ \A i \in 1 .. Len(acts) : acts[i] \in ContractAction
    BY <1>0, ListShape
  <2>2. /\ items = [i \in 1 .. Len(acts) |-> items[i]]
        /\ trees = [i \in 1 .. Len(acts) |-> trees[i]]
    BY <2>1
  <2>3. \A i \in 1 .. Len(acts) : ReadsBack(ActionType, items[i], trees[i])
    BY <2>1, ActionReadsBack
  <2> HIDE DEF items, trees
  <2> QED
    BY <2>1, <2>2, <2>3, ItemsReadBack
<1> HIDE DEF b1, b2, b3, b4, b5, T1, T4, x1, x2, trees
<1>7. b1 \in Input /\ b2 \in Input /\ b3 \in Input /\ b4 \in Input /\ b5 \in Input
  BY <1>4, <1>5, <1>6 DEF ReadsBack
<1>8. ReadsBack(Struct(<<T1, T1, Fixed, T4, Fixed>>), (((b1 \o b2) \o b3) \o b4) \o b5,
                <<x1, x2, b3, trees, b5>>)
  BY <1>4, <1>5, <1>6, <1>7, FiveReadBack
<1> QED
  BY <1>1, <1>2, <1>3, <1>8

\* The proofs and memos of a Zswap offer.
LEMMA ProofsReadBack ==
    ASSUME NEW list \in Proofs
    PROVE  ReadsBack(Vec(ProofType), SerializeVec(list), Each(list, Leaves))
<1> DEFINE trees == [i \in DOMAIN list |-> Leaves(list[i])]
<1>0. ProofSize \in Nat
  BY ScaleAssumption
<1>1. /\ Len(list) \in Encodable /\ DOMAIN list = 1 .. Len(list)
      /\ \A i \in 1 .. Len(list) : list[i] \in [1 .. ProofSize -> Nat]
  BY ListShape DEF Proofs
<1>2. list = [i \in 1 .. Len(list) |-> list[i]]
  BY <1>1 DEF Proofs, ListsOf
<1>3. trees = [i \in 1 .. Len(list) |-> trees[i]]
  BY <1>1
<1>4. \A i \in 1 .. Len(list) : ReadsBack(ProofType, list[i], trees[i])
  <2> SUFFICES ASSUME NEW i \in 1 .. Len(list)
               PROVE  ReadsBack(ProofType, list[i], Leaves(list[i]))
    BY <1>1
  <2> DEFINE x == list[i]
  <2>1. x \in Input /\ Len(x) = ProofSize
    BY <1>0, <1>1 DEF Input
  <2> HIDE DEF x
  <2>2. ReadsBack(ProofType, x, Leaves(x))
    BY <2>1, FieldsReadBack DEF ProofType
  <2> QED
    BY <2>2 DEF x
<1>5. Each(list, Leaves) = trees
  BY DEF Each
<1> HIDE DEF trees
<1>6. ReadsBack(Vec(ProofType), SerializeVec(list), trees)
  BY <1>1, <1>2, <1>3, <1>4, ItemsReadBack
<1> QED
  BY <1>5, <1>6

\* A tag is a byte string of one element.
LEMMA TagReadsBack ==
    ASSUME NEW tag \in Nat
    PROVE  ReadsBack(Blob, SerializeBytes(<<tag>>), <<tag>>)
<1>1. Len(LittleEndian[1]) = 1 + Len(LittleEndian[0])
  <2>1. 1 \in Nat \ {0} /\ 1 \div 256 = 0
    BY SMT
  <2> QED
    BY <2>1, OneDigitMore
<1>2. LittleEndian[0] = <<>>
  BY DigitsEquation
<1>3. 1 \in Encodable
  <2>1. Len(LittleEndian[1]) = 1
    BY <1>1, <1>2
  <2>2. 1 \in Nat /\ Len(LittleEndian[1]) <= 67
    BY SMT, <2>1
  <2> QED
    BY <2>2 DEF Encodable
<1>4. <<tag>> \in ByteString
  BY <1>3 DEF ByteString, ListsOf
<1> QED
  BY <1>4, BlobReadsBack

\* Four parts after the first.
LEMMA RegroupFour ==
    \A b1, b2, b3, b4, b5 \in Input :
        b1 \o (((b2 \o b3) \o b4) \o b5) = (((b1 \o b2) \o b3) \o b4) \o b5
<1> SUFFICES ASSUME NEW b1 \in Input, NEW b2 \in Input, NEW b3 \in Input,
                    NEW b4 \in Input, NEW b5 \in Input
             PROVE  b1 \o (((b2 \o b3) \o b4) \o b5) = (((b1 \o b2) \o b3) \o b4) \o b5
  OBVIOUS
<1>1. b2 \o b3 \in Input
  BY Joined
<1>2. (b2 \o b3) \o b4 \in Input
  BY <1>1, Joined
<1>3. /\ \A m, z \in Input : (b1 \o m) \o z = b1 \o (m \o z)
      /\ b2 \in Input /\ b3 \in Input /\ b4 \in Input /\ b5 \in Input
  <2>1. b1 \in Input
    OBVIOUS
  <2>2. \A m, z \in Input : (b1 \o m) \o z = b1 \o (m \o z)
    BY ONLY <2>1, Regroup, Zenon
  <2> QED
    BY <2>2, Zenon
<1>4. (b1 \o b2) \o b3 = b1 \o (b2 \o b3)
  BY <1>3, Zenon
<1>5. (b1 \o (b2 \o b3)) \o b4 = b1 \o ((b2 \o b3) \o b4)
  BY ONLY <1>1, <1>3, Zenon
<1>6. (b1 \o ((b2 \o b3) \o b4)) \o b5 = b1 \o (((b2 \o b3) \o b4) \o b5)
  BY ONLY <1>2, <1>3, Zenon
<1> QED
  BY ONLY <1>4, <1>5, <1>6, Zenon

\* A Zswap offer: its tag, the three lists and the Merkle root.
LEMMA ZswapReadsBack ==
    ASSUME NEW offer \in ZswapOffer
    PROVE  ReadsBack(ZswapType, SerializeZswapOffer(offer), ZswapTree(offer))
<1> DEFINE b1 == SerializeBytes(<<ZswapTag>>)
           b2 == SerializeVec(offer.spend_proofs)
           b3 == SerializeVec(offer.output_proofs)
           b4 == SerializeVec(offer.zswap_memos)
           b5 == <<offer.merkle_root>>
           x1 == <<ZswapTag>>
           x2 == Each(offer.spend_proofs, Leaves)
           x3 == Each(offer.output_proofs, Leaves)
           x4 == Each(offer.zswap_memos, Leaves)
           T == Vec(ProofType)
<1>1. /\ offer.spend_proofs \in Proofs /\ offer.output_proofs \in Proofs
      /\ offer.zswap_memos \in Proofs /\ offer.merkle_root \in Nat
  BY DEF ZswapOffer
<1>2. ReadsBack(T, b2, x2) /\ ReadsBack(T, b3, x3) /\ ReadsBack(T, b4, x4)
  BY <1>1, ProofsReadBack
<1>3. ReadsBack(Fixed, b5, b5)
  BY <1>1, FixedReadsBack
<1>4. ReadsBack(Blob, b1, x1)
  BY TagReadsBack DEF ZswapTag
<1>5. SerializeZswapOffer(offer) = b1 \o (((b2 \o b3) \o b4) \o b5)
  BY DEF SerializeZswapOffer, TaggedSerialize
<1>6. ZswapTree(offer) = <<x1, x2, x3, x4, b5>>
  BY DEF ZswapTree
<1>7. ZswapType = Struct(<<Blob, T, T, T, Fixed>>)
  BY DEF ZswapType
<1> HIDE DEF b1, b2, b3, b4, b5, x1, x2, x3, x4, T
<1>8. b1 \in Input /\ b2 \in Input /\ b3 \in Input /\ b4 \in Input /\ b5 \in Input
  BY <1>2, <1>3, <1>4 DEF ReadsBack
<1>9. ReadsBack(Struct(<<Blob, T, T, T, Fixed>>), (((b1 \o b2) \o b3) \o b4) \o b5,
                <<x1, x2, x3, x4, b5>>)
  BY <1>2, <1>3, <1>4, <1>8, FiveReadBack
<1>10. b1 \o (((b2 \o b3) \o b4) \o b5) = (((b1 \o b2) \o b3) \o b4) \o b5
  <2>1. b1 \in Input /\ b2 \in Input
    BY <1>8
  <2>2. \A c, d, e \in Input :
            b1 \o (((b2 \o c) \o d) \o e) = (((b1 \o b2) \o c) \o d) \o e
    BY ONLY <2>1, RegroupFour, Zenon
  <2>3. b3 \in Input /\ b4 \in Input /\ b5 \in Input
    BY <1>8
  <2>4. \A e \in Input :
            b1 \o (((b2 \o b3) \o b4) \o e) = (((b1 \o b2) \o b3) \o b4) \o e
    BY ONLY <2>2, <2>3, Zenon
  <2> QED
    BY ONLY <2>3, <2>4, Zenon
<1> QED
  BY <1>5, <1>6, <1>7, <1>9, <1>10

\* A payload that is signed: the prefix, the segment and the intent.
LEMMA PayloadReadsBack ==
    ASSUME NEW segment \in Nat, NEW intent \in Intent
    PROVE  ReadsBack(PayloadType, GetUnshieldedSigningPayload(segment, intent),
                     PayloadTree(segment, intent))
<1> DEFINE b1 == <<SigningPrefix>>
           b2 == <<segment>>
           b3 == SerializeIntent(intent)
           x3 == IntentTree(intent)
<1>1. ReadsBack(Fixed, b1, b1) /\ ReadsBack(Fixed, b2, b2)
  BY FixedReadsBack DEF SigningPrefix
<1>2. ReadsBack(IntentType, b3, x3)
  BY IntentReadsBack
<1>3. PayloadTree(segment, intent) = <<b1, b2, x3>>
  BY DEF PayloadTree
<1>4. <<SigningPrefix, segment>> = b1 \o b2
  BY DEF SigningPrefix
<1>5. GetUnshieldedSigningPayload(segment, intent) = (b1 \o b2) \o b3
  BY <1>4 DEF GetUnshieldedSigningPayload
<1> HIDE DEF b1, b2, b3, x3
<1>6. b1 \in Input /\ b2 \in Input /\ b3 \in Input
  BY <1>1, <1>2 DEF ReadsBack
<1>7. ReadsBack(Struct(<<Fixed, Fixed, IntentType>>), (b1 \o b2) \o b3, <<b1, b2, x3>>)
  BY <1>1, <1>2, <1>6, ThreeReadBack
<1> QED
  BY <1>3, <1>5, <1>7 DEF PayloadType

-----------------------------------------------------------------------------
(* Sorting a dict by its segments.                                         *)

\* A list with an entry has one of greatest segment.
LEMMA GreatestEntry ==
    ASSUME NEW n \in Nat \ {0}, NEW d, \A i \in 1 .. n : d[i].segment \in Nat
    PROVE  \E m \in 1 .. n : \A i \in 1 .. n : d[i].segment <= d[m].segment
<1> DEFINE S == {k \in 0 .. n : k = 0 \/ \E m \in 1 .. k : \A i \in 1 .. k :
                                                d[i].segment <= d[m].segment}
<1>1. 0 \in S
  OBVIOUS
<1>2. ASSUME NEW k \in 0 .. n, k \in S, k < n PROVE k + 1 \in S
  <2>1. k + 1 \in 0 .. n /\ k + 1 \in 1 .. n /\ 1 .. (k + 1) = (1 .. k) \cup {k + 1}
    BY <1>2
  <2>2. CASE k = 0
    <3>1. k + 1 \in 1 .. (k + 1) /\ \A i \in 1 .. (k + 1) : i = k + 1
      BY <2>2
    <3>2. \A i \in 1 .. (k + 1) : d[i].segment <= d[k + 1].segment
      BY <2>1, <3>1
    <3> QED
      BY <2>1, <3>1, <3>2
  <2>3. CASE k # 0
    <3>1. PICK m \in 1 .. k : \A i \in 1 .. k : d[i].segment <= d[m].segment
      BY <1>2, <2>3
    <3>2. m \in 1 .. n /\ m \in 1 .. (k + 1) /\ k + 1 \in 1 .. (k + 1)
      BY <1>2, <2>1
    <3>3. \A i \in 1 .. k : d[i].segment \in Nat
      BY <1>2
    <3>4. d[m].segment \in Nat /\ d[k + 1].segment \in Nat
      BY <2>1, <3>2
    <3>5. CASE d[k + 1].segment <= d[m].segment
      <4>1. \A i \in 1 .. (k + 1) : d[i].segment <= d[m].segment
        BY <2>1, <3>1, <3>5
      <4> QED
        BY <2>1, <3>2, <4>1
    <3>6. CASE d[m].segment < d[k + 1].segment
      <4>1. \A i \in 1 .. (k + 1) : d[i].segment <= d[k + 1].segment
        BY <2>1, <3>1, <3>3, <3>4, <3>6
      <4> QED
        BY <2>1, <3>2, <4>1
    <3> QED
      BY <3>4, <3>5, <3>6
  <2> QED
    BY <2>2, <2>3
<1>3. n \in S
  <2>1. n \in Nat
    OBVIOUS
  <2> HIDE DEF S
  <2>2. \A k \in 0 .. n : k \in S
    BY <1>1, <1>2, <2>1, InductionUpTo
  <2> QED
    BY <2>1, <2>2
<1> QED
  BY <1>3

\* Entries with different segments can be put in ascending order.
LEMMA AscendingExists ==
    ASSUME NEW n \in Nat, NEW dict, \A i \in 1 .. n : dict[i].segment \in Nat,
           \A i, j \in 1 .. n : dict[i].segment = dict[j].segment => i = j,
           NEW T, \A i \in 1 .. n : dict[i] \in T
    PROVE  \E s \in [1 .. n -> T] :
               \A i, j \in 1 .. n : i < j => s[i].segment < s[j].segment
<1> DEFINE Entries(d, k) == {d[i] : i \in 1 .. k}
           Distinct(d, k) ==
               /\ \A i \in 1 .. k : d[i].segment \in Nat
               /\ \A i, j \in 1 .. k : d[i].segment = d[j].segment => i = j
           Sorts(s, d, k) == /\ s \in [1 .. k -> Entries(d, k)]
                             /\ \A i, j \in 1 .. k : i < j => s[i].segment < s[j].segment
           S == {k \in 0 .. n : \A d : Distinct(d, k) => \E s : Sorts(s, d, k)}
<1>1. 0 \in S
  <2>1. \A d : Sorts([i \in 1 .. 0 |-> d[i]], d, 0)
    OBVIOUS
  <2> HIDE DEF Sorts, Distinct
  <2> QED
    BY <2>1
<1>2. ASSUME NEW k \in 0 .. n, k \in S, k < n PROVE k + 1 \in S
  <2>1. k + 1 \in 0 .. n /\ k \in Nat /\ k + 1 \in Nat \ {0}
    BY <1>2
  <2>2. ASSUME NEW d, Distinct(d, k + 1) PROVE \E s : Sorts(s, d, k + 1)
    <3>1. PICK m \in 1 .. (k + 1) : \A i \in 1 .. (k + 1) : d[i].segment <= d[m].segment
      BY <2>1, <2>2, GreatestEntry
    <3> DEFINE e == [i \in 1 .. k |-> IF i < m THEN d[i] ELSE d[i + 1]]
               at(i) == IF i < m THEN i ELSE i + 1
    <3>2. \A i \in 1 .. k : /\ at(i) \in 1 .. (k + 1) /\ at(i) # m /\ e[i] = d[at(i)]
                            /\ \A j \in 1 .. k : at(i) = at(j) => i = j
      BY <2>1
    <3> HIDE DEF at, e
    <3>3. Distinct(e, k)
      <4>1. \A i \in 1 .. k : e[i].segment \in Nat
        BY <2>2, <3>2
      <4>2. ASSUME NEW i \in 1 .. k, NEW j \in 1 .. k, e[i].segment = e[j].segment PROVE i = j
        <5>1. at(i) = at(j)
          BY <2>2, <3>2, <4>2
        <5> QED
          BY <3>2, <5>1
      <4> QED
        BY <4>1, <4>2
    <3>4. PICK s : Sorts(s, e, k)
      <4> HIDE DEF Sorts, Distinct
      <4> QED
        BY <1>2, <3>3
    <3> DEFINE t == [i \in 1 .. (k + 1) |-> IF i = k + 1 THEN d[m] ELSE s[i]]
    <3>5. \A x \in Entries(e, k) : /\ x \in Entries(d, k + 1) /\ x.segment \in Nat
                                   /\ x.segment < d[m].segment
      <4> SUFFICES ASSUME NEW i \in 1 .. k
                   PROVE  /\ e[i] \in Entries(d, k + 1) /\ e[i].segment \in Nat
                          /\ e[i].segment < d[m].segment
        OBVIOUS
      <4>1. e[i] = d[at(i)] /\ at(i) \in 1 .. (k + 1) /\ at(i) # m
        BY <3>2
      <4>2. d[at(i)].segment \in Nat /\ d[m].segment \in Nat
        BY <2>2, <4>1
      <4>3. d[at(i)].segment # d[m].segment /\ d[at(i)].segment <= d[m].segment
        BY <2>2, <3>1, <4>1
      <4> QED
        BY <4>1, <4>2, <4>3
    <3>6. d[m] \in Entries(d, k + 1)
      OBVIOUS
    <3>7. \A i \in 1 .. k : s[i] \in Entries(e, k)
      BY <3>4
    <3>8. \A i \in 1 .. k : i \in 1 .. (k + 1) /\ i # k + 1
      BY <2>1
    <3>9. t[k + 1] = d[m] /\ \A i \in 1 .. k : t[i] = s[i]
      BY <2>1, <3>8
    <3>10. t \in [1 .. (k + 1) -> Entries(d, k + 1)]
      <4>1. \A i \in 1 .. (k + 1) : (IF i = k + 1 THEN d[m] ELSE s[i]) \in Entries(d, k + 1)
        <5> HIDE DEF Entries, Sorts, Distinct
        <5>1. \A i \in 1 .. (k + 1) : i = k + 1 \/ i \in 1 .. k
          BY <2>1
        <5> QED
          BY <3>5, <3>6, <3>7, <5>1
      <4> HIDE DEF Entries
      <4> QED
        BY <4>1
    <3> HIDE DEF t
    <3>11. ASSUME NEW i \in 1 .. (k + 1), NEW j \in 1 .. (k + 1), i < j
           PROVE  t[i].segment < t[j].segment
      <4>1. i \in 1 .. k
        BY <2>1, <3>11
      <4>2. CASE j = k + 1
        <5> HIDE DEF Entries, Sorts, Distinct
        <5> QED
          BY <3>5, <3>7, <3>9, <4>1, <4>2
      <4>3. CASE j # k + 1
        <5>1. j \in 1 .. k
          BY <2>1, <4>3
        <5> QED
          BY <3>4, <3>9, <3>11, <4>1, <5>1
      <4> QED
        BY <4>2, <4>3
    <3>12. Sorts(t, d, k + 1)
      <4> HIDE DEF Entries
      <4> QED
        BY <3>10, <3>11
    <3> HIDE DEF Sorts
    <3> QED
      BY <3>12
  <2> HIDE DEF Sorts, Distinct
  <2> QED
    BY <2>1, <2>2
<1>3. n \in S
  <2> HIDE DEF S
  <2>1. \A k \in 0 .. n : k \in S
    BY <1>1, <1>2, InductionUpTo
  <2> QED
    BY <2>1
<1>4. PICK s : Sorts(s, dict, n)
  <2>1. Distinct(dict, n)
    OBVIOUS
  <2> HIDE DEF Sorts, Distinct
  <2> QED
    BY <1>3, <2>1
<1>5. s \in [1 .. n -> T]
  <2>1. Entries(dict, n) \subseteq T
    OBVIOUS
  <2>2. s \in [1 .. n -> Entries(dict, n)]
    BY <1>4
  <2> HIDE DEF Entries
  <2> QED
    BY <2>1, <2>2
<1>6. \A i, j \in 1 .. n : i < j => s[i].segment < s[j].segment
  BY <1>4
<1> QED
  BY <1>5, <1>6

\* Sorted by segment, a dict has the same entries, in ascending order.
LEMMA BySegmentSorts ==
    ASSUME NEW S, NEW dict \in DictsOf(S), \A x \in S : x.segment \in Nat
    PROVE  /\ DOMAIN BySegment(dict) = 1 .. Len(dict)
           /\ Len(BySegment(dict)) = Len(dict) /\ Len(dict) \in Encodable
           /\ \A i \in 1 .. Len(dict) : BySegment(dict)[i] \in S
           /\ Range(BySegment(dict)) = Range(dict)
           /\ \A i, j \in 1 .. Len(dict) :
                 i < j => BySegment(dict)[i].segment < BySegment(dict)[j].segment
<1> DEFINE n == Len(dict)
           T == Range(dict)
           s == BySegment(dict)
<1>1. n \in Encodable /\ DOMAIN dict = 1 .. n /\ \A i \in 1 .. n : dict[i] \in S
  BY ListShape DEF DictsOf
<1>2. n \in Nat
  BY <1>1 DEF Encodable
<1>3. \A i, j \in 1 .. n : dict[i].segment = dict[j].segment => i = j
  BY <1>1 DEF DictsOf
<1>4. T = {dict[i] : i \in 1 .. n}
  BY <1>1 DEF Range
<1> HIDE DEF n
<1>5. \E x \in [1 .. n -> T] : \A i, j \in 1 .. n : i < j => x[i].segment < x[j].segment
  <2>1. \A i \in 1 .. n : dict[i].segment \in Nat
    BY <1>1
  <2>2. \A i \in 1 .. n : dict[i] \in T
    BY <1>4
  <2> HIDE DEF T
  <2> QED
    BY ONLY <1>2, <1>3, <2>1, <2>2, AscendingExists
<1>6. s \in [1 .. n -> T] /\ \A i, j \in 1 .. n : i < j => s[i].segment < s[j].segment
  <2>1. s = CHOOSE x \in [1 .. n -> T] :
                \A i, j \in DOMAIN x : i < j => x[i].segment < x[j].segment
    BY <1>1 DEF BySegment
  <2>2. \E x \in [1 .. n -> T] :
            \A i, j \in DOMAIN x : i < j => x[i].segment < x[j].segment
    BY <1>5
  <2> HIDE DEF s, T
  <2>3. /\ s \in [1 .. n -> T]
        /\ \A i, j \in DOMAIN s : i < j => s[i].segment < s[j].segment
    BY <2>1, <2>2, Zenon
  <2> QED
    BY <2>3
<1>7. \A x \in T : x \in S /\ x.segment \in Nat
  BY <1>1, <1>4
<1> HIDE DEF s
<1>8. s \in Injection(1 .. n, T)
  <2>1. ASSUME NEW i \in 1 .. n, NEW j \in 1 .. n, s[i] = s[j] PROVE i = j
    <3>1. ~(i < j) /\ ~(j < i)
      <4>1. s[i].segment \in Nat
        BY <1>6, <1>7
      <4>2. i < j => s[i].segment < s[i].segment
        BY <1>6, <2>1
      <4>3. j < i => s[i].segment < s[i].segment
        BY <1>6, <2>1
      <4> QED
        BY <4>1, <4>2, <4>3
    <3> QED
      BY <1>2, <3>1
  <2> QED
    BY <1>6, <2>1 DEF Injection, IsInjective
<1>9. dict \in Surjection(1 .. n, T) /\ dict \in Injection(1 .. n, T)
  <2>1. dict \in [1 .. n -> T]
    BY <1>1, <1>4 DEF DictsOf, ListsOf
  <2>2. \A i, j \in 1 .. n : dict[i] = dict[j] => i = j
    BY <1>3
  <2> QED
    BY <1>4, <2>1, <2>2 DEF Injection, Surjection, IsInjective
<1>10. IsFiniteSet(1 .. n)
  BY <1>2, FS_Interval
<1>11. IsFiniteSet(T) /\ Cardinality(T) = Cardinality(1 .. n)
  BY <1>9, <1>10, FS_Surjection
<1>12. s \in Surjection(1 .. n, T)
  BY <1>8, <1>11, FS_Injection
<1>13. Range(s) = T
  BY <1>12 DEF Surjection, Range
<1>14. DOMAIN s = 1 .. n /\ Len(s) = n
  BY <1>2, <1>6
<1> QED
  BY <1>1, <1>6, <1>7, <1>13, <1>14 DEF n, s

\* A dict with segments for keys: Vec<(segment, value)>, sorted. The bytes and
\* the tree of each value come from the entry.
LEMMA MapReadsBack ==
    ASSUME NEW S, NEW dict \in DictsOf(S), \A x \in S : x.segment \in Nat, NEW type,
           NEW bytes, NEW trees, NEW s, s = BySegment(dict),
           \A x \in S : ReadsBack(type, bytes[x], trees[x])
    PROVE  /\ ReadsBack(Vec(Struct(<<Fixed, type>>)),
                        SerializeVec([i \in DOMAIN s |-> <<s[i].segment>> \o bytes[s[i]]]),
                        [i \in DOMAIN s |-> << <<s[i].segment>>, trees[s[i]] >>])
           /\ LET t == [i \in DOMAIN s |-> << <<s[i].segment>>, trees[s[i]] >>]
              IN  /\ Len(t) = Len(dict)
                  /\ Range(t) = {<< <<dict[i].segment>>, trees[dict[i]] >> : i \in DOMAIN dict}
                  /\ \A i, j \in DOMAIN t : i < j => t[i][1][1] < t[j][1][1]
<1> DEFINE n == Len(dict)
           items == [i \in DOMAIN s |-> <<s[i].segment>> \o bytes[s[i]]]
           t == [i \in DOMAIN s |-> << <<s[i].segment>>, trees[s[i]] >>]
<1>1. /\ DOMAIN s = 1 .. n /\ Len(s) = n /\ n \in Encodable
      /\ \A i \in 1 .. n : s[i] \in S
      /\ Range(s) = Range(dict)
      /\ \A i, j \in 1 .. n : i < j => s[i].segment < s[j].segment
  BY BySegmentSorts
<1>2. n \in Nat
  BY <1>1 DEF Encodable
<1> HIDE DEF n
<1>3. items = [i \in 1 .. n |-> items[i]] /\ t = [i \in 1 .. n |-> t[i]]
  BY <1>1
<1>4. \A i \in 1 .. n : ReadsBack(Struct(<<Fixed, type>>), items[i], t[i])
  <2> SUFFICES ASSUME NEW i \in 1 .. n
               PROVE  ReadsBack(Struct(<<Fixed, type>>), <<s[i].segment>> \o bytes[s[i]],
                                << <<s[i].segment>>, trees[s[i]] >>)
    BY <1>1
  <2> DEFINE a == <<s[i].segment>>
             b == bytes[s[i]]
             x == trees[s[i]]
  <2>1. ReadsBack(Fixed, a, a)
    BY <1>1, FixedReadsBack
  <2>2. ReadsBack(type, b, x)
    BY <1>1
  <2> HIDE DEF a, b, x
  <2>3. a \in Input /\ b \in Input
    BY <2>1, <2>2 DEF ReadsBack
  <2>4. ReadsBack(Struct(<<Fixed, type>>), a \o b, <<a, x>>)
    BY <2>1, <2>2, <2>3, TwoReadBack
  <2> QED
    BY <2>4 DEF a, b, x
<1>5. Len(t) = n
  BY <1>1, <1>2
<1>6. \A i, j \in DOMAIN t : i < j => t[i][1][1] < t[j][1][1]
  BY <1>1
<1>7. Range(t) = {<< <<dict[i].segment>>, trees[dict[i]] >> : i \in DOMAIN dict}
  <2>1. Range(t) = {<< <<x.segment>>, trees[x] >> : x \in Range(s)}
    BY DEF Range
  <2>2. {<< <<dict[i].segment>>, trees[dict[i]] >> : i \in DOMAIN dict}
            = {<< <<x.segment>>, trees[x] >> : x \in Range(dict)}
    BY DEF Range
  <2> QED
    BY <1>1, <2>1, <2>2
<1> HIDE DEF items, t
<1>8. ReadsBack(Vec(Struct(<<Fixed, type>>)), SerializeVec(items), t)
  BY <1>1, <1>3, <1>4, ItemsReadBack
<1> QED
  BY <1>5, <1>6, <1>7, <1>8 DEF items, t, n

\* A standard transaction has one reading: its network, a map of intents, a
\* map of coins and its randomness.
LEMMA StandardReadsBack ==
    ASSUME NEW stx \in StandardTransaction
    PROVE  \E tree : /\ ReadsBack(StandardType, SerializeStandardTransaction(stx), tree)
                     /\ IsStandardTree(tree, stx)
<1> DEFINE SI == [segment : Nat, intent : Intent]
           SC == [segment : Nat, offer : ZswapOffer]
           bytesI == [x \in SI |-> SerializeIntent(x.intent)]
           bytesC == [x \in SC |-> SerializeZswapOffer(x.offer)]
           treesI == [x \in SI |-> IntentTree(x.intent)]
           treesC == [x \in SC |-> ZswapTree(x.offer)]
           intents == BySegment(stx.intents)
           f_coins == BySegment(stx.fallible_coins)
           itemsI == [i \in DOMAIN intents |-> <<intents[i].segment>> \o bytesI[intents[i]]]
           itemsC == [i \in DOMAIN f_coins |-> <<f_coins[i].segment>> \o bytesC[f_coins[i]]]
           x1 == <<StandardTag>>
           x2 == stx.network_id
           x3 == [i \in DOMAIN intents |->
                      << <<intents[i].segment>>, treesI[intents[i]] >>]
           x4 == [i \in DOMAIN f_coins |->
                      << <<f_coins[i].segment>>, treesC[f_coins[i]] >>]
           b1 == SerializeBytes(<<StandardTag>>)
           b2 == SerializeBytes(stx.network_id)
           b3 == SerializeVec(itemsI)
           b4 == SerializeVec(itemsC)
           b5 == <<stx.binding_randomness>>
           T3 == Vec(Struct(<<Fixed, IntentType>>))
           T4 == Vec(Struct(<<Fixed, ZswapType>>))
           IsMapOf(t, dict, trees) ==
               /\ Len(t) = Len(dict)
               /\ Range(t) = {<< <<dict[i].segment>>, trees[dict[i]] >> : i \in DOMAIN dict}
               /\ \A i, j \in DOMAIN t : i < j => t[i][1][1] < t[j][1][1]
<1>1. /\ stx.network_id \in ByteString /\ stx.intents \in DictsOf(SI)
      /\ stx.fallible_coins \in DictsOf(SC) /\ stx.binding_randomness \in Nat
  BY DEF StandardTransaction
<1>2. ReadsBack(T3, b3, x3) /\ IsMapOf(x3, stx.intents, treesI)
  <2>1. \A x \in SI : /\ x.segment \in Nat
                      /\ ReadsBack(IntentType, bytesI[x], treesI[x])
    BY IntentReadsBack
  <2> HIDE DEF SI, bytesI, treesI
  <2> QED
    BY <1>1, <2>1, MapReadsBack, ZenonT(60)
<1>3. ReadsBack(T4, b4, x4) /\ IsMapOf(x4, stx.fallible_coins, treesC)
  <2>1. \A x \in SC : /\ x.segment \in Nat
                      /\ ReadsBack(ZswapType, bytesC[x], treesC[x])
    BY ZswapReadsBack
  <2> HIDE DEF SC, bytesC, treesC
  <2> QED
    BY <1>1, <2>1, MapReadsBack, ZenonT(60)
<1>4. ReadsBack(Blob, b1, x1) /\ ReadsBack(Blob, b2, x2)
  BY <1>1, TagReadsBack, BlobReadsBack DEF StandardTag
<1>5. ReadsBack(Fixed, b5, b5)
  BY <1>1, FixedReadsBack
<1>6. /\ itemsI = [i \in DOMAIN intents |->
                      <<intents[i].segment>> \o SerializeIntent(intents[i].intent)]
      /\ itemsC = [i \in DOMAIN f_coins |->
                      <<f_coins[i].segment>> \o SerializeZswapOffer(f_coins[i].offer)]
  <2>1. \A i \in DOMAIN intents : intents[i] \in SI
    BY <1>1, BySegmentSorts
  <2>2. \A i \in DOMAIN f_coins : f_coins[i] \in SC
    BY <1>1, BySegmentSorts
  <2> HIDE DEF intents, f_coins
  <2> QED
    BY <2>1, <2>2
<1>7. SerializeStandardTransaction(stx) = b1 \o (((b2 \o b3) \o b4) \o b5)
  BY <1>6 DEF SerializeStandardTransaction, TaggedSerialize
<1>8. IsStandardTree(<<x1, x2, x3, x4, b5>>, stx)
  <2>1. \A i \in DOMAIN stx.intents : treesI[stx.intents[i]] = IntentTree(stx.intents[i].intent)
    <3>1. \A i \in DOMAIN stx.intents : stx.intents[i] \in SI
      BY <1>1, ListShape DEF DictsOf
    <3> QED
      BY <3>1
  <2>2. \A i \in DOMAIN stx.fallible_coins :
            treesC[stx.fallible_coins[i]] = ZswapTree(stx.fallible_coins[i].offer)
    <3>1. \A i \in DOMAIN stx.fallible_coins : stx.fallible_coins[i] \in SC
      BY <1>1, ListShape DEF DictsOf
    <3> QED
      BY <3>1
  <2> HIDE DEF x3, x4, treesI, treesC
  <2>3. /\ Len(<<x1, x2, x3, x4, b5>>) = 5
        /\ <<x1, x2, x3, x4, b5>>[1] = x1 /\ <<x1, x2, x3, x4, b5>>[2] = x2
        /\ <<x1, x2, x3, x4, b5>>[3] = x3 /\ <<x1, x2, x3, x4, b5>>[4] = x4
        /\ <<x1, x2, x3, x4, b5>>[5] = b5
    OBVIOUS
  <2> QED
    BY <1>2, <1>3, <2>1, <2>2, <2>3 DEF IsStandardTree, IsMap
<1>9. StandardType = Struct(<<Blob, Blob, T3, T4, Fixed>>)
  BY DEF StandardType
<1> HIDE DEF b1, b2, b3, b4, b5, x1, x2, x3, x4, T3, T4, IsMapOf
<1>10. b1 \in Input /\ b2 \in Input /\ b3 \in Input /\ b4 \in Input /\ b5 \in Input
  BY <1>2, <1>3, <1>4, <1>5 DEF ReadsBack
<1>11. ReadsBack(Struct(<<Blob, Blob, T3, T4, Fixed>>), (((b1 \o b2) \o b3) \o b4) \o b5,
                 <<x1, x2, x3, x4, b5>>)
  BY <1>2, <1>3, <1>4, <1>5, <1>10, FiveReadBack
<1>12. b1 \o (((b2 \o b3) \o b4) \o b5) = (((b1 \o b2) \o b3) \o b4) \o b5
  <2>1. b1 \in Input /\ b2 \in Input
    BY <1>10
  <2>2. \A c, d, e \in Input :
            b1 \o (((b2 \o c) \o d) \o e) = (((b1 \o b2) \o c) \o d) \o e
    BY ONLY <2>1, RegroupFour, Zenon
  <2>3. b3 \in Input /\ b4 \in Input /\ b5 \in Input
    BY <1>10
  <2>4. \A e \in Input :
            b1 \o (((b2 \o b3) \o b4) \o e) = (((b1 \o b2) \o b3) \o b4) \o e
    BY ONLY <2>2, <2>3, Zenon
  <2> QED
    BY ONLY <2>3, <2>4, Zenon
<1> QED
  BY <1>7, <1>8, <1>9, <1>11, <1>12

-----------------------------------------------------------------------------
(* The arguments of a contract call.                                       *)

\* Nothing is joined to nothing.
LEMMA FlattenNone == FlattenSeq(<<>>) = <<>>
BY DEF FlattenSeq

\* The arguments of each depth are the plain ones and the lists and dicts of
\* those one level down.
LEMMA ArgumentsEquation ==
    \A d \in 0 .. MaxNesting :
        ArgumentsUpTo[d] =
            [kind : {"none"}, of : {<<>>}] \cup [kind : {"bytes", "str"}, of : ByteString]
            \cup [kind : {"bool"}, of : BOOLEAN] \cup [kind : {"int"}, of : Encodable]
            \cup IF d = 0 THEN {}
                 ELSE [kind : {"list", "dict"}, of : ListsOf(ArgumentsUpTo[d - 1])]
<1> DEFINE N == MaxNesting
           Step(d, x) ==
               [kind : {"none"}, of : {<<>>}] \cup [kind : {"bytes", "str"}, of : ByteString]
               \cup [kind : {"bool"}, of : BOOLEAN] \cup [kind : {"int"}, of : Encodable]
               \cup IF d = 0 THEN {} ELSE [kind : {"list", "dict"}, of : ListsOf(x)]
           Eq(h, m) == h = [d \in 0 .. m |-> Step(d, h[d - 1])]
           S == {m \in 0 .. N : \E h : Eq(h, m)}
<1>0. N \in Nat /\ \A x, y : Step(0, x) = Step(0, y)
  BY ScaleAssumption
<1>4. ArgumentsUpTo = CHOOSE h : Eq(h, N)
  BY Zenon DEF ArgumentsUpTo
<1> HIDE DEF Step, N
<1>1. 0 \in S
  <2> DEFINE h == [d \in 0 .. 0 |-> Step(0, 0)]
  <2>1. h = [d \in 0 .. 0 |-> Step(d, h[d - 1])]
    BY <1>0
  <2>2. Eq(h, 0) /\ 0 \in 0 .. N
    BY <1>0, <2>1
  <2> HIDE DEF Eq, h
  <2> QED
    BY <2>2
<1>2. ASSUME NEW k \in 0 .. N, k \in S, k < N PROVE k + 1 \in S
  <2>1. PICK f : Eq(f, k)
    BY <1>2
  <2>2. k \in Nat /\ k + 1 \in 0 .. N
    BY <1>0, <1>2
  <2> DEFINE g == [d \in 0 .. (k + 1) |-> IF d = k + 1 THEN Step(k + 1, f[k]) ELSE f[d]]
  <2>3. \A d \in 0 .. (k + 1) : g[d] = Step(d, g[d - 1])
    <3> SUFFICES ASSUME NEW d \in 0 .. (k + 1) PROVE g[d] = Step(d, g[d - 1])
      OBVIOUS
    <3>1. CASE d = k + 1
      <4>1. d - 1 = k /\ k \in 0 .. (k + 1) /\ k # k + 1
        BY <2>2, <3>1
      <4>2. g[d] = Step(k + 1, f[k]) /\ g[k] = f[k]
        BY <3>1, <4>1
      <4> HIDE DEF g
      <4> QED
        BY <3>1, <4>1, <4>2
    <3>2. CASE d # k + 1 /\ d # 0
      <4>1. d \in 0 .. k /\ d - 1 \in 0 .. (k + 1) /\ d - 1 # k + 1
        BY <2>2, <3>2
      <4>2. g[d] = f[d] /\ g[d - 1] = f[d - 1]
        BY <3>2, <4>1
      <4>3. f[d] = Step(d, f[d - 1])
        BY <2>1, <4>1
      <4> HIDE DEF g
      <4> QED
        BY <4>2, <4>3
    <3>3. CASE d # k + 1 /\ d = 0
      <4>1. d \in 0 .. k
        BY <2>2, <3>3
      <4>2. g[d] = f[d] /\ f[d] = Step(d, f[d - 1])
        BY <2>1, <3>3, <4>1
      <4> HIDE DEF g
      <4> QED
        BY <1>0, <3>3, <4>2
    <3> QED
      BY <3>1, <3>2, <3>3
  <2>4. Eq(g, k + 1)
    <3>1. g = [d \in 0 .. (k + 1) |-> g[d]]
      OBVIOUS
    <3> HIDE DEF g
    <3> QED
      BY <2>3, <3>1
  <2> HIDE DEF Eq, g
  <2> QED
    BY <2>2, <2>4
<1>3. N \in S
  <2> HIDE DEF S
  <2>1. \A k \in 0 .. N : k \in S
    BY <1>0, <1>1, <1>2, InductionUpTo
  <2> QED
    BY <1>0, <2>1
<1>5. Eq(ArgumentsUpTo, N)
  <2>1. \E h : Eq(h, N)
    BY <1>3
  <2> HIDE DEF Eq
  <2> QED
    BY <1>4, <2>1, Zenon
<1>7. \A d \in 0 .. N : ArgumentsUpTo[d] = Step(d, ArgumentsUpTo[d - 1])
  BY <1>5
<1> QED
  BY <1>7 DEF Step, N

\* The bytes of each depth, from those one level down.
LEMMA BytesEquation ==
    \A d \in 0 .. MaxNesting :
        ArgsBytes[d] = [args \in ArgumentsUpTo[d] |-> ArgumentBytes(args, ArgsBytes[d - 1])]
<1> DEFINE N == MaxNesting
           Step(d, x) == [args \in ArgumentsUpTo[d] |-> ArgumentBytes(args, x)]
           Eq(h, m) == h = [d \in 0 .. m |-> Step(d, h[d - 1])]
           S == {m \in 0 .. N : \E h : Eq(h, m)}
<1>0. N \in Nat /\ \A x, y : Step(0, x) = Step(0, y)
  <2>1. N \in Nat
    BY ScaleAssumption
  <2>2. ASSUME NEW x, NEW y, NEW args \in ArgumentsUpTo[0]
        PROVE  ArgumentBytes(args, x) = ArgumentBytes(args, y)
    <3>1. args.kind \in {"none", "bytes", "str", "bool", "int"}
      BY <2>1, ArgumentsEquation
    <3> QED
      BY <3>1 DEF ArgumentBytes
  <2> QED
    BY <2>1, <2>2
<1>4. ArgsBytes = CHOOSE h : Eq(h, N)
  BY Zenon DEF ArgsBytes
<1> HIDE DEF Step, N
<1>1. 0 \in S
  <2> DEFINE h == [d \in 0 .. 0 |-> Step(0, 0)]
  <2>1. h = [d \in 0 .. 0 |-> Step(d, h[d - 1])]
    BY <1>0
  <2>2. Eq(h, 0) /\ 0 \in 0 .. N
    BY <1>0, <2>1
  <2> HIDE DEF Eq, h
  <2> QED
    BY <2>2
<1>2. ASSUME NEW k \in 0 .. N, k \in S, k < N PROVE k + 1 \in S
  <2>1. PICK f : Eq(f, k)
    BY <1>2
  <2>2. k \in Nat /\ k + 1 \in 0 .. N
    BY <1>0, <1>2
  <2> DEFINE g == [d \in 0 .. (k + 1) |-> IF d = k + 1 THEN Step(k + 1, f[k]) ELSE f[d]]
  <2>3. \A d \in 0 .. (k + 1) : g[d] = Step(d, g[d - 1])
    <3> SUFFICES ASSUME NEW d \in 0 .. (k + 1) PROVE g[d] = Step(d, g[d - 1])
      OBVIOUS
    <3>1. CASE d = k + 1
      <4>1. d - 1 = k /\ k \in 0 .. (k + 1) /\ k # k + 1
        BY <2>2, <3>1
      <4>2. g[d] = Step(k + 1, f[k]) /\ g[k] = f[k]
        BY <3>1, <4>1
      <4> HIDE DEF g
      <4> QED
        BY <3>1, <4>1, <4>2
    <3>2. CASE d # k + 1 /\ d # 0
      <4>1. d \in 0 .. k /\ d - 1 \in 0 .. (k + 1) /\ d - 1 # k + 1
        BY <2>2, <3>2
      <4>2. g[d] = f[d] /\ g[d - 1] = f[d - 1]
        BY <3>2, <4>1
      <4>3. f[d] = Step(d, f[d - 1])
        BY <2>1, <4>1
      <4> HIDE DEF g
      <4> QED
        BY <4>2, <4>3
    <3>3. CASE d # k + 1 /\ d = 0
      <4>1. d \in 0 .. k
        BY <2>2, <3>3
      <4>2. g[d] = f[d] /\ f[d] = Step(d, f[d - 1])
        BY <2>1, <3>3, <4>1
      <4> HIDE DEF g
      <4> QED
        BY <1>0, <3>3, <4>2
    <3> QED
      BY <3>1, <3>2, <3>3
  <2>4. Eq(g, k + 1)
    <3>1. g = [d \in 0 .. (k + 1) |-> g[d]]
      OBVIOUS
    <3> HIDE DEF g
    <3> QED
      BY <2>3, <3>1
  <2> HIDE DEF Eq, g
  <2> QED
    BY <2>2, <2>4
<1>3. N \in S
  <2> HIDE DEF S
  <2>1. \A k \in 0 .. N : k \in S
    BY <1>0, <1>1, <1>2, InductionUpTo
  <2> QED
    BY <1>0, <2>1
<1>5. Eq(ArgsBytes, N)
  <2>1. \E h : Eq(h, N)
    BY <1>3
  <2> HIDE DEF Eq
  <2> QED
    BY <1>4, <2>1, Zenon
<1>7. \A d \in 0 .. N : ArgsBytes[d] = Step(d, ArgsBytes[d - 1])
  BY <1>5
<1> QED
  BY <1>7 DEF Step, N

\* Their types and trees.
LEMMA ViewEquation ==
    \A d \in 0 .. MaxNesting :
        ArgsView[d] = [args \in ArgumentsUpTo[d] |-> ArgumentView(args, ArgsView[d - 1])]
<1> DEFINE N == MaxNesting
           Step(d, x) == [args \in ArgumentsUpTo[d] |-> ArgumentView(args, x)]
           Eq(h, m) == h = [d \in 0 .. m |-> Step(d, h[d - 1])]
           S == {m \in 0 .. N : \E h : Eq(h, m)}
<1>0. N \in Nat /\ \A x, y : Step(0, x) = Step(0, y)
  <2>1. N \in Nat
    BY ScaleAssumption
  <2>2. ASSUME NEW x, NEW y, NEW args \in ArgumentsUpTo[0]
        PROVE  ArgumentView(args, x) = ArgumentView(args, y)
    <3>1. args.kind \in {"none", "bytes", "str", "bool", "int"}
      BY <2>1, ArgumentsEquation
    <3> QED
      BY <3>1 DEF ArgumentView
  <2> QED
    BY <2>1, <2>2
<1>4. ArgsView = CHOOSE h : Eq(h, N)
  BY Zenon DEF ArgsView
<1> HIDE DEF Step, N
<1>1. 0 \in S
  <2> DEFINE h == [d \in 0 .. 0 |-> Step(0, 0)]
  <2>1. h = [d \in 0 .. 0 |-> Step(d, h[d - 1])]
    BY <1>0
  <2>2. Eq(h, 0) /\ 0 \in 0 .. N
    BY <1>0, <2>1
  <2> HIDE DEF Eq, h
  <2> QED
    BY <2>2
<1>2. ASSUME NEW k \in 0 .. N, k \in S, k < N PROVE k + 1 \in S
  <2>1. PICK f : Eq(f, k)
    BY <1>2
  <2>2. k \in Nat /\ k + 1 \in 0 .. N
    BY <1>0, <1>2
  <2> DEFINE g == [d \in 0 .. (k + 1) |-> IF d = k + 1 THEN Step(k + 1, f[k]) ELSE f[d]]
  <2>3. \A d \in 0 .. (k + 1) : g[d] = Step(d, g[d - 1])
    <3> SUFFICES ASSUME NEW d \in 0 .. (k + 1) PROVE g[d] = Step(d, g[d - 1])
      OBVIOUS
    <3>1. CASE d = k + 1
      <4>1. d - 1 = k /\ k \in 0 .. (k + 1) /\ k # k + 1
        BY <2>2, <3>1
      <4>2. g[d] = Step(k + 1, f[k]) /\ g[k] = f[k]
        BY <3>1, <4>1
      <4> HIDE DEF g
      <4> QED
        BY <3>1, <4>1, <4>2
    <3>2. CASE d # k + 1 /\ d # 0
      <4>1. d \in 0 .. k /\ d - 1 \in 0 .. (k + 1) /\ d - 1 # k + 1
        BY <2>2, <3>2
      <4>2. g[d] = f[d] /\ g[d - 1] = f[d - 1]
        BY <3>2, <4>1
      <4>3. f[d] = Step(d, f[d - 1])
        BY <2>1, <4>1
      <4> HIDE DEF g
      <4> QED
        BY <4>2, <4>3
    <3>3. CASE d # k + 1 /\ d = 0
      <4>1. d \in 0 .. k
        BY <2>2, <3>3
      <4>2. g[d] = f[d] /\ f[d] = Step(d, f[d - 1])
        BY <2>1, <3>3, <4>1
      <4> HIDE DEF g
      <4> QED
        BY <1>0, <3>3, <4>2
    <3> QED
      BY <3>1, <3>2, <3>3
  <2>4. Eq(g, k + 1)
    <3>1. g = [d \in 0 .. (k + 1) |-> g[d]]
      OBVIOUS
    <3> HIDE DEF g
    <3> QED
      BY <2>3, <3>1
  <2> HIDE DEF Eq, g
  <2> QED
    BY <2>2, <2>4
<1>3. N \in S
  <2> HIDE DEF S
  <2>1. \A k \in 0 .. N : k \in S
    BY <1>0, <1>1, <1>2, InductionUpTo
  <2> QED
    BY <1>0, <2>1
<1>5. Eq(ArgsView, N)
  <2>1. \E h : Eq(h, N)
    BY <1>3
  <2> HIDE DEF Eq
  <2> QED
    BY <1>4, <2>1, Zenon
<1>7. \A d \in 0 .. N : ArgsView[d] = Step(d, ArgsView[d - 1])
  BY <1>5
<1> QED
  BY <1>7 DEF Step, N

\* Arguments read back, one level after the other.
LEMMA LevelReadsBack ==
    ASSUME NEW d \in 0 .. MaxNesting, NEW args \in ArgumentsUpTo[d], NEW inner, NEW views,
           d # 0 => \A a \in ArgumentsUpTo[d - 1] : ReadsBack(views[a].type, inner[a], views[a].tree)
    PROVE  ReadsBack(ArgumentView(args, views).type, ArgumentBytes(args, inner),
                     ArgumentView(args, views).tree)
<1> DEFINE of == args.of
           V == ArgumentView(args, views)
           B == ArgumentBytes(args, inner)
           types == [i \in DOMAIN of |-> views[of[i]].type]
           trees == [i \in DOMAIN of |-> views[of[i]].tree]
           items == [i \in DOMAIN of |-> inner[of[i]]]
<1>0. args \in [kind : {"none"}, of : {<<>>}] \cup [kind : {"bytes", "str"}, of : ByteString]
               \cup [kind : {"bool"}, of : BOOLEAN] \cup [kind : {"int"}, of : Encodable]
               \cup IF d = 0 THEN {}
                    ELSE [kind : {"list", "dict"}, of : ListsOf(ArgumentsUpTo[d - 1])]
  BY ArgumentsEquation
<1>1. CASE args.kind = "none"
  <2>1. B = <<>> /\ V = [type |-> Struct(<<>>), tree |-> <<>>]
    BY <1>1 DEF ArgumentBytes, ArgumentView
  <2>2. ReadsBack(Struct(<<>>), <<>>, <<>>)
    <3> DEFINE none == <<>>
    <3>1. none \in Seq(Input) /\ Len(none) = 0 /\ [i \in 1 .. Len(none) |-> none[i]] = none
      OBVIOUS
    <3>2. \A i \in 1 .. Len(none) : ReadsBack(none[i], none[i], none[i])
      BY <3>1
    <3>3. FlattenSeq(none) = none
      BY FlattenNone
    <3> HIDE DEF none
    <3>4. ReadsBack(Struct(none), FlattenSeq(none), [i \in 1 .. Len(none) |-> none[i]])
      BY ONLY <3>1, <3>2, StructReadsBack
    <3>5. ReadsBack(Struct(none), none, none)
      BY <3>1, <3>3, <3>4
    <3> QED
      BY <3>5 DEF none
  <2> QED
    BY <2>1, <2>2
<1>2. CASE args.kind \in {"bytes", "str"}
  <2>1. of \in ByteString
    BY <1>0, <1>2
  <2>2. B = SerializeBytes(of) /\ V = [type |-> Blob, tree |-> of]
    BY <1>2 DEF ArgumentBytes, ArgumentView
  <2> HIDE DEF of, B, V
  <2> QED
    BY <2>1, <2>2, BlobReadsBack DEF B, V
<1>3. CASE args.kind = "bool"
  <2>1. of \in BOOLEAN
    BY <1>0, <1>3
  <2> DEFINE x == IF of THEN 1 ELSE 0
  <2>2. B = <<x>> /\ V = [type |-> Fixed, tree |-> <<x>>] /\ x \in Nat
    BY <1>3 DEF ArgumentBytes, ArgumentView
  <2> HIDE DEF of, x, B, V
  <2> QED
    BY <2>2, FixedReadsBack DEF B, V
<1>4. CASE args.kind = "int"
  <2>1. of \in Encodable
    BY <1>0, <1>4
  <2>2. B = EncodeScaleInt(of) /\ V = [type |-> Compact, tree |-> <<of>>]
    BY <1>4 DEF ArgumentBytes, ArgumentView
  <2> HIDE DEF of, B, V
  <2> QED
    BY <2>1, <2>2, CompactReadsBack DEF B, V
<1>5. CASE args.kind \in {"list", "dict"}
  <2>1. d # 0 /\ of \in ListsOf(ArgumentsUpTo[d - 1])
    BY <1>0, <1>5
  <2>2. /\ Len(of) \in Encodable /\ DOMAIN of = 1 .. Len(of)
        /\ \A i \in 1 .. Len(of) : of[i] \in ArgumentsUpTo[d - 1]
    BY <2>1, ListShape
  <2>3. Len(of) \in Nat
    BY <2>2 DEF Encodable
  <2>4. args.kind = "list" => B = SerializeVec(items) /\ V = [type |-> Tuple(types), tree |-> trees]
    BY DEF ArgumentBytes, ArgumentView
  <2>5. args.kind = "dict" => B = FlattenSeq(items) /\ V = [type |-> Struct(types), tree |-> trees]
    BY DEF ArgumentBytes, ArgumentView
  <2> HIDE DEF of, B, V
  <2>6. \A i \in 1 .. Len(of) : ReadsBack(types[i], items[i], trees[i])
    BY <2>1, <2>2
  <2>7. items \in Seq(Input) /\ Len(items) = Len(of) /\ Len(types) = Len(of)
    <3>1. \A i \in 1 .. Len(of) : items[i] \in Input
      BY <2>6 DEF ReadsBack
    <3> QED
      BY <2>2, <2>3, <3>1
  <2>8. [i \in 1 .. Len(items) |-> trees[i]] = trees
    BY <2>2, <2>7
  <2> HIDE DEF items, types, trees
  <2>9. Len(items) \in Encodable /\ Len(types) = Len(items)
        /\ \A i \in 1 .. Len(items) : ReadsBack(types[i], items[i], trees[i])
    BY <2>2, <2>6, <2>7
  <2>10. ReadsBack(Tuple(types), SerializeVec(items), [i \in 1 .. Len(items) |-> trees[i]])
    BY <2>7, <2>9, TupleReadsBack
  <2>11. ReadsBack(Struct(types), FlattenSeq(items), [i \in 1 .. Len(items) |-> trees[i]])
    BY <2>7, <2>9, StructReadsBack
  <2> QED
    BY <1>5, <2>4, <2>5, <2>8, <2>10, <2>11 DEF B, V
<1> QED
  BY <1>0, <1>1, <1>2, <1>3, <1>4, <1>5

\* Whatever is passed to a contract is read back by one that knows its types,
\* however deeply the lists and dicts are nested (serialize_contract_args).
THEOREM ArgsReadBack ==
    ASSUME NEW args \in ArgumentsUpTo[MaxNesting]
    PROVE  ReadsBack(ArgsView[MaxNesting][args].type, SerializeContractArgs(args),
                     ArgsView[MaxNesting][args].tree)
<1> DEFINE N == MaxNesting
           Good(d) == \A a \in ArgumentsUpTo[d] :
                          ReadsBack(ArgsView[d][a].type, ArgsBytes[d][a], ArgsView[d][a].tree)
           S == {d \in 0 .. N : Good(d)}
<1>0. N \in Nat
  BY ScaleAssumption
<1>1. ASSUME NEW d \in 0 .. N, d # 0 => Good(d - 1) PROVE Good(d)
  <2> SUFFICES ASSUME NEW a \in ArgumentsUpTo[d]
               PROVE  ReadsBack(ArgsView[d][a].type, ArgsBytes[d][a], ArgsView[d][a].tree)
    OBVIOUS
  <2>1. /\ ArgsBytes[d][a] = ArgumentBytes(a, ArgsBytes[d - 1])
        /\ ArgsView[d][a] = ArgumentView(a, ArgsView[d - 1])
    BY BytesEquation, ViewEquation
  <2>2. d # 0 => \A b \in ArgumentsUpTo[d - 1] :
                     ReadsBack(ArgsView[d - 1][b].type, ArgsBytes[d - 1][b],
                               ArgsView[d - 1][b].tree)
    BY <1>1
  <2> QED
    BY <2>1, <2>2, LevelReadsBack
<1> HIDE DEF Good
<1>2. 0 \in S
  BY <1>0, <1>1
<1>3. ASSUME NEW k \in 0 .. N, k \in S, k < N PROVE k + 1 \in S
  <2>1. k + 1 \in 0 .. N /\ (k + 1) - 1 = k /\ Good(k)
    BY <1>0, <1>3
  <2> QED
    BY <1>1, <2>1
<1>4. N \in S
  <2> HIDE DEF S, N
  <2>1. \A k \in 0 .. N : k \in S
    BY <1>0, <1>2, <1>3, InductionUpTo
  <2> QED
    BY <1>0, <2>1
<1> QED
  BY <1>4 DEF Good, SerializeContractArgs

-----------------------------------------------------------------------------
(* Everything that is serialised is read back.                             *)

\* The highest digit is not 0: no number is written longer than it needs.
LEMMA LastDigit ==
    \A v \in Nat \ {0} : LittleEndian[v][Len(LittleEndian[v])] # 0
<1> DEFINE Good(v) == LittleEndian[v][Len(LittleEndian[v])] # 0
           Bad == {v \in Nat \ {0} : ~Good(v)}
<1> SUFFICES ASSUME Bad # {} PROVE FALSE
  OBVIOUS
<1>1. PICK v \in Bad : \A k \in Bad : v <= k
  <2>1. Bad \in SUBSET Nat
    OBVIOUS
  <2> HIDE DEF Bad
  <2> QED
    BY <2>1, LeastNatural
<1>2. v \in Nat \ {0} /\ ~Good(v)
  BY <1>1
<1> DEFINE w == v \div 256
           x == v % 256
           t == LittleEndian[w]
           s == LittleEndian[v]
<1>3. w \in Nat /\ w < v /\ x \in Byte /\ (w = 0 => x = v)
  <2>1. v \in Nat \ {0}
    BY <1>2
  <2> HIDE DEF Good, Bad
  <2> QED
    BY <2>1 DEF Byte
<1>4. s = <<x>> \o t
  BY <1>2, DigitsEquation, ZenonT(30)
<1>5. w # 0 => Good(w)
  BY <1>1, <1>3
<1> HIDE DEF w, x
<1>6. t \in Seq(Byte) /\ Len(t) \in Nat /\ (w = 0 => t = <<>>)
  <2>1. LittleEndian[w] \in Seq(Byte)
    BY <1>3, DigitsAddUp
  <2>2. w = 0 => LittleEndian[w] = <<>>
    <3>1. LittleEndian[0] = <<>>
      BY DigitsEquation
    <3> QED
      BY <3>1
  <2> HIDE DEF Good, Bad
  <2> QED
    BY <2>1, <2>2
<1>7. w # 0 => Len(t) >= 1
  BY <1>3, OneDigitMore
<1>8. w # 0 => t[Len(t)] # 0
  BY <1>5
<1>9. s[Len(s)] # 0
  <2> HIDE DEF t, s, Good, Bad
  <2>1. CASE w = 0
    <3>1. s = <<x>> /\ x # 0
      BY <1>2, <1>3, <1>4, <1>6, <2>1
    <3> QED
      BY <3>1
  <2>2. CASE w # 0
    <3>1. Len(s) = Len(t) + 1 /\ Len(t) \in 1 .. Len(t)
      BY <1>3, <1>4, <1>6, <1>7, <2>2
    <3>2. s[Len(t) + 1] = t[Len(t)]
      BY <1>3, <1>4, <1>6, <3>1
    <3> QED
      BY <1>8, <2>2, <3>1, <3>2
  <2> QED
    BY <2>1, <2>2
<1> QED
  BY <1>2, <1>9 DEF Good, s

\* An integer is read back from its own bytes, in no more than it needs.
LEMMA IntReadsBack ==
    ASSUME NEW val \in Encodable, NEW s, s = EncodeScaleInt(val)
    PROVE  /\ DecodeScaleInt(s) = [ok |-> TRUE, value |-> val, size |-> Len(s)]
           /\ IF val < 1073741824
              THEN Len(s) = (IF val < 64 THEN 1 ELSE IF val < 16384 THEN 2 ELSE 4)
              ELSE Len(s) > 4 /\ s[Len(s)] # 0
<1>1. val \in Nat /\ Len(LittleEndian[val]) <= 67
  BY DEF Encodable
<1>2. s \in Seq(Byte)
  BY SMT, <1>1, EncodedBytes
<1>3. s \o <<>> = s /\ <<>> \in Seq(Nat)
  BY <1>2
<1>4. DecodeScaleInt(s) = [ok |-> TRUE, value |-> val, size |-> Len(s)]
  <2>1. DecodeScaleInt(EncodeScaleInt(val) \o <<>>)
            = [ok |-> TRUE, value |-> val, size |-> Len(EncodeScaleInt(val))]
    BY <1>1, <1>3, CompactRoundTrip
  <2> QED
    BY <1>3, <2>1
<1>5. CASE val < 1073741824
  <2>1. /\ val < 64 => Len(s) = 1
        /\ 64 <= val /\ val < 16384 => Len(s) = 2
        /\ 16384 <= val /\ val < 1073741824 => Len(s) = 4
    BY SMT, <1>1, EncodedBytes
  <2> QED
    BY SMT, <1>1, <1>4, <1>5, <2>1
<1>6. CASE val >= 1073741824
  <2> DEFINE t == LittleEndian[val]
  <2>1. val \in Nat \ {0}
    BY SMT, <1>1, <1>6
  <2>2. t \in Seq(Byte) /\ Len(t) >= 4 /\ t[Len(t)] # 0
    BY SMT, <1>1, <1>6, <2>1, DigitsAddUp, FourDigits, LastDigit
  <2>3. s = <<4 * (Len(t) - 4) + 3>> \o t
    <3>1. EncodeScaleInt(val) = <<4 * (Len(LittleEndian[val]) - 4) + 3>> \o LittleEndian[val]
      BY SMT, <1>1, <1>6 DEF EncodeScaleInt
    <3> QED
      BY SMT, <3>1
  <2> HIDE DEF t
  <2>4. Len(s) = Len(t) + 1 /\ s[Len(t) + 1] = t[Len(t)]
    BY SMT, <2>2, <2>3
  <2>5. Len(s) > 4 /\ s[Len(s)] # 0
    BY SMT, <2>2, <2>4
  <2> QED
    BY SMT, <1>1, <1>4, <1>6, <2>5
<1> QED
  BY SMT, <1>1, <1>5, <1>6

\* What reads back whatever follows reads back to its end.
LEMMA ReadToTheEnd ==
    ASSUME NEW type, NEW bytes, NEW tree, ReadsBack(type, bytes, tree)
    PROVE  Reads(type, bytes, tree)
<1>1. bytes \in Input /\ <<>> \in Input
  BY DEF ReadsBack, Input
<1>2. bytes \o <<>> = bytes
  BY <1>1 DEF Input
<1>3. type[bytes \o <<>>] = Reading(tree, <<>>)
  BY <1>1 DEF ReadsBack
<1> QED
  BY <1>2, <1>3 DEF Reads

\* A transaction as it is submitted: the call, and in it the transaction.
LEMMA TransactionReadsBack ==
    ASSUME NEW stx \in StandardTransaction, NEW mid, mid = SerializeStandardTransaction(stx),
           Len(mid) \in Encodable
    PROVE  /\ Reads(Struct(<<Fixed, Fixed, Blob>>), SerializeRawMidnightTx(mid),
                    << <<5>>, <<0>>, mid>>)
           /\ SerializeRawMidnightTx(mid) \in Input
           /\ \E tree : Reads(StandardType, mid, tree) /\ IsStandardTree(tree, stx)
<1>1. PICK tree : ReadsBack(StandardType, mid, tree) /\ IsStandardTree(tree, stx)
  BY StandardReadsBack
<1>2. mid \in Input
  BY <1>1 DEF ReadsBack
<1>3. mid \in ByteString
  BY <1>2 DEF ByteString, ListsOf, Input
<1> DEFINE b1 == <<5>>
           b2 == <<0>>
           b3 == SerializeBytes(mid)
<1>4. ReadsBack(Fixed, b1, b1) /\ ReadsBack(Fixed, b2, b2) /\ ReadsBack(Blob, b3, mid)
  BY <1>3, FixedReadsBack, BlobReadsBack
<1>5. SerializeRawMidnightTx(mid) = (b1 \o b2) \o b3
  BY DEF SerializeRawMidnightTx
<1> HIDE DEF b1, b2, b3
<1>6. b1 \in Input /\ b2 \in Input /\ b3 \in Input
  BY <1>4 DEF ReadsBack
<1>7. ReadsBack(Struct(<<Fixed, Fixed, Blob>>), (b1 \o b2) \o b3, <<b1, b2, mid>>)
  BY <1>4, <1>6, ThreeReadBack
<1>8. Reads(Struct(<<Fixed, Fixed, Blob>>), (b1 \o b2) \o b3, <<b1, b2, mid>>)
  BY <1>7, ReadToTheEnd
<1>9. (b1 \o b2) \o b3 \in Input
  BY <1>7 DEF ReadsBack
<1>10. Reads(StandardType, mid, tree)
  BY <1>1, ReadToTheEnd
<1> QED
  BY <1>1, <1>5, <1>8, <1>9, <1>10 DEF b1, b2

\* The value is one of those to serialise, and once it is serialised the bytes
\* are those of its serializer.
ScaleInv ==
    /\ value \in [kind : {"int"}, of : Numbers] \cup [kind : {"args"}, of : Arguments]
                 \cup [kind : {"tx", "payload"}, of : Transactions]
    /\ serialized \in BOOLEAN
    /\ ~serialized => raw = <<>>
    /\ serialized =>
          /\ value.kind = "int" => raw = EncodeScaleInt(value.of)
          /\ value.kind = "args" => raw = SerializeContractArgs(value.of)
          /\ value.kind = "tx" =>
                raw = SerializeRawMidnightTx(SerializeStandardTransaction(value.of))
          /\ value.kind = "payload" =>
                \E i \in DOMAIN value.of.intents :
                    raw = GetUnshieldedSigningPayload(value.of.intents[i].segment,
                                                      value.of.intents[i].intent)

\* The invariant holds initially and is kept by every serializer.
LEMMA ScaleInvHolds == ScaleSpec => []ScaleInv
<1>1. ScaleInit => ScaleInv
  BY DEF ScaleInit, ScaleInv
<1>2. ScaleInv /\ [ScaleNext]_scaleVars => ScaleInv'
  <2> SUFFICES ASSUME ScaleInv, [ScaleNext]_scaleVars PROVE ScaleInv'
    OBVIOUS
  <2>1. CASE SerializeInt
    BY <2>1 DEF ScaleInv, SerializeInt, Serialize
  <2>2. CASE SerializeArgs
    BY <2>2 DEF ScaleInv, SerializeArgs, Serialize
  <2>3. CASE SerializeTx
    BY <2>3 DEF ScaleInv, SerializeTx, Serialize
  <2>4. CASE SerializePayload
    BY <2>4 DEF ScaleInv, SerializePayload, Serialize
  <2>5. CASE UNCHANGED scaleVars
    BY <2>5 DEF ScaleInv, scaleVars
  <2> QED
    BY <2>1, <2>2, <2>3, <2>4, <2>5 DEF ScaleNext
<1> QED
  BY <1>1, <1>2, PTL DEF ScaleSpec

\* The intents of a transaction.
LEMMA IntentsShape ==
    ASSUME NEW stx \in StandardTransaction, NEW i \in DOMAIN stx.intents
    PROVE  stx.intents[i].segment \in Nat /\ stx.intents[i].intent \in Intent
<1>1. stx.intents \in ListsOf([segment : Nat, intent : Intent])
  BY DEF StandardTransaction, DictsOf
<1>2. stx.intents[i] \in [segment : Nat, intent : Intent]
  BY <1>1, ListShape
<1> QED
  BY <1>2

\* Whatever is serialised, its bytes are read back to their end as what was
\* meant: an integer in the shortest form, nested arguments, every field of a
\* transaction with its segments ascending, the payload of a signature.
THEOREM EverythingReadsBack == ScaleSpec => []ReadBack
<1>1. ScaleInv => ReadBack
  <2> SUFFICES ASSUME ScaleInv PROVE ReadBack
    OBVIOUS
  <2> USE DEF ScaleInv
  <2>1. IntRoundTrip
    <3> SUFFICES ASSUME serialized, value.kind = "int"
                 PROVE  LET d == DecodeScaleInt(raw)
                        IN  /\ d.ok /\ d.value = value.of /\ d.size = Len(raw)
                            /\ IF value.of < 1073741824
                               THEN Len(raw) = (IF value.of < 64 THEN 1
                                                ELSE IF value.of < 16384 THEN 2 ELSE 4)
                               ELSE Len(raw) > 4 /\ raw[Len(raw)] # 0
      BY SMT DEF IntRoundTrip
    <3>1. value.of \in Encodable /\ raw = EncodeScaleInt(value.of)
      BY SMT, ScaleAssumption
    <3> DEFINE v == value.of
    <3>2. /\ DecodeScaleInt(raw) = [ok |-> TRUE, value |-> v, size |-> Len(raw)]
          /\ IF v < 1073741824
             THEN Len(raw) = (IF v < 64 THEN 1 ELSE IF v < 16384 THEN 2 ELSE 4)
             ELSE Len(raw) > 4 /\ raw[Len(raw)] # 0
      <4>1. v \in Encodable /\ raw = EncodeScaleInt(v)
        BY SMT, <3>1
      <4> HIDE DEF v
      <4> QED
        BY ONLY <4>1, IntReadsBack
    <3> HIDE DEF ScaleInv
    <3> QED
      BY SMT, <3>2
  <2>2. ArgsRoundTrip
    <3> SUFFICES ASSUME serialized, value.kind = "args"
                 PROVE  Reads(ArgsView[MaxNesting][value.of].type, raw,
                              ArgsView[MaxNesting][value.of].tree)
      BY DEF ArgsRoundTrip
    <3>1. value.of \in ArgumentsUpTo[MaxNesting] /\ raw = SerializeContractArgs(value.of)
      BY ScaleAssumption
    <3> QED
      BY <3>1, ArgsReadBack, ReadToTheEnd
  <2>3. TransactionRoundTrip
    <3> SUFFICES ASSUME serialized, value.kind = "tx" PROVE TransactionRoundTrip
      BY DEF TransactionRoundTrip
    <3> DEFINE stx == value.of
               mid == SerializeStandardTransaction(stx)
               call == Struct(<<Fixed, Fixed, Blob>>)[raw]
    <3>1. /\ stx \in StandardTransaction /\ Len(mid) \in Encodable
          /\ raw = SerializeRawMidnightTx(mid)
      BY ScaleAssumption
    <3> HIDE DEF stx, mid
    <3>2. /\ Reads(Struct(<<Fixed, Fixed, Blob>>), raw, << <<5>>, <<0>>, mid>>)
          /\ \E tree : Reads(StandardType, mid, tree) /\ IsStandardTree(tree, stx)
      BY <3>1, TransactionReadsBack DEF mid
    <3>3. PICK tree : Reads(StandardType, mid, tree) /\ IsStandardTree(tree, stx)
      BY <3>2
    <3>4. call = Reading(<< <<5>>, <<0>>, mid>>, <<>>)
      BY <3>2 DEF Reads
    <3> HIDE DEF call
    <3>5. /\ call.ok /\ call.rest = <<>> /\ call.value[1] = <<5>> /\ call.value[2] = <<0>>
          /\ call.value[3] = mid
      BY <3>4 DEF Reading
    <3>6. /\ StandardType[mid].ok /\ StandardType[mid].rest = <<>>
          /\ StandardType[mid].value = tree
      BY <3>3 DEF Reads, Reading
    <3> QED
      BY <3>3, <3>5, <3>6 DEF TransactionRoundTrip, call, stx
  <2>4. PayloadRoundTrip
    <3> SUFFICES ASSUME serialized, value.kind = "payload"
                 PROVE  \E i \in DOMAIN value.of.intents :
                            Reads(PayloadType, raw, PayloadTree(value.of.intents[i].segment,
                                                                value.of.intents[i].intent))
      BY DEF PayloadRoundTrip
    <3>1. value.of \in StandardTransaction
      BY ScaleAssumption
    <3>2. PICK i \in DOMAIN value.of.intents :
              raw = GetUnshieldedSigningPayload(value.of.intents[i].segment,
                                                value.of.intents[i].intent)
      OBVIOUS
    <3>3. value.of.intents[i].segment \in Nat /\ value.of.intents[i].intent \in Intent
      BY <3>1, IntentsShape
    <3>4. ReadsBack(PayloadType, raw, PayloadTree(value.of.intents[i].segment,
                                                  value.of.intents[i].intent))
      BY <3>2, <3>3, PayloadReadsBack
    <3> QED
      BY <3>4, ReadToTheEnd
  <2> QED
    BY <2>1, <2>2, <2>3, <2>4 DEF ReadBack
<1> QED
  BY <1>1, ScaleInvHolds, PTL

\* Bytes stay bytes: every element is a number, those of an integer are at
\* most 255, and nothing is written before it is serialised.
THEOREM ScaleTypes == ScaleSpec => []ScaleTypeOK
<1>1. ScaleInv => ScaleTypeOK
  <2> SUFFICES ASSUME ScaleInv PROVE ScaleTypeOK
    OBVIOUS
  <2> USE DEF ScaleInv
  <2>1. serialized \in BOOLEAN /\ (~serialized => raw = <<>>)
    OBVIOUS
  <2>2. value.kind \in {"int", "args", "tx", "payload"}
    OBVIOUS
  <2>3. CASE ~serialized
    <3>1. raw = <<>>
      BY <2>1, <2>3
    <3>2. \A i \in DOMAIN raw : raw[i] \in Nat /\ raw[i] \in Byte
      BY <3>1
    <3> QED
      BY <2>1, <3>2 DEF ScaleTypeOK
  <2>4. CASE serialized /\ value.kind = "int"
    <3>1. value.of \in Encodable /\ raw = EncodeScaleInt(value.of)
      BY SMT, <2>4, ScaleAssumption
    <3>2. raw \in Seq(Byte)
      <4> DEFINE v == value.of
      <4>1. v \in Nat /\ Len(LittleEndian[v]) <= 67 /\ raw = EncodeScaleInt(v)
        BY SMT, <3>1 DEF Encodable
      <4> HIDE DEF v
      <4> QED
        BY ONLY <4>1, EncodedBytes
    <3>3. Byte \subseteq Nat
      BY DEF Byte
    <3>4. \A i \in DOMAIN raw : raw[i] \in Nat /\ raw[i] \in Byte
      <4> DEFINE s == raw
      <4>1. s \in Seq(Byte)
        BY <3>2
      <4> HIDE DEF s
      <4>2. DOMAIN s = 1 .. Len(s) /\ \A i \in 1 .. Len(s) : s[i] \in Byte
        BY ONLY <4>1
      <4>3. \A i \in DOMAIN s : s[i] \in Nat /\ s[i] \in Byte
        BY ONLY <3>3, <4>2
      <4> QED
        BY <4>3 DEF s
    <3> QED
      BY <2>1, <3>4 DEF ScaleTypeOK
  <2>5. CASE serialized /\ value.kind # "int"
    <3>1. raw \in Input
      <4>1. CASE value.kind = "args"
        <5>1. value.of \in ArgumentsUpTo[MaxNesting] /\ raw = SerializeContractArgs(value.of)
          BY <2>5, <4>1, ScaleAssumption
        <5> QED
          BY <5>1, ArgsReadBack DEF ReadsBack
      <4>2. CASE value.kind = "tx"
        <5> DEFINE stx == value.of
        <5>1. /\ stx \in StandardTransaction
              /\ Len(SerializeStandardTransaction(stx)) \in Encodable
              /\ raw = SerializeRawMidnightTx(SerializeStandardTransaction(stx))
          BY <2>5, <4>2, ScaleAssumption
        <5> HIDE DEF stx
        <5> QED
          BY <5>1, TransactionReadsBack
      <4>3. CASE value.kind = "payload"
        <5>1. PICK i \in DOMAIN value.of.intents :
                  raw = GetUnshieldedSigningPayload(value.of.intents[i].segment,
                                                    value.of.intents[i].intent)
          BY <2>5, <4>3
        <5>2. value.of \in StandardTransaction
          BY <4>3, ScaleAssumption
        <5>3. value.of.intents[i].segment \in Nat /\ value.of.intents[i].intent \in Intent
          BY <5>2, IntentsShape
        <5> QED
          BY <5>1, <5>3, PayloadReadsBack DEF ReadsBack
      <4> QED
        BY <2>2, <2>5, <4>1, <4>2, <4>3
    <3> QED
      BY <2>1, <2>5, <3>1 DEF ScaleTypeOK, Input
  <2> QED
    BY <2>1, <2>3, <2>4, <2>5
<1> QED
  BY <1>1, ScaleInvHolds, PTL

-----------------------------------------------------------------------------
(* What a signature is about.                                              *)

\* Fields are told apart by their leaves.
LEMMA LeavesDiffer ==
    ASSUME NEW s \in Input, NEW t \in Input, Leaves(s) = Leaves(t)
    PROVE  s = t
<1>1. DOMAIN Leaves(s) = DOMAIN s /\ DOMAIN Leaves(t) = DOMAIN t
  BY DEF Leaves, Each
<1>2. \A i \in DOMAIN s : Leaves(s)[i] = <<s[i]>>
  BY DEF Leaves, Each, Leaf
<1>3. \A i \in DOMAIN t : Leaves(t)[i] = <<t[i]>>
  BY DEF Leaves, Each, Leaf
<1>4. DOMAIN s = DOMAIN t /\ \A i \in DOMAIN s : s[i] = t[i]
  BY <1>1, <1>2, <1>3
<1> QED
  BY <1>4, SeqEqual DEF Input

\* Lists are the same when their positions and their elements are.
LEMMA SameList ==
    ASSUME NEW S, NEW s \in ListsOf(S), NEW t \in ListsOf(S), DOMAIN s = DOMAIN t,
           \A i \in DOMAIN s : s[i] = t[i]
    PROVE  s = t
<1>1. s \in Seq(S) /\ t \in Seq(S)
  BY DEF ListsOf
<1> QED
  BY <1>1, SeqEqual

\* Two offers, or their absence, with one tree are one.
LEMMA OfferTreesDiffer ==
    ASSUME NEW x \in UnshieldedOffer \cup {NoOffer}, NEW y \in UnshieldedOffer \cup {NoOffer},
           OfferTree(x) = OfferTree(y)
    PROVE  x = y
<1> DEFINE SpendFields(u) == <<u.value, u.owner, u.type_, u.intent_hash, u.output_no>>
           OutputFields(o) == <<o.value, o.owner, o.type_>>
           Ins(z) == [i \in DOMAIN z.inputs |-> Leaves(SpendFields(z.inputs[i]))]
           Outs(z) == [i \in DOMAIN z.outputs |-> Leaves(OutputFields(z.outputs[i]))]
           Tree(z) == << <<Ins(z), Outs(z), Leaves(z.signatures)>> >>
<1>1. \A z : OfferTree(z) = IF z = NoOffer THEN <<>> ELSE Tree(z)
  BY DEF OfferTree, Each
<1>2. CASE x = NoOffer \/ y = NoOffer
  <2>1. \A z : Tree(z) # <<>>
    OBVIOUS
  <2> HIDE DEF Tree
  <2> QED
    BY <1>1, <1>2, <2>1
<1>3. CASE x # NoOffer /\ y # NoOffer
  <2>1. x \in UnshieldedOffer /\ y \in UnshieldedOffer
    BY <1>3
  <2>2. Ins(x) = Ins(y) /\ Outs(x) = Outs(y) /\ Leaves(x.signatures) = Leaves(y.signatures)
    <3>1. Tree(x) = Tree(y)
      BY <1>1, <1>3
    <3> HIDE DEF Ins, Outs
    <3> QED
      BY <3>1
  <2>3. /\ x.inputs \in ListsOf(UtxoSpend) /\ y.inputs \in ListsOf(UtxoSpend)
        /\ x.outputs \in ListsOf(UtxoOutput) /\ y.outputs \in ListsOf(UtxoOutput)
        /\ x.signatures \in Input /\ y.signatures \in Input
    BY <2>1 DEF UnshieldedOffer, ByteString, ListsOf, Input
  <2>4. x.inputs = y.inputs
    <3>1. DOMAIN x.inputs = DOMAIN y.inputs
      BY <2>2
    <3>2. ASSUME NEW i \in DOMAIN x.inputs PROVE x.inputs[i] = y.inputs[i]
      <4> DEFINE u == x.inputs[i]
                 v == y.inputs[i]
      <4>1. u \in UtxoSpend /\ v \in UtxoSpend
        BY <2>3, <3>1, ListShape
      <4>2. Leaves(SpendFields(u)) = Leaves(SpendFields(v))
        <5>1. Ins(x)[i] = Ins(y)[i]
          BY <2>2
        <5> QED
          BY <3>1, <5>1
      <4> HIDE DEF u, v
      <4>3. SpendFields(u) \in Input /\ SpendFields(v) \in Input
        BY <4>1 DEF UtxoSpend, Input
      <4>4. SpendFields(u) = SpendFields(v)
        BY <4>2, <4>3, LeavesDiffer
      <4>5. u = v
        BY <4>1, <4>4 DEF UtxoSpend
      <4> QED
        BY <4>5 DEF u, v
    <3> QED
      BY <2>3, <3>1, <3>2, SameList
  <2>5. x.outputs = y.outputs
    <3>1. DOMAIN x.outputs = DOMAIN y.outputs
      BY <2>2
    <3>2. ASSUME NEW i \in DOMAIN x.outputs PROVE x.outputs[i] = y.outputs[i]
      <4> DEFINE u == x.outputs[i]
                 v == y.outputs[i]
      <4>1. u \in UtxoOutput /\ v \in UtxoOutput
        BY <2>3, <3>1, ListShape
      <4>2. Leaves(OutputFields(u)) = Leaves(OutputFields(v))
        <5>1. Outs(x)[i] = Outs(y)[i]
          BY <2>2
        <5> QED
          BY <3>1, <5>1
      <4> HIDE DEF u, v
      <4>3. OutputFields(u) \in Input /\ OutputFields(v) \in Input
        BY <4>1 DEF UtxoOutput, Input
      <4>4. OutputFields(u) = OutputFields(v)
        BY <4>2, <4>3, LeavesDiffer
      <4>5. u = v
        BY <4>1, <4>4 DEF UtxoOutput
      <4> QED
        BY <4>5 DEF u, v
    <3> QED
      BY <2>3, <3>1, <3>2, SameList
  <2>6. x.signatures = y.signatures
    BY <2>2, <2>3, LeavesDiffer
  <2> QED
    BY <2>1, <2>4, <2>5, <2>6 DEF UnshieldedOffer
<1> QED
  BY <1>2, <1>3

\* Two actions with one tree are one.
LEMMA ActionTreesDiffer ==
    ASSUME NEW x \in ContractAction, NEW y \in ContractAction, ActionTree(x) = ActionTree(y)
    PROVE  x = y
<1>1. \A z : ActionTree(z) = IF z.type = "deploy"
                             THEN << <<0>>, <<z.bytecode, z.initial_state>> >>
                             ELSE << <<1>>, << <<z.address>>, z.entry_point, z.args>> >>
  BY DEF ActionTree
<1>2. x.type = "deploy" <=> y.type = "deploy"
  BY <1>1
<1>3. CASE x.type = "deploy"
  <2>1. /\ x \in [type : {"deploy"}, bytecode : ByteString, initial_state : ByteString]
        /\ y \in [type : {"deploy"}, bytecode : ByteString, initial_state : ByteString]
    BY <1>2, <1>3 DEF ContractAction
  <2>2. x.bytecode = y.bytecode /\ x.initial_state = y.initial_state
    BY <1>1, <1>2, <1>3
  <2> QED
    BY <2>1, <2>2
<1>4. CASE x.type # "deploy"
  <2>1. /\ x \in [type : {"call"}, address : Nat, entry_point : ByteString, args : ByteString]
        /\ y \in [type : {"call"}, address : Nat, entry_point : ByteString, args : ByteString]
    BY <1>2, <1>4 DEF ContractAction
  <2>2. x.address = y.address /\ x.entry_point = y.entry_point /\ x.args = y.args
    BY <1>1, <1>2, <1>4
  <2> QED
    BY <2>1, <2>2
<1> QED
  BY <1>3, <1>4

\* A signature is about one segment and one intent: no other pair has the
\* payload that is signed (get_unshielded_signing_payload).
THEOREM PayloadIsUnambiguous ==
    ASSUME NEW s1 \in Nat, NEW s2 \in Nat, NEW x \in Intent, NEW y \in Intent,
           GetUnshieldedSigningPayload(s1, x) = GetUnshieldedSigningPayload(s2, y)
    PROVE  s1 = s2 /\ x = y
<1>1. /\ Reads(PayloadType, GetUnshieldedSigningPayload(s1, x), PayloadTree(s1, x))
      /\ Reads(PayloadType, GetUnshieldedSigningPayload(s2, y), PayloadTree(s2, y))
  BY PayloadReadsBack, ReadToTheEnd
<1>2. PayloadTree(s1, x) = PayloadTree(s2, y)
  <2>1. Reading(PayloadTree(s1, x), <<>>) = Reading(PayloadTree(s2, y), <<>>)
    BY <1>1 DEF Reads
  <2> QED
    BY <2>1 DEF Reading
<1>3. s1 = s2 /\ IntentTree(x) = IntentTree(y)
  BY <1>2 DEF PayloadTree
<1> DEFINE Acts(z) == [i \in DOMAIN z.actions |-> ActionTree(z.actions[i])]
<1>4. \A z : IntentTree(z) = <<OfferTree(z.guaranteed_unshielded_offer),
                               OfferTree(z.fallible_unshielded_offer),
                               <<z.ttl>>, Acts(z), <<z.binding_commitment>>>>
  BY DEF IntentTree, Each
<1>5. /\ OfferTree(x.guaranteed_unshielded_offer) = OfferTree(y.guaranteed_unshielded_offer)
      /\ OfferTree(x.fallible_unshielded_offer) = OfferTree(y.fallible_unshielded_offer)
      /\ x.ttl = y.ttl /\ Acts(x) = Acts(y) /\ x.binding_commitment = y.binding_commitment
  <2> HIDE DEF Acts
  <2> QED
    BY <1>3, <1>4
<1>6. /\ x.guaranteed_unshielded_offer = y.guaranteed_unshielded_offer
      /\ x.fallible_unshielded_offer = y.fallible_unshielded_offer
  BY <1>5, OfferTreesDiffer DEF Intent
<1>7. x.actions = y.actions
  <2>1. x.actions \in ListsOf(ContractAction) /\ y.actions \in ListsOf(ContractAction)
    BY DEF Intent
  <2>2. DOMAIN x.actions = DOMAIN y.actions
    BY <1>5
  <2>3. ASSUME NEW i \in DOMAIN x.actions PROVE x.actions[i] = y.actions[i]
    <3>1. x.actions[i] \in ContractAction /\ y.actions[i] \in ContractAction
      BY <2>1, <2>2, ListShape
    <3>2. ActionTree(x.actions[i]) = ActionTree(y.actions[i])
      <4>1. Acts(x)[i] = Acts(y)[i]
        BY <1>5
      <4> QED
        BY <2>2, <4>1
    <3> QED
      BY <3>1, <3>2, ActionTreesDiffer
  <2> QED
    BY <2>1, <2>2, <2>3, SameList
<1> QED
  BY <1>3, <1>5, <1>6, <1>7 DEF Intent

-----------------------------------------------------------------------------
(* Addresses: words of five bits.                                          *)

\* A word is the sum of its bits.
LEMMA WordBits ==
    ASSUME NEW n \in Word
    PROVE  /\ \A i \in 1 .. 5 : Bits(n)[i] \in {0, 1}
           /\ n = Bits(n)[1] + 2 * Bits(n)[2] + 4 * Bits(n)[3] + 8 * Bits(n)[4] + 16 * Bits(n)[5]
<1> DEFINE b == Bits(n)
<1>1. /\ b[1] = n % 2 /\ b[2] = (n \div 2) % 2 /\ b[3] = (n \div 4) % 2
      /\ b[4] = (n \div 8) % 2 /\ b[5] = (n \div 16) % 2
  BY DEF Bits
<1> HIDE DEF b
<1>2. b[1] \in {0, 1} /\ b[2] \in {0, 1} /\ b[3] \in {0, 1} /\ b[4] \in {0, 1} /\ b[5] \in {0, 1}
  BY <1>1 DEF Word
<1>3. n = b[1] + 2 * b[2] + 4 * b[3] + 8 * b[4] + 16 * b[5]
  BY <1>1 DEF Word
<1>4. \A i \in 1 .. 5 : i = 1 \/ i = 2 \/ i = 3 \/ i = 4 \/ i = 5
  OBVIOUS
<1>5. \A i \in 1 .. 5 : b[i] \in {0, 1}
  BY ONLY <1>2, <1>4, Zenon
<1> QED
  BY <1>3, <1>5 DEF b

\* The bits of a sum of bits.
LEMMA BitsOfSum ==
    ASSUME NEW c1 \in {0, 1}, NEW c2 \in {0, 1}, NEW c3 \in {0, 1}, NEW c4 \in {0, 1},
           NEW c5 \in {0, 1}, NEW n, n = c1 + 2 * c2 + 4 * c3 + 8 * c4 + 16 * c5
    PROVE  /\ n \in Word
           /\ Bits(n)[1] = c1 /\ Bits(n)[2] = c2 /\ Bits(n)[3] = c3
           /\ Bits(n)[4] = c4 /\ Bits(n)[5] = c5
<1>1. n \in Word
  BY DEF Word
<1>2. /\ n % 2 = c1 /\ (n \div 2) % 2 = c2 /\ (n \div 4) % 2 = c3
      /\ (n \div 8) % 2 = c4 /\ (n \div 16) % 2 = c5
  OBVIOUS
<1> QED
  BY <1>1, <1>2 DEF Bits

\* Words are added bit by bit, without a carry.
LEMMA XorBits ==
    ASSUME NEW a \in Word, NEW b \in Word
    PROVE  /\ Xor[a][b] \in Word
           /\ \A i \in 1 .. 5 : Bits(Xor[a][b])[i] = (Bits(a)[i] + Bits(b)[i]) % 2
<1> DEFINE c == [i \in 1 .. 5 |-> (Bits(a)[i] + Bits(b)[i]) % 2]
<1>1. \A i \in 1 .. 5 : c[i] \in {0, 1}
  BY WordBits
<1>2. Xor[a][b] = c[1] + 2 * c[2] + 4 * c[3] + 8 * c[4] + 16 * c[5]
  BY DEF Xor
<1>3. c[1] \in {0, 1} /\ c[2] \in {0, 1} /\ c[3] \in {0, 1} /\ c[4] \in {0, 1} /\ c[5] \in {0, 1}
  BY <1>1
<1> DEFINE d == Bits(Xor[a][b])
<1> HIDE DEF c
<1>4. /\ Xor[a][b] \in Word
      /\ d[1] = c[1] /\ d[2] = c[2] /\ d[3] = c[3] /\ d[4] = c[4] /\ d[5] = c[5]
  BY <1>2, <1>3, BitsOfSum
<1> HIDE DEF d
<1>5. \A i \in 1 .. 5 : i = 1 \/ i = 2 \/ i = 3 \/ i = 4 \/ i = 5
  OBVIOUS
<1>6. \A i \in 1 .. 5 : d[i] = c[i]
  BY ONLY <1>4, <1>5, Zenon
<1> QED
  BY <1>4, <1>6 DEF c, d

\* Words with the same bits are the same.
LEMMA SameBits ==
    ASSUME NEW a \in Word, NEW b \in Word, \A i \in 1 .. 5 : Bits(a)[i] = Bits(b)[i]
    PROVE  a = b
<1>1. /\ Bits(a)[1] = Bits(b)[1] /\ Bits(a)[2] = Bits(b)[2] /\ Bits(a)[3] = Bits(b)[3]
      /\ Bits(a)[4] = Bits(b)[4] /\ Bits(a)[5] = Bits(b)[5]
  OBVIOUS
<1> QED
  BY <1>1, WordBits

\* What was added is taken away by adding it again.
LEMMA XorUndone ==
    ASSUME NEW a \in Word, NEW b \in Word
    PROVE  Xor[a][Xor[a][b]] = b
<1>1. Xor[a][b] \in Word /\ Xor[a][Xor[a][b]] \in Word
  BY XorBits
<1>2. ASSUME NEW i \in 1 .. 5 PROVE Bits(Xor[a][Xor[a][b]])[i] = Bits(b)[i]
  <2>1. Bits(Xor[a][Xor[a][b]])[i] = (Bits(a)[i] + Bits(Xor[a][b])[i]) % 2
    BY <1>1, XorBits
  <2>2. Bits(Xor[a][b])[i] = (Bits(a)[i] + Bits(b)[i]) % 2
    BY XorBits
  <2>3. Bits(a)[i] \in {0, 1} /\ Bits(b)[i] \in {0, 1}
    BY WordBits
  <2> QED
    BY <2>1, <2>2, <2>3
<1> QED
  BY <1>1, <1>2, SameBits

\* The order in which words are added does not matter.
LEMMA XorSwap ==
    ASSUME NEW a \in Word, NEW b \in Word, NEW c \in Word
    PROVE  Xor[Xor[a][b]][c] = Xor[Xor[a][c]][b]
<1>1. Xor[a][b] \in Word /\ Xor[a][c] \in Word
  BY XorBits
<1>2. Xor[Xor[a][b]][c] \in Word /\ Xor[Xor[a][c]][b] \in Word
  BY <1>1, XorBits
<1>3. ASSUME NEW i \in 1 .. 5 PROVE Bits(Xor[Xor[a][b]][c])[i] = Bits(Xor[Xor[a][c]][b])[i]
  <2>1. /\ Bits(Xor[Xor[a][b]][c])[i] = (Bits(Xor[a][b])[i] + Bits(c)[i]) % 2
        /\ Bits(Xor[Xor[a][c]][b])[i] = (Bits(Xor[a][c])[i] + Bits(b)[i]) % 2
    BY <1>1, XorBits, SMTT(40)
  <2>2. /\ Bits(Xor[a][b])[i] = (Bits(a)[i] + Bits(b)[i]) % 2
        /\ Bits(Xor[a][c])[i] = (Bits(a)[i] + Bits(c)[i]) % 2
    BY XorBits
  <2>3. Bits(a)[i] \in {0, 1} /\ Bits(b)[i] \in {0, 1} /\ Bits(c)[i] \in {0, 1}
    BY WordBits
  <2> QED
    BY <2>1, <2>2, <2>3
<1> QED
  BY <1>2, <1>3, SameBits

\* 0 adds nothing.
LEMMA XorZero ==
    ASSUME NEW a \in Word
    PROVE  Xor[0][a] = a /\ Xor[a][0] = a
<1>0. 0 \in Word
  BY DEF Word
<1>1. Xor[0][a] \in Word /\ Xor[a][0] \in Word
  BY <1>0, XorBits
<1>2. ASSUME NEW i \in 1 .. 5
      PROVE  Bits(Xor[0][a])[i] = Bits(a)[i] /\ Bits(Xor[a][0])[i] = Bits(a)[i]
  <2>1. /\ Bits(Xor[0][a])[i] = (Bits(0)[i] + Bits(a)[i]) % 2
        /\ Bits(Xor[a][0])[i] = (Bits(a)[i] + Bits(0)[i]) % 2
    BY <1>0, XorBits
  <2>2. Bits(0)[i] = 0
    <3>1. Bits(0) = <<0, 0, 0, 0, 0>>
      BY DEF Bits
    <3> QED
      BY <3>1
  <2>3. Bits(a)[i] \in {0, 1}
    BY WordBits
  <2> QED
    BY <2>1, <2>2, <2>3
<1> QED
  BY <1>1, <1>2, SameBits

-----------------------------------------------------------------------------
(* A for loop over a sequence.                                             *)

Fold(step, base, s) ==
    LET r[i \in 0 .. Len(s)] == IF i = 0 THEN base ELSE step[r[i - 1]][s[i]]
    IN  r[Len(s)]

\* An iteration leads from states to states.
Steps(step, S, V) == \A a \in S, v \in V : step[a][v] \in S

\* r holds the states after each iteration.
States(r, step, base, s, S) ==
    /\ r[0] = base
    /\ \A i \in 1 .. Len(s) : r[i] = step[r[i - 1]][s[i]]
    /\ \A i \in 0 .. Len(s) : r[i] \in S

\* The state after each iteration satisfies its equation.
LEMMA FoldEquation ==
    ASSUME NEW S, NEW V, NEW step, NEW base, NEW s, Steps(step, S, V), base \in S, s \in Seq(V)
    PROVE  \E r : States(r, step, base, s, S) /\ Fold(step, base, s) = r[Len(s)]
<1> USE DEF Steps
<1> DEFINE n == Len(s)
           Eq(f, m) == f = [i \in 0 .. m |-> IF i = 0 THEN base ELSE step[f[i - 1]][s[i]]]
           K == {m \in 0 .. n : \E f : Eq(f, m)}
<1>1. 0 \in K
  <2>1. Eq([i \in 0 .. 0 |-> base], 0)
    OBVIOUS
  <2> HIDE DEF Eq
  <2> QED
    BY <2>1
<1>2. ASSUME NEW k \in 0 .. n, k \in K, k < n PROVE k + 1 \in K
  <2>1. PICK f : Eq(f, k)
    BY <1>2
  <2> DEFINE g == [i \in 0 .. (k + 1) |-> IF i = k + 1 THEN step[f[k]][s[k + 1]] ELSE f[i]]
  <2>2. \A i \in 0 .. (k + 1) : g[i] = IF i = 0 THEN base ELSE step[g[i - 1]][s[i]]
    <3> SUFFICES ASSUME NEW i \in 0 .. (k + 1)
                 PROVE  g[i] = IF i = 0 THEN base ELSE step[g[i - 1]][s[i]]
      OBVIOUS
    <3>1. CASE i = k + 1
      <4>1. i # 0 /\ i - 1 = k /\ k \in 0 .. (k + 1) /\ k # k + 1
        BY <3>1
      <4>2. g[i] = step[f[k]][s[k + 1]] /\ g[k] = f[k]
        BY <3>1, <4>1
      <4> HIDE DEF g
      <4> QED
        BY <3>1, <4>1, <4>2
    <3>2. CASE i # k + 1
      <4>1. i \in 0 .. k /\ (i # 0 => i - 1 \in 0 .. (k + 1) /\ i - 1 # k + 1)
        BY <3>2
      <4>2. g[i] = f[i] /\ (i # 0 => g[i - 1] = f[i - 1])
        BY <3>2, <4>1
      <4>3. f[i] = IF i = 0 THEN base ELSE step[f[i - 1]][s[i]]
        BY <2>1, <4>1
      <4> HIDE DEF g
      <4> QED
        BY <4>2, <4>3
    <3> QED
      BY <3>1, <3>2
  <2>3. Eq(g, k + 1)
    <3>1. g = [i \in 0 .. (k + 1) |-> g[i]]
      OBVIOUS
    <3> HIDE DEF g
    <3> QED
      BY <2>2, <3>1
  <2> HIDE DEF Eq
  <2> QED
    BY <1>2, <2>3
<1>3. n \in Nat
  OBVIOUS
<1>4. n \in K
  <2> HIDE DEF K, n
  <2>1. \A k \in 0 .. n : k \in K
    BY <1>1, <1>2, <1>3, InductionUpTo
  <2> QED
    BY <1>3, <2>1
<1> DEFINE r == CHOOSE f : Eq(f, n)
<1>5. Fold(step, base, s) = r[n]
  BY DEF Fold
<1>6. Eq(r, n)
  BY <1>4
<1> HIDE DEF r
<1>7. r[0] = base
  BY <1>6
<1>8. \A i \in 1 .. n : r[i] = step[r[i - 1]][s[i]]
  BY <1>6
<1> DEFINE M == {i \in 0 .. n : r[i] \in S}
<1>9. 0 \in M
  BY <1>7
<1>10. ASSUME NEW k \in 0 .. n, k \in M, k < n PROVE k + 1 \in M
  <2>1. k + 1 \in 1 .. n /\ (k + 1) - 1 = k
    BY <1>10
  <2>2. r[k + 1] = step[r[k]][s[k + 1]] /\ r[k] \in S /\ s[k + 1] \in V
    BY <1>8, <1>10, <2>1
  <2>3. r[k + 1] \in S
    BY <2>2
  <2> QED
    BY <2>1, <2>3
<1>11. \A i \in 0 .. n : r[i] \in S
  <2> HIDE DEF M, n
  <2>1. \A k \in 0 .. n : k \in M
    BY <1>3, <1>9, <1>10, InductionUpTo
  <2> QED
    BY <2>1 DEF M
<1> QED
  BY <1>5, <1>7, <1>8, <1>11 DEF States

\* Nothing is done for an empty sequence.
LEMMA FoldEmpty ==
    ASSUME NEW step, NEW base
    PROVE  Fold(step, base, <<>>) = base
<1> DEFINE S == {base}
           V == {}
           s == <<>>
<1>1. base \in S /\ s \in Seq(V) /\ Steps(step, S, V)
  BY DEF Steps
<1> HIDE DEF S, V, s
<1>2. PICK r : States(r, step, base, s, S) /\ Fold(step, base, s) = r[Len(s)]
  BY <1>1, FoldEquation
<1> QED
  BY <1>2 DEF States, s

\* A loop on the states S over s, and one element e more.
Loop(step, base, S, V, s, e) == Steps(step, S, V) /\ base \in S /\ s \in Seq(V) /\ e \in V

\* One element more is one iteration more.
LEMMA LoopAppend ==
    ASSUME NEW S, NEW V, NEW step, NEW base, NEW s, NEW e, Loop(step, base, S, V, s, e)
    PROVE  /\ Fold(step, base, s) \in S
           /\ Fold(step, base, Append(s, e)) = step[Fold(step, base, s)][e]
<1>0. Steps(step, S, V) /\ base \in S /\ s \in Seq(V) /\ e \in V
  BY DEF Loop
<1> DEFINE t == Append(s, e)
           n == Len(s)
<1>1. n \in Nat /\ t \in Seq(V) /\ Len(t) = n + 1 /\ t[n + 1] = e /\ \A i \in 1 .. n : t[i] = s[i]
  BY <1>0
<1> HIDE DEF t
<1>2a. PICK r : States(r, step, base, s, S) /\ Fold(step, base, s) = r[Len(s)]
  BY <1>0, FoldEquation
<1>2. /\ r[0] = base
      /\ \A i \in 1 .. n : r[i] = step[r[i - 1]][s[i]]
      /\ \A i \in 0 .. n : r[i] \in S
      /\ Fold(step, base, s) = r[n]
  BY <1>2a DEF States
<1>3a. PICK q : States(q, step, base, t, S) /\ Fold(step, base, t) = q[Len(t)]
  BY <1>0, <1>1, FoldEquation
<1>3. /\ q[0] = base
      /\ \A i \in 1 .. Len(t) : q[i] = step[q[i - 1]][t[i]]
      /\ Fold(step, base, t) = q[Len(t)]
  BY <1>3a DEF States
<1> DEFINE K == {i \in 0 .. n : q[i] = r[i]}
<1>4. 0 \in K
  BY <1>1, <1>2, <1>3
<1>5. ASSUME NEW k \in 0 .. n, k \in K, k < n PROVE k + 1 \in K
  <2>1. k + 1 \in 1 .. n /\ k + 1 \in 1 .. Len(t) /\ (k + 1) - 1 = k
    BY <1>1, <1>5
  <2>2. q[k + 1] = step[q[k]][t[k + 1]] /\ r[k + 1] = step[r[k]][s[k + 1]]
    BY <1>2, <1>3, <2>1
  <2>3. q[k] = r[k] /\ t[k + 1] = s[k + 1]
    BY <1>1, <1>5, <2>1
  <2>4. q[k + 1] = r[k + 1]
    BY <2>2, <2>3
  <2> QED
    BY <2>1, <2>4
<1>6. q[n] = r[n]
  <2> HIDE DEF K, n
  <2>1. \A k \in 0 .. n : k \in K
    BY <1>1, <1>4, <1>5, InductionUpTo
  <2> QED
    BY <1>1, <2>1 DEF K
<1>7. n + 1 \in 1 .. Len(t) /\ (n + 1) - 1 = n /\ Len(t) = n + 1
  BY <1>1
<1>8. q[n + 1] = step[q[n]][t[n + 1]]
  BY <1>3, <1>7
<1>9. Fold(step, base, t) = step[Fold(step, base, s)][e]
  BY <1>1, <1>2, <1>3, <1>6, <1>7, <1>8
<1> QED
  BY <1>1, <1>2, <1>9 DEF t

-----------------------------------------------------------------------------
(* The checksum.                                                           *)

Register == [1 .. ChecksumLength -> Word]

\* A function on the first n positions is a sequence.
LEMMA FunctionSeq ==
    ASSUME NEW n \in Nat, NEW S, NEW f \in [1 .. n -> S]
    PROVE  f \in Seq(S) /\ Len(f) = n
OBVIOUS

\* A register is a sequence of six words.
LEMMA RegisterSeq ==
    ASSUME NEW x \in Register
    PROVE  x \in Seq(Word) /\ Len(x) = 6
<1> DEFINE n == 6
<1>1. n \in Nat /\ x \in [1 .. n -> Word]
  BY DEF Register, ChecksumLength
<1>2. n = 6
  OBVIOUS
<1> HIDE DEF n
<1> QED
  BY <1>1, <1>2, FunctionSeq

\* The words of a register move up and another one enters.
LEMMA MovedUp ==
    ASSUME NEW x \in Register, NEW v \in Word
    PROVE  /\ Append(Tail(x), v) \in Register
           /\ Append(Tail(x), v)[6] = v
           /\ \A i \in 1 .. 5 : Append(Tail(x), v)[i] = x[i + 1]
<1> DEFINE t == Tail(x)
           a == Append(t, v)
<1>1. x \in Seq(Word) /\ Len(x) = 6 /\ x # <<>>
  BY RegisterSeq
<1>2. t \in Seq(Word) /\ Len(t) = Len(x) - 1 /\ \A i \in 1 .. Len(t) : t[i] = x[i + 1]
  BY <1>1, HeadTailProperties
<1> HIDE DEF t
<1>3. /\ a \in Seq(Word) /\ Len(a) = Len(t) + 1
      /\ \A i \in 1 .. Len(t) : a[i] = t[i]
      /\ a[Len(t) + 1] = v
  BY <1>2, AppendProperties
<1> HIDE DEF a
<1>4. Len(t) = 5 /\ Len(a) = 6
  BY <1>1, <1>2, <1>3
<1>5. a \in [1 .. Len(a) -> Word]
  BY <1>3, LenProperties
<1>6. a \in Register
  BY <1>4, <1>5 DEF Register, ChecksumLength
<1> QED
  BY <1>2, <1>3, <1>4, <1>6 DEF a, t

\* A number of 30 bits is six words.
LEMMA WordsRegister == \A n \in Nat : Words(n) \in Register
<1> SUFFICES ASSUME NEW n \in Nat PROVE Words(n) \in Register
  OBVIOUS
<1>1. /\ (n \div 33554432) % 32 \in Word /\ (n \div 1048576) % 32 \in Word
      /\ (n \div 32768) % 32 \in Word /\ (n \div 1024) % 32 \in Word
      /\ (n \div 32) % 32 \in Word /\ n % 32 \in Word
  BY SMT DEF Word
<1> QED
  BY SMT, <1>1 DEF Words, Register, ChecksumLength

\* A sum of registers is a register.
LEMMA XorAllRegister ==
    ASSUME NEW x \in Register, NEW y \in Register
    PROVE  /\ XorAll(x, y) \in Register
           /\ \A i \in 1 .. 6 : XorAll(x, y)[i] = Xor[x[i]][y[i]]
<1>1. \A i \in 1 .. 6 : x[i] \in Word /\ y[i] \in Word
  BY DEF Register, ChecksumLength
<1>2. \A i \in 1 .. 6 : Xor[x[i]][y[i]] \in Word
  BY <1>1, XorBits
<1> QED
  BY <1>2 DEF XorAll, Register, ChecksumLength

\* What was added to a register is taken away by adding it again.
LEMMA XorAllUndone ==
    ASSUME NEW x \in Register, NEW y \in Register
    PROVE  XorAll(x, XorAll(x, y)) = y
<1> DEFINE z == XorAll(x, y)
           w == XorAll(x, z)
<1>1. z \in Register /\ \A i \in 1 .. 6 : z[i] = Xor[x[i]][y[i]]
  BY XorAllRegister
<1> HIDE DEF z
<1>2. w \in Register /\ \A i \in 1 .. 6 : w[i] = Xor[x[i]][z[i]]
  BY <1>1, XorAllRegister
<1> HIDE DEF w
<1>3. \A i \in 1 .. 6 : x[i] \in Word /\ y[i] \in Word
  BY DEF Register, ChecksumLength
<1>4. \A i \in 1 .. 6 : w[i] = y[i]
  BY <1>1, <1>2, <1>3, XorUndone
<1>5. w = y
  BY <1>2, <1>4 DEF Register, ChecksumLength
<1> QED
  BY <1>5 DEF w, z

\* What is XORed into the register is a register.
LEMMA GeneratorRegister == \A top \in Word : GeneratorSum[top] \in Register
<1>1. \A i \in 1 .. 5 : i = 1 \/ i = 2 \/ i = 3 \/ i = 4 \/ i = 5
  OBVIOUS
<1>2. /\ GENERATOR[1] \in Register /\ GENERATOR[2] \in Register /\ GENERATOR[3] \in Register
      /\ GENERATOR[4] \in Register /\ GENERATOR[5] \in Register
  <2>1. /\ GENERATOR[1] = Words(996825010) /\ GENERATOR[2] = Words(642813549)
        /\ GENERATOR[3] = Words(513874426) /\ GENERATOR[4] = Words(1027748829)
        /\ GENERATOR[5] = Words(705979059)
    BY SMT DEF GENERATOR
  <2>2. /\ 996825010 \in Nat /\ 642813549 \in Nat /\ 513874426 \in Nat /\ 1027748829 \in Nat
        /\ 705979059 \in Nat
    BY SMT
  <2> QED
    BY SMT, <2>1, <2>2, WordsRegister
<1>3. Words(0) \in Register
  BY WordsRegister
<1> SUFFICES ASSUME NEW top \in Word PROVE GeneratorSum[top] \in Register
  OBVIOUS
<1> DEFINE term(i) == IF Bits(top)[i] = 1 THEN GENERATOR[i] ELSE Words(0)
<1>4. /\ term(1) \in Register /\ term(2) \in Register /\ term(3) \in Register
      /\ term(4) \in Register /\ term(5) \in Register
  BY ONLY <1>2, <1>3
<1>5. GeneratorSum[top] =
        XorAll(term(1), XorAll(term(2), XorAll(term(3), XorAll(term(4), term(5)))))
  BY DEF GeneratorSum
<1> HIDE DEF term
<1> DEFINE r4 == XorAll(term(4), term(5))
           r3 == XorAll(term(3), r4)
           r2 == XorAll(term(2), r3)
           r1 == XorAll(term(1), r2)
<1>6. r4 \in Register
  BY <1>4, XorAllRegister
<1> HIDE DEF r4
<1>7. r3 \in Register
  BY <1>4, <1>6, XorAllRegister
<1> HIDE DEF r3
<1>8. r2 \in Register
  BY <1>4, <1>7, XorAllRegister
<1> HIDE DEF r2
<1>9. r1 \in Register
  BY <1>4, <1>8, XorAllRegister
<1> QED
  BY <1>5, <1>9 DEF r1, r2, r3, r4

\* One value more: the words move up, and the sum of the one that leaves is added.
LEMMA FeedWords ==
    ASSUME NEW chk \in Register, NEW v \in Word
    PROVE  /\ Feed[chk][v] \in Register
           /\ GeneratorSum[chk[1]] \in Register
           /\ \A i \in 1 .. 5 : Feed[chk][v][i] = Xor[chk[i + 1]][GeneratorSum[chk[1]][i]]
           /\ Feed[chk][v][6] = Xor[v][GeneratorSum[chk[1]][6]]
<1> DEFINE a == Append(Tail(chk), v)
           g == GeneratorSum[chk[1]]
<1>0. chk \in Seq(Word) /\ Len(chk) = 6
  BY RegisterSeq
<1>1. chk \in Seq(Word) /\ Head(chk) = chk[1] /\ chk[1] \in Word
  BY <1>0
<1>2. a \in Register /\ a[6] = v /\ \A i \in 1 .. 5 : a[i] = chk[i + 1]
  BY MovedUp
<1>3. g \in Register
  BY <1>1, GeneratorRegister
<1>4. Feed[chk][v] = XorAll(a, g)
  BY <1>1 DEF Feed
<1> HIDE DEF a, g
<1>5. XorAll(a, g) \in Register /\ \A i \in 1 .. 6 : XorAll(a, g)[i] = Xor[a[i]][g[i]]
  BY <1>2, <1>3, XorAllRegister
<1>6. \A i \in 1 .. 5 : XorAll(a, g)[i] = Xor[chk[i + 1]][g[i]]
  BY <1>2, <1>5
<1>7. XorAll(a, g)[6] = Xor[v][g[6]]
  BY <1>2, <1>5
<1> QED
  BY <1>3, <1>4, <1>5, <1>6, <1>7 DEF g

\* Registers that differ by d, whose highest word is 0, differ by the words of d
\* moved up and by v after v was fed to one and 0 to the other.
LEMMA FeedDiffers ==
    ASSUME NEW z \in Register, NEW d \in Register, NEW v \in Word, d[1] = 0
    PROVE  /\ Append(Tail(d), v) \in Register
           /\ Feed[XorAll(z, d)][v] = XorAll(Feed[z][0], Append(Tail(d), v))
<1> DEFINE s == XorAll(z, d)
           e == Append(Tail(d), v)
           g == GeneratorSum[z[1]]
<1>1. s \in Register /\ \A i \in 1 .. 6 : s[i] = Xor[z[i]][d[i]]
  BY XorAllRegister
<1> HIDE DEF s
<1>2. e \in Register /\ e[6] = v /\ \A i \in 1 .. 5 : e[i] = d[i + 1]
  BY MovedUp
<1> HIDE DEF e
<1>3. \A i \in 1 .. 6 : z[i] \in Word /\ d[i] \in Word /\ s[i] \in Word
  BY <1>1 DEF Register, ChecksumLength
<1>4. s[1] = z[1]
  BY <1>1, <1>3, XorZero
<1>5. 0 \in Word
  BY DEF Word
<1>6. /\ Feed[s][v] \in Register
      /\ \A i \in 1 .. 5 : Feed[s][v][i] = Xor[s[i + 1]][g[i]]
      /\ Feed[s][v][6] = Xor[v][g[6]]
  <2> DEFINE k == GeneratorSum[s[1]]
  <2>1. /\ Feed[s][v] \in Register
        /\ \A i \in 1 .. 5 : Feed[s][v][i] = Xor[s[i + 1]][k[i]]
        /\ Feed[s][v][6] = Xor[v][k[6]]
    BY <1>1, FeedWords
  <2>2. k = g
    BY <1>4
  <2> HIDE DEF k, g
  <2> QED
    BY <2>1, <2>2
<1>7. /\ Feed[z][0] \in Register /\ g \in Register
      /\ \A i \in 1 .. 5 : Feed[z][0][i] = Xor[z[i + 1]][g[i]]
      /\ Feed[z][0][6] = Xor[0][g[6]]
  BY <1>5, FeedWords
<1> HIDE DEF g
<1>8. \A i \in 1 .. 6 : g[i] \in Word
  BY <1>7 DEF Register, ChecksumLength
<1> DEFINE p == Feed[s][v]
           q == XorAll(Feed[z][0], e)
<1>9. q \in Register /\ \A i \in 1 .. 6 : q[i] = Xor[Feed[z][0][i]][e[i]]
  BY <1>2, <1>7, XorAllRegister
<1>10. ASSUME NEW i \in 1 .. 5 PROVE p[i] = q[i]
  <2>1. i + 1 \in 1 .. 6 /\ i \in 1 .. 6
    OBVIOUS
  <2>2. p[i] = Xor[Xor[z[i + 1]][d[i + 1]]][g[i]]
    BY <1>1, <1>6, <2>1
  <2>3. q[i] = Xor[Xor[z[i + 1]][g[i]]][d[i + 1]]
    BY <1>2, <1>7, <1>9, <2>1
  <2>4. z[i + 1] \in Word /\ d[i + 1] \in Word /\ g[i] \in Word
    BY <1>3, <1>8, <2>1
  <2> HIDE DEF p, q
  <2> QED
    BY <2>2, <2>3, <2>4, XorSwap
<1>11. p[6] = q[6]
  <2>1. p[6] = Xor[Xor[0][v]][g[6]]
    BY <1>6, XorZero
  <2>2. q[6] = Xor[Xor[0][g[6]]][v]
    BY <1>2, <1>7, <1>9
  <2>3. g[6] \in Word
    BY <1>8
  <2> HIDE DEF p, q
  <2> QED
    BY <1>5, <2>1, <2>2, <2>3, XorSwap
<1>12. \A i \in 1 .. 6 : p[i] = q[i]
  <2>1. \A i \in 1 .. 6 : i \in 1 .. 5 \/ i = 6
    OBVIOUS
  <2> HIDE DEF p, q
  <2> QED
    BY <1>10, <1>11, <2>1
<1>13. p \in Register /\ q \in Register
  BY <1>6, <1>9
<1> HIDE DEF p, q
<1>14. p = q
  BY <1>12, <1>13 DEF Register, ChecksumLength
<1> QED
  BY <1>2, <1>14 DEF p, q, s, e

\* The polymod is a loop whose states are registers.
LEMMA PolymodLoop ==
    /\ \A s : Polymod(s) = Fold(Feed, Words(1), s)
    /\ Steps(Feed, Register, Word)
    /\ Words(1) \in Register
<1>1. \A s : Polymod(s) = Fold(Feed, Words(1), s)
  BY DEF Polymod, Fold
<1>2. Steps(Feed, Register, Word)
  BY FeedWords DEF Steps
<1>3. Words(1) \in Register
  BY WordsRegister
<1> QED
  BY <1>1, <1>2, <1>3

\* The polymod of one value more.
LEMMA PolymodAppend ==
    ASSUME NEW s \in Seq(Word), NEW v \in Word
    PROVE  Polymod(s) \in Register /\ Polymod(Append(s, v)) = Feed[Polymod(s)][v]
<1> DEFINE base == Words(1)
<1>1. /\ \A t : Polymod(t) = Fold(Feed, base, t)
      /\ Loop(Feed, base, Register, Word, s, v)
  BY PolymodLoop, Zenon DEF Loop
<1> HIDE DEF base
<1>2. /\ Fold(Feed, base, s) \in Register
      /\ Fold(Feed, base, Append(s, v)) = Feed[Fold(Feed, base, s)][v]
  BY <1>1, LoopAppend
<1> QED
  BY <1>1, <1>2, Zenon

\* The registers of x and y differ by d.
Apart(x, y, d) ==
    /\ x \in Seq(Word) /\ y \in Seq(Word) /\ d \in Register
    /\ Polymod(x) = XorAll(Polymod(y), d)

\* One value more, and 0 for the same value.
LEMMA OneMoreFed ==
    ASSUME NEW x, NEW y, NEW d, NEW v, v \in Word, d[1] = 0, Apart(x, y, d)
    PROVE  Apart(Append(x, v), Append(y, 0), Append(Tail(d), v))
<1>0. /\ x \in Seq(Word) /\ y \in Seq(Word) /\ d \in Register
      /\ Polymod(x) = XorAll(Polymod(y), d)
  BY DEF Apart
<1>1. 0 \in Word
  BY DEF Word
<1>2. Polymod(Append(x, v)) = Feed[Polymod(x)][v]
  BY <1>0, PolymodAppend
<1>3. Polymod(y) \in Register /\ Polymod(Append(y, 0)) = Feed[Polymod(y)][0]
  BY <1>0, <1>1, PolymodAppend
<1>4. /\ Append(Tail(d), v) \in Register
      /\ Feed[XorAll(Polymod(y), d)][v] = XorAll(Feed[Polymod(y)][0], Append(Tail(d), v))
  BY <1>0, <1>3, FeedDiffers
<1>5. Append(x, v) \in Seq(Word) /\ Append(y, 0) \in Seq(Word)
  BY <1>0, <1>1
<1>6. Polymod(Append(x, v)) = XorAll(Polymod(Append(y, 0)), Append(Tail(d), v))
  BY <1>0, <1>2, <1>3, <1>4
<1> QED
  BY <1>4, <1>5, <1>6 DEF Apart

\* Six words moved up by one.
LEMMA MovedTuple ==
    ASSUME NEW a1 \in Word, NEW a2 \in Word, NEW a3 \in Word, NEW a4 \in Word, NEW a5 \in Word,
           NEW a6 \in Word, NEW b \in Word
    PROVE  Append(Tail(<<a1, a2, a3, a4, a5, a6>>), b) = <<a2, a3, a4, a5, a6, b>>
<1> DEFINE x == <<a1, a2, a3, a4, a5, a6>>
           y == Append(Tail(x), b)
<1>1. /\ x \in Register
      /\ x[2] = a2 /\ x[3] = a3 /\ x[4] = a4 /\ x[5] = a5 /\ x[6] = a6
  BY DEF Register, ChecksumLength
<1> HIDE DEF x
<1>2. y \in Register /\ y[6] = b /\ \A i \in 1 .. 5 : y[i] = x[i + 1]
  BY <1>1, MovedUp
<1> HIDE DEF y
<1>3. y[1] = a2 /\ y[2] = a3 /\ y[3] = a4 /\ y[4] = a5 /\ y[5] = a6
  BY <1>1, <1>2
<1>4. y = <<y[1], y[2], y[3], y[4], y[5], y[6]>>
  BY <1>2 DEF Register, ChecksumLength
<1> QED
  BY <1>2, <1>3, <1>4 DEF x, y

\* Six values in the place of six zeros show in the register as they are.
LEMMA SixFed ==
    ASSUME NEW x \in Seq(Word), NEW c \in Register
    PROVE  Polymod(x \o c) = XorAll(Polymod(x \o Words(0)), c)
<1> DEFINE c1 == c[1]
           c2 == c[2]
           c3 == c[3]
           c4 == c[4]
           c5 == c[5]
           c6 == c[6]
<1>1. /\ c1 \in Word /\ c2 \in Word /\ c3 \in Word /\ c4 \in Word /\ c5 \in Word /\ c6 \in Word
      /\ c = <<c1, c2, c3, c4, c5, c6>>
  BY RegisterSeq DEF Register, ChecksumLength
<1> HIDE DEF c1, c2, c3, c4, c5, c6
<1>2. 0 \in Word
  BY DEF Word
<1> DEFINE x1 == Append(x, c1)
           x2 == Append(x1, c2)
           x3 == Append(x2, c3)
           x4 == Append(x3, c4)
           x5 == Append(x4, c5)
           x6 == Append(x5, c6)
           y1 == Append(x, 0)
           y2 == Append(y1, 0)
           y3 == Append(y2, 0)
           y4 == Append(y3, 0)
           y5 == Append(y4, 0)
           y6 == Append(y5, 0)
<1>3. x6 = x \o c
  BY <1>1, SMTT(40)
<1>4. Words(0) = <<0, 0, 0, 0, 0, 0>>
  BY SMT DEF Words
<1>5. y6 = x \o Words(0)
  <2> DEFINE z == <<0, 0, 0, 0, 0, 0>>
  <2>1. y6 = x \o z
    BY <1>2, SMTT(40)
  <2> HIDE DEF y6
  <2> QED
    BY <1>4, <2>1
<1> DEFINE d0 == <<0, 0, 0, 0, 0, 0>>
           d1 == <<0, 0, 0, 0, 0, c1>>
           d2 == <<0, 0, 0, 0, c1, c2>>
           d3 == <<0, 0, 0, c1, c2, c3>>
           d4 == <<0, 0, c1, c2, c3, c4>>
           d5 == <<0, c1, c2, c3, c4, c5>>
           d6 == <<c1, c2, c3, c4, c5, c6>>
<1>11. /\ Append(Tail(d0), c1) = d1 /\ Append(Tail(d1), c2) = d2 /\ Append(Tail(d2), c3) = d3
       /\ Append(Tail(d3), c4) = d4 /\ Append(Tail(d4), c5) = d5 /\ Append(Tail(d5), c6) = d6
  BY <1>1, <1>2, MovedTuple, SMTT(40)
<1>12. /\ d0[1] = 0 /\ d1[1] = 0 /\ d2[1] = 0 /\ d3[1] = 0 /\ d4[1] = 0 /\ d5[1] = 0
       /\ d0 \in Register /\ d1 \in Register /\ d2 \in Register
       /\ d3 \in Register /\ d4 \in Register /\ d5 \in Register
  BY <1>1, <1>2 DEF Register, ChecksumLength
<1>13. d6 = c
  BY <1>1
<1>14. Polymod(x) = XorAll(Polymod(x), d0)
  <2> DEFINE p == Polymod(x)
             q == XorAll(p, d0)
  <2>1. p \in Register
    BY <1>2, PolymodAppend
  <2> HIDE DEF p
  <2>2. q \in Register /\ \A i \in 1 .. 6 : q[i] = Xor[p[i]][d0[i]]
    BY <1>12, <2>1, XorAllRegister
  <2>3. \A i \in 1 .. 6 : d0[i] = 0 /\ p[i] \in Word
    BY <2>1 DEF Register, ChecksumLength
  <2> HIDE DEF q
  <2>4. \A i \in 1 .. 6 : q[i] = p[i]
    BY <2>2, <2>3, XorZero
  <2>5. p = q
    BY <2>1, <2>2, <2>4 DEF Register, ChecksumLength
  <2> QED
    BY <2>5 DEF p, q
<1> HIDE DEF d0, d1, d2, d3, d4, d5, d6
<1>15. Apart(x, x, d0)
  BY <1>12, <1>14 DEF Apart
<1>16. Apart(x1, y1, d1)
  BY <1>1, <1>11, <1>12, <1>15, OneMoreFed
<1> HIDE DEF x1, y1
<1>17. Apart(x2, y2, d2)
  BY <1>1, <1>11, <1>12, <1>16, OneMoreFed
<1> HIDE DEF x2, y2
<1>18. Apart(x3, y3, d3)
  BY <1>1, <1>11, <1>12, <1>17, OneMoreFed
<1> HIDE DEF x3, y3
<1>19. Apart(x4, y4, d4)
  BY <1>1, <1>11, <1>12, <1>18, OneMoreFed
<1> HIDE DEF x4, y4
<1>20. Apart(x5, y5, d5)
  BY <1>1, <1>11, <1>12, <1>19, OneMoreFed
<1> HIDE DEF x5, y5
<1>21. Apart(x6, y6, d6)
  BY <1>1, <1>11, <1>12, <1>20, OneMoreFed
<1> QED
  BY <1>3, <1>5, <1>13, <1>21 DEF Apart

Character == 33 .. 126

\* The expansion of a prefix consists of words.
LEMMA HrpExpandWords ==
    ASSUME NEW hrp \in Seq(Character)
    PROVE  HrpExpand(hrp) \in Seq(Word)
<1> DEFINE high == [i \in DOMAIN hrp |-> hrp[i] \div 32]
           low == [i \in DOMAIN hrp |-> hrp[i] % 32]
<1>1. DOMAIN hrp = 1 .. Len(hrp) /\ Len(hrp) \in Nat
  OBVIOUS
<1>2. \A i \in 1 .. Len(hrp) : hrp[i] \div 32 \in Word /\ hrp[i] % 32 \in Word
  <2> SUFFICES ASSUME NEW i \in 1 .. Len(hrp)
               PROVE  hrp[i] \div 32 \in Word /\ hrp[i] % 32 \in Word
    OBVIOUS
  <2> DEFINE n == hrp[i]
  <2>1. n \in Character
    BY <1>1
  <2> HIDE DEF n
  <2>2. n \in 33 .. 126
    BY <2>1 DEF Character
  <2>3. n \div 32 \in 0 .. 31 /\ n % 32 \in 0 .. 31
    BY <2>2
  <2> QED
    BY <2>3 DEF n, Word
<1>3. high \in [1 .. Len(hrp) -> Word] /\ low \in [1 .. Len(hrp) -> Word]
  BY <1>1, <1>2
<1> HIDE DEF high, low
<1>4. high \in Seq(Word) /\ low \in Seq(Word)
  BY <1>1, <1>3, FunctionSeq
<1>5. <<0>> \in Seq(Word)
  BY DEF Word
<1>6. high \o <<0>> \o low \in Seq(Word)
  BY <1>4, <1>5
<1> QED
  BY <1>6 DEF HrpExpand, high, low

\* Six words, and no other six, make the text valid: those of CreateChecksum.
LEMMA OneChecksum ==
    ASSUME NEW hrp \in Seq(Character), NEW data \in Seq(Word), NEW c \in Register
    PROVE  /\ CreateChecksum(hrp, data) \in Register
           /\ VerifyChecksum(hrp, data \o c) <=> c = CreateChecksum(hrp, data)
<1> DEFINE h == HrpExpand(hrp)
           s == h \o data
           p == Polymod(s \o Words(0))
           k == BECH32M_CONST
<1>1. h \in Seq(Word)
  BY HrpExpandWords
<1>2. k \in Register
  BY WordsRegister, SMT DEF BECH32M_CONST
<1>3. Words(0) \in Register /\ Words(0) \in Seq(Word)
  BY WordsRegister, RegisterSeq
<1> HIDE DEF h, k
<1>4. s \in Seq(Word)
  BY <1>1
<1>5. p \in Register
  <2>1. s \o Words(0) \in Seq(Word)
    BY <1>3, <1>4
  <2>2. 0 \in Word
    BY DEF Word
  <2> QED
    BY <2>1, <2>2, PolymodAppend
<1>6. CreateChecksum(hrp, data) = XorAll(p, k)
  BY Zenon DEF CreateChecksum, h, k
<1>7. h \o (data \o c) = s \o c
  <2>1. c \in Seq(Word)
    BY RegisterSeq
  <2> QED
    BY <1>1, <2>1
<1>8. VerifyChecksum(hrp, data \o c) <=> Polymod(s \o c) = k
  BY <1>7, Zenon DEF VerifyChecksum, h, k
<1>9. Polymod(s \o c) = XorAll(p, c)
  BY <1>4, SixFed
<1> HIDE DEF p, s
<1>10. /\ XorAll(p, k) \in Register
       /\ XorAll(p, XorAll(p, k)) = k
       /\ XorAll(p, XorAll(p, c)) = c
  BY <1>2, <1>5, XorAllRegister, XorAllUndone
<1> QED
  BY <1>6, <1>8, <1>9, <1>10

-----------------------------------------------------------------------------
(* Groups of bits.                                                         *)

\* The bits of an octet, behind those that are left of acc, in groups of five.
AccumulatesOctet(acc, v, a) == acc \in Nat /\ v \in 0 .. 255 /\ a = (acc * 256 + v) % 4096
OctetEnters(acc, v, a) ==
    /\ a \in 0 .. 4095
    /\ 256 * (acc % 1) + v = 8 * ((a \div 8) % 32) + (a % 8)
    /\ 256 * (acc % 2) + v = 16 * ((a \div 16) % 32) + (a % 16)
    /\ 256 * (acc % 4) + v = 32 * ((a \div 32) % 32) + ((a \div 1) % 32) + (a % 1)
    /\ 256 * (acc % 8) + v = 64 * ((a \div 64) % 32) + 2 * ((a \div 2) % 32) + (a % 2)
    /\ 256 * (acc % 16) + v = 128 * ((a \div 128) % 32) + 4 * ((a \div 4) % 32) + (a % 4)

\* An octet that enters leaves as many groups of five as there are bits for.
LEMMA NarrowArith ==
    ASSUME NEW acc, NEW v, NEW a, AccumulatesOctet(acc, v, a)
    PROVE  OctetEnters(acc, v, a)
<1>a. acc \in Nat /\ v \in 0 .. 255 /\ a = (acc * 256 + v) % 4096
  BY DEF AccumulatesOctet
<1>0. a \in 0 .. 4095
  BY <1>a
<1>1. 256 * (acc % 1) + v = 8 * ((a \div 8) % 32) + (a % 8)
  BY <1>a
<1>2. 256 * (acc % 2) + v = 16 * ((a \div 16) % 32) + (a % 16)
  BY <1>a
<1>3. 256 * (acc % 4) + v = 32 * ((a \div 32) % 32) + ((a \div 1) % 32) + (a % 1)
  BY <1>a
<1>4. 256 * (acc % 8) + v = 64 * ((a \div 64) % 32) + 2 * ((a \div 2) % 32) + (a % 2)
  BY <1>a, SMTT(40)
<1>5. 256 * (acc % 16) + v = 128 * ((a \div 128) % 32) + 4 * ((a \div 4) % 32) + (a % 4)
  BY <1>a, SMTT(60)
<1> QED
  BY <1>0, <1>1, <1>2, <1>3, <1>4, <1>5 DEF OctetEnters

\* The bits of a word, behind those that are left of acc, in groups of eight.
AccumulatesWord(acc, v, a) == acc \in Nat /\ v \in 0 .. 31 /\ a = (acc * 32 + v) % 4096
WordEnters(acc, v, a) ==
    /\ a \in 0 .. 4095
    /\ 32 * (acc % 1) + v = a % 32
    /\ 32 * (acc % 2) + v = a % 64
    /\ 32 * (acc % 4) + v = a % 128
    /\ 32 * (acc % 8) + v = ((a \div 1) % 256) + (a % 1)
    /\ 32 * (acc % 16) + v = 2 * ((a \div 2) % 256) + (a % 2)
    /\ 32 * (acc % 32) + v = 4 * ((a \div 4) % 256) + (a % 4)
    /\ 32 * (acc % 64) + v = 8 * ((a \div 8) % 256) + (a % 8)
    /\ 32 * (acc % 128) + v = 16 * ((a \div 16) % 256) + (a % 16)

\* A word that enters leaves a group of eight, or none.
LEMMA WidenArith ==
    ASSUME NEW acc, NEW v, NEW a, AccumulatesWord(acc, v, a)
    PROVE  WordEnters(acc, v, a)
<1>a. acc \in Nat /\ v \in 0 .. 31 /\ a = (acc * 32 + v) % 4096
  BY DEF AccumulatesWord
<1>0. a \in 0 .. 4095
  BY <1>a
<1>1. 32 * (acc % 1) + v = a % 32
  BY <1>a
<1>2. 32 * (acc % 2) + v = a % 64
  BY <1>a
<1>3. 32 * (acc % 4) + v = a % 128
  BY <1>a
<1>4. 32 * (acc % 8) + v = ((a \div 1) % 256) + (a % 1)
  BY <1>a
<1>5. 32 * (acc % 16) + v = 2 * ((a \div 2) % 256) + (a % 2)
  BY <1>a
<1>6. 32 * (acc % 32) + v = 4 * ((a \div 4) % 256) + (a % 4)
  BY <1>a, SMTT(60)
<1>7. 32 * (acc % 64) + v = 8 * ((a \div 8) % 256) + (a % 8)
  BY <1>a
<1>8. 32 * (acc % 128) + v = 16 * ((a \div 16) % 256) + (a % 16)
  BY <1>a
<1> QED
  BY <1>0, <1>1, <1>2, <1>3, <1>4, <1>5, <1>6, <1>7, <1>8 DEF WordEnters

Bases == {32, 256}

\* The number whose digits to the base B are those of s.
Digits(B) == [n \in Nat |-> [d \in Nat |-> B * n + d]]
Value(B, s) == Fold(Digits(B), 0, s)

\* A digit more.
LEMMA ValueAppend ==
    ASSUME NEW B \in Bases, NEW s \in Seq(Nat), NEW d \in Nat
    PROVE  /\ Value(B, s) \in Nat
           /\ Value(B, Append(s, d)) = B * Value(B, s) + d
<1>1. \A n \in Nat, e \in Nat : Digits(B)[n][e] = B * n + e
  BY Zenon DEF Digits
<1>2. \A n \in Nat, e \in Nat : B * n + e \in Nat
  <2>1. CASE B = 32
    BY ONLY <2>1
  <2>2. CASE B = 256
    BY ONLY <2>2
  <2> QED
    BY <2>1, <2>2 DEF Bases
<1>3. \A n \in Nat, e \in Nat : Digits(B)[n][e] \in Nat
  <2> SUFFICES ASSUME NEW n \in Nat, NEW e \in Nat PROVE Digits(B)[n][e] \in Nat
    OBVIOUS
  <2> DEFINE f == Digits(B)[n][e]
             g == B * n + e
  <2>1. f = g
    BY <1>1, Zenon
  <2>2. g \in Nat
    BY <1>2
  <2> HIDE DEF f, g
  <2> QED
    BY <2>1, <2>2 DEF f
<1>4. Steps(Digits(B), Nat, Nat)
  BY ONLY <1>3, Zenon DEF Steps
<1>5. Loop(Digits(B), 0, Nat, Nat, s, d)
  BY <1>4 DEF Loop
<1> DEFINE m == Fold(Digits(B), 0, s)
<1>6. m \in Nat /\ Fold(Digits(B), 0, Append(s, d)) = Digits(B)[m][d]
  BY <1>5, LoopAppend
<1> HIDE DEF m
<1>7. Digits(B)[m][d] = B * m + d
  BY <1>1, <1>6
<1>8. Value(B, s) = m /\ Value(B, Append(s, d)) = Fold(Digits(B), 0, Append(s, d))
  BY Zenon DEF Value, m
<1> QED
  BY ONLY <1>6, <1>7, <1>8, Zenon

\* Digits are what the number determines.
LEMMA SameValue ==
    ASSUME NEW B \in Bases, NEW s \in Seq(0 .. (B - 1)), NEW t \in Seq(0 .. (B - 1)),
           Len(s) = Len(t), Value(B, s) = Value(B, t)
    PROVE  s = t
<1> DEFINE D == 0 .. (B - 1)
           n == Len(s)
           K == {k \in 0 .. n : \A x, y \in Seq(D) :
                    Len(x) = k /\ Len(y) = k /\ Value(B, x) = Value(B, y) => x = y}
<1>1. 0 \in K
  OBVIOUS
<1>2. ASSUME NEW k \in 0 .. n, k \in K, k < n PROVE k + 1 \in K
  <2> SUFFICES ASSUME NEW x \in Seq(D), NEW y \in Seq(D), Len(x) = k + 1, Len(y) = k + 1,
                      Value(B, x) = Value(B, y)
               PROVE  x = y
    BY <1>2
  <2>1. x # <<>> /\ y # <<>>
    OBVIOUS
  <2>2a. PICK p \in Seq(D), d \in D : x = Append(p, d)
    BY <2>1, SequenceEmptyOrAppend, Zenon
  <2>2b. PICK q \in Seq(D), e \in D : y = Append(q, e)
    BY <2>1, SequenceEmptyOrAppend, Zenon
  <2>2. Len(p) = k /\ Len(q) = k
    BY <2>2a, <2>2b
  <2>3. D \subseteq Nat /\ \A z \in D : z < B
    BY DEF Bases
  <2> HIDE DEF D
  <2>4. d \in Nat /\ e \in Nat /\ p \in Seq(Nat) /\ q \in Seq(Nat) /\ d < B /\ e < B
    BY <2>3, SeqMonotonic
  <2>5. Value(B, p) \in Nat /\ Value(B, x) = B * Value(B, p) + d
    BY <2>2a, <2>4, ValueAppend, Zenon
  <2>6a. Value(B, q) \in Nat /\ Value(B, y) = B * Value(B, q) + e
    BY <2>2b, <2>4, ValueAppend, Zenon
  <2> DEFINE m == Value(B, p)
             l == Value(B, q)
  <2>6b. m \in Nat /\ l \in Nat /\ B * m + d = B * l + e
    BY <2>5, <2>6a, Zenon
  <2> HIDE DEF m, l
  <2>6. m = l /\ d = e
    <3>1. CASE B = 32
      <4>1. 32 * m + d = 32 * l + e /\ d < 32 /\ e < 32
        BY <2>4, <2>6b, <3>1
      <4> QED
        BY <2>4, <2>6b, <4>1
    <3>2. CASE B = 256
      <4>1. 256 * m + d = 256 * l + e /\ d < 256 /\ e < 256
        BY <2>4, <2>6b, <3>2
      <4> QED
        BY <2>4, <2>6b, <4>1
    <3> QED
      BY <3>1, <3>2 DEF Bases
  <2>7. p = q
    BY <1>2, <2>2, <2>6 DEF m, l
  <2> QED
    BY <2>2a, <2>2b, <2>6, <2>7
<1>3. n \in Nat
  OBVIOUS
<1>4. n \in K
  <2> HIDE DEF K, n
  <2>1. \A k \in 0 .. n : k \in K
    BY <1>1, <1>2, <1>3, InductionUpTo
  <2> QED
    BY <1>3, <2>1
<1> QED
  BY <1>4

\* Two loops over the same sequence, and what each iteration keeps.
Locked(S, T, V, step, base, other, start, s, H) ==
    /\ Steps(step, S, V) /\ base \in S /\ Steps(other, T, V) /\ start \in T /\ s \in Seq(V)
    /\ <<base, start, 0>> \in H
    /\ \A a \in S, b \in T, i \in Nat, v \in V :
           <<a, b, i>> \in H => <<step[a][v], other[b][v], i + 1>> \in H

\* What each iteration keeps holds in the end.
LEMMA Lockstep ==
    ASSUME NEW S, NEW T, NEW V, NEW step, NEW base, NEW other, NEW start, NEW s, NEW H,
           Locked(S, T, V, step, base, other, start, s, H)
    PROVE  /\ Fold(step, base, s) \in S /\ Fold(other, start, s) \in T
           /\ <<Fold(step, base, s), Fold(other, start, s), Len(s)>> \in H
<1>0. /\ Steps(step, S, V) /\ base \in S /\ Steps(other, T, V) /\ start \in T /\ s \in Seq(V)
      /\ <<base, start, 0>> \in H
      /\ \A a \in S, b \in T, i \in Nat, v \in V :
             <<a, b, i>> \in H => <<step[a][v], other[b][v], i + 1>> \in H
  BY Zenon DEF Locked
<1>1a. PICK r : States(r, step, base, s, S) /\ Fold(step, base, s) = r[Len(s)]
  BY <1>0, FoldEquation
<1>2a. PICK q : States(q, other, start, s, T) /\ Fold(other, start, s) = q[Len(s)]
  BY <1>0, FoldEquation
<1> DEFINE n == Len(s)
           K == {i \in 0 .. n : <<r[i], q[i], i>> \in H}
<1>1. /\ r[0] = base /\ Fold(step, base, s) = r[n]
      /\ \A i \in 1 .. n : r[i] = step[r[i - 1]][s[i]]
      /\ \A i \in 0 .. n : r[i] \in S
  BY <1>1a DEF States
<1>2. /\ q[0] = start /\ Fold(other, start, s) = q[n]
      /\ \A i \in 1 .. n : q[i] = other[q[i - 1]][s[i]]
      /\ \A i \in 0 .. n : q[i] \in T
  BY <1>2a DEF States
<1>3. n \in Nat /\ \A i \in 1 .. n : s[i] \in V
  BY <1>0
<1> HIDE DEF n
<1>4. 0 \in K
  BY <1>0, <1>1, <1>2, <1>3
<1>5. ASSUME NEW k \in 0 .. n, k \in K, k < n PROVE k + 1 \in K
  <2>1. k + 1 \in 1 .. n /\ (k + 1) - 1 = k /\ k \in Nat /\ k + 1 \in 0 .. n
    BY <1>3, <1>5
  <2>2. r[k + 1] = step[r[k]][s[k + 1]] /\ q[k + 1] = other[q[k]][s[k + 1]]
    BY <1>1, <1>2, <2>1
  <2>3. r[k] \in S /\ q[k] \in T /\ s[k + 1] \in V /\ <<r[k], q[k], k>> \in H
    BY <1>1, <1>2, <1>3, <1>5, <2>1
  <2>4. <<step[r[k]][s[k + 1]], other[q[k]][s[k + 1]], k + 1>> \in H
    BY <1>0, <2>1, <2>3
  <2> QED
    BY <2>1, <2>2, <2>4
<1>6. n \in K
  <2> HIDE DEF K
  <2>1. \A k \in 0 .. n : k \in K
    BY <1>3, <1>4, <1>5, InductionUpTo
  <2> QED
    BY <1>3, <2>1
<1> QED
  BY <1>1, <1>2, <1>3, <1>6 DEF n

\* The powers of two.
LEMMA Shifts ==
    /\ Shift(0) = 1 /\ Shift(1) = 2 /\ Shift(2) = 4 /\ Shift(3) = 8 /\ Shift(4) = 16
    /\ Shift(5) = 32 /\ Shift(6) = 64 /\ Shift(7) = 128 /\ Shift(8) = 256 /\ Shift(12) = 4096
BY SMT DEF Shift

\* What is left of a number of which ret has been written in groups of B bits.
Remaining(state, B, n) ==
    n = Value(B, state.ret) * Shift(state.bits) + (state.acc % Shift(state.bits))

Accumulator == 0 .. 4095
NarrowBits == 0 .. 4
WideBits == 0 .. 7
Narrow == [acc : Accumulator, bits : NarrowBits, ret : Seq(Word)]
Wide == [acc : Accumulator, bits : WideBits, ret : Seq(Octet)]

\* Words and octets are numbers.
LEMMA GroupsAreNumbers ==
    /\ Word \subseteq Nat /\ Octet \subseteq Nat
    /\ \A s : s \in Seq(Word) \/ s \in Seq(Octet) => s \in Seq(Nat)
<1>1. Word \subseteq Nat /\ Octet \subseteq Nat
  BY DEF Word, Octet
<1>2. \A s \in Seq(Word) : s \in Seq(Nat)
  BY <1>1, SeqMonotonic
<1>3. \A s \in Seq(Octet) : s \in Seq(Nat)
  BY <1>1, SeqMonotonic
<1> QED
  BY <1>1, <1>2, <1>3

\* One word more.
LEMMA WordGroup ==
    ASSUME NEW ret \in Seq(Word), NEW g \in Word
    PROVE  /\ ret \o <<g>> \in Seq(Word)
           /\ Len(ret \o <<g>>) = Len(ret) + 1
           /\ Value(32, ret) \in Nat
           /\ Value(32, ret \o <<g>>) = 32 * Value(32, ret) + g
<1>1. g \in Nat /\ ret \in Seq(Nat)
  BY GroupsAreNumbers
<1>2. ret \o <<g>> = Append(ret, g)
  BY AppendIsConcat
<1>3. Append(ret, g) \in Seq(Word) /\ Len(Append(ret, g)) = Len(ret) + 1
  BY AppendProperties
<1> DEFINE B == 32
<1>4. B \in Bases
  BY DEF Bases
<1> HIDE DEF B
<1>5. Value(B, ret) \in Nat /\ Value(B, Append(ret, g)) = B * Value(B, ret) + g
  BY <1>1, <1>4, ValueAppend
<1> QED
  BY <1>2, <1>3, <1>5 DEF B

\* One octet more.
LEMMA OctetGroup ==
    ASSUME NEW ret \in Seq(Octet), NEW g \in Octet
    PROVE  /\ ret \o <<g>> \in Seq(Octet)
           /\ Len(ret \o <<g>>) = Len(ret) + 1
           /\ Value(256, ret) \in Nat
           /\ Value(256, ret \o <<g>>) = 256 * Value(256, ret) + g
<1>1. g \in Nat /\ ret \in Seq(Nat)
  BY GroupsAreNumbers
<1>2. ret \o <<g>> = Append(ret, g)
  BY AppendIsConcat
<1>3. Append(ret, g) \in Seq(Octet) /\ Len(Append(ret, g)) = Len(ret) + 1
  BY AppendProperties
<1> DEFINE B == 256
<1>4. B \in Bases
  BY DEF Bases
<1> HIDE DEF B
<1>5. Value(B, ret) \in Nat /\ Value(B, Append(ret, g)) = B * Value(B, ret) + g
  BY <1>1, <1>4, ValueAppend
<1> QED
  BY <1>2, <1>3, <1>5 DEF B

\* The fields of a state.
LEMMA StateFields ==
    /\ \A state \in Narrow :
           /\ state \in Regrouping
           /\ state.acc \in Accumulator /\ state.bits \in NarrowBits /\ state.ret \in Seq(Word)
    /\ \A state \in Wide :
           /\ state \in Regrouping
           /\ state.acc \in Accumulator /\ state.bits \in WideBits /\ state.ret \in Seq(Octet)
<1>1. Accumulator \subseteq Nat /\ NarrowBits \subseteq Nat /\ WideBits \subseteq Nat
  BY DEF Accumulator, NarrowBits, WideBits
<1>2. ASSUME NEW state \in Narrow
      PROVE  /\ state \in Regrouping
             /\ state.acc \in Accumulator /\ state.bits \in NarrowBits /\ state.ret \in Seq(Word)
  <2>1. /\ state.acc \in Accumulator /\ state.bits \in NarrowBits /\ state.ret \in Seq(Word)
        /\ state = [acc |-> state.acc, bits |-> state.bits, ret |-> state.ret]
    BY DEF Narrow
  <2>2. state.acc \in Nat /\ state.bits \in Nat /\ state.ret \in Seq(Nat)
    BY <1>1, <2>1, GroupsAreNumbers
  <2>3. state \in Regrouping
    BY <2>1, <2>2 DEF Regrouping
  <2> QED
    BY <2>1, <2>3
<1>3. ASSUME NEW state \in Wide
      PROVE  /\ state \in Regrouping
             /\ state.acc \in Accumulator /\ state.bits \in WideBits /\ state.ret \in Seq(Octet)
  <2>1. /\ state.acc \in Accumulator /\ state.bits \in WideBits /\ state.ret \in Seq(Octet)
        /\ state = [acc |-> state.acc, bits |-> state.bits, ret |-> state.ret]
    BY DEF Wide
  <2>2. state.acc \in Nat /\ state.bits \in Nat /\ state.ret \in Seq(Nat)
    BY <1>1, <2>1, GroupsAreNumbers
  <2>3. state \in Regrouping
    BY <2>1, <2>2 DEF Regrouping
  <2> QED
    BY <2>1, <2>3
<1> QED
  BY <1>2, <1>3

\* A sequence of one or two.
LEMMA ShortFunctions ==
    ASSUME NEW f
    PROVE  /\ f = [k \in 1 .. 1 |-> f[k]] => f = <<f[1]>>
           /\ f = [k \in 1 .. 2 |-> f[k]] => f = <<f[1], f[2]>>
OBVIOUS

\* Two elements more, one after the other.
LEMMA TwoMore ==
    ASSUME NEW S, NEW s \in Seq(S), NEW g \in S, NEW h \in S
    PROVE  s \o <<g, h>> = (s \o <<g>>) \o <<h>>
<1> DEFINE p == <<g>>
           q == <<h>>
<1>1. p \in Seq(S) /\ q \in Seq(S)
  OBVIOUS
<1>2. p \o q = <<g, h>>
  <2> DEFINE z == p \o q
  <2>1. Len(p) = 1 /\ p[1] = g /\ Len(q) = 1 /\ q[1] = h
    OBVIOUS
  <2> HIDE DEF p, q
  <2>2. /\ z \in Seq(S) /\ Len(z) = 2
        /\ \A i \in 1 .. 2 : z[i] = IF i <= 1 THEN p[i] ELSE q[i - 1]
    BY <1>1, <2>1, ConcatProperties
  <2> HIDE DEF z
  <2>3. z[1] = g /\ z[2] = h
    BY <2>1, <2>2
  <2>4. z = [k \in 1 .. 2 |-> z[k]]
    BY <2>2
  <2> QED
    BY <2>3, <2>4, ShortFunctions DEF z
<1> HIDE DEF p, q
<1>3. (s \o p) \o q = s \o (p \o q)
  BY <1>1, ConcatAssociative
<1> QED
  BY <1>2, <1>3 DEF p, q

\* An octet in groups of five bits.
LEMMA NarrowStep ==
    ASSUME NEW state \in Narrow, NEW n \in Nat, NEW v \in Octet,
           Remaining(state, 32, n)
    PROVE  LET next == Accumulate(8, 5)[state][v]
           IN  /\ next \in Narrow
               /\ 5 * Len(next.ret) + next.bits = 5 * Len(state.ret) + state.bits + 8
               /\ Remaining(next, 32, 256 * n + v)
<1> DEFINE acc == state.acc
           bits == state.bits
           ret == state.ret
           next == Accumulate(8, 5)[state][v]
           a == (acc * Shift(8) + v) % Shift(8 + 5 - 1)
           b == bits + 8
           out == [k \in 1 .. b \div 5 |-> (a \div Shift(b - k * 5)) % Shift(5)]
           m == Value(32, ret)
           len == Len(ret)
<1>1. /\ state \in Regrouping /\ v \in Nat /\ v \in 0 .. 255
      /\ acc \in 0 .. 4095 /\ bits \in 0 .. 4 /\ ret \in Seq(Word)
  <2>1. v \in Nat /\ v \in 0 .. 255
    BY DEF Octet
  <2>2. state \in Regrouping /\ acc \in Accumulator /\ bits \in NarrowBits /\ ret \in Seq(Word)
    BY StateFields
  <2> HIDE DEF acc, bits, ret
  <2>3. acc \in 0 .. 4095 /\ bits \in 0 .. 4
    BY <2>2 DEF Accumulator, NarrowBits
  <2> QED
    BY ONLY <2>1, <2>2, <2>3
<1>2. next = [acc |-> a, bits |-> b % 5, ret |-> ret \o out]
  BY <1>1 DEF Accumulate
<1>3. a = (acc * 256 + v) % 4096
  BY SMT, Shifts
<1>4. n = m * Shift(bits) + (acc % Shift(bits))
  BY DEF Remaining
<1> HIDE DEF acc, bits, ret, next, a
<1>5. m \in Nat
  <2>1. ret \in Seq(Nat)
    BY <1>1, GroupsAreNumbers
  <2>2. 0 \in Nat /\ 32 \in Bases
    BY DEF Bases
  <2> QED
    BY <2>1, <2>2, ValueAppend
<1>6. len \in Nat
  BY <1>1
<1>7. OctetEnters(acc, v, a)
  <2>1. acc \in Nat
    BY <1>1
  <2>2. AccumulatesOctet(acc, v, a)
    BY <1>1, <1>3, <2>1 DEF AccumulatesOctet
  <2> QED
    BY <2>2, NarrowArith
<1>8. a \in 0 .. 4095
  BY <1>7 DEF OctetEnters
<1> HIDE DEF m, len

<1>9. CASE bits = 0
  <2> DEFINE g1 == (a \div 8) % 32
             r1 == ret \o <<g1>>
             x == acc % 1
             y == a % 8
  <2>1. b = 8 /\ b % 5 = 3 /\ b \div 5 = 1 /\ Shift(bits) = 1
    BY <1>9, Shifts
  <2>2. g1 \in Word /\ x \in Nat /\ y \in Nat
    BY <1>1, <1>8 DEF Word
  <2>3. n = m * 1 + x
    BY <1>4, <2>1
  <2>4. 256 * x + v = 8 * g1 + y
    BY <1>7, <1>8 DEF OctetEnters
  <2>5. (a \div Shift(8 - 1 * 5)) % Shift(5) = g1
    BY Shifts
  <2> HIDE DEF g1
  <2>6. out = <<g1>>
    <3>1. out = [j \in 1 .. 1 |-> (a \div Shift(8 - j * 5)) % Shift(5)]
      BY <2>1
    <3> HIDE DEF out
    <3>2. out = [j \in 1 .. 1 |-> out[j]]
      BY <3>1
    <3>3. out[1] = g1
      BY <2>5, <3>1
    <3> QED
      BY <3>2, <3>3, ShortFunctions
  <2>7. r1 \in Seq(Word) /\ Len(r1) = len + 1 /\ Value(32, r1) = 32 * m + g1
    BY <1>1, <2>2, WordGroup DEF len, m
  <2>8. ret \o out = r1
    BY <2>6
  <2> HIDE DEF r1, out, b
  <2>10. next = [acc |-> a, bits |-> 3, ret |-> r1]
    BY <1>2, <2>1, <2>8
  <2>11. next.acc = a /\ next.bits = 3 /\ next.ret = r1 /\ next \in Narrow
    BY <1>8, <2>7, <2>10 DEF Narrow, Accumulator, NarrowBits
  <2>12. 5 * Len(r1) + 3 = 5 * len + bits + 8
    BY <1>4, <1>6, <1>9, <2>7
  <2> HIDE DEF x, y
  <2>13. 256 * n + v = Value(32, r1) * 8 + y
    <3> DEFINE w1 == Value(32, r1)
    <3>1. g1 \in Nat
      BY <2>2, GroupsAreNumbers
    <3>2. w1 = 32 * m + g1
      BY <2>7
    <3> HIDE DEF w1
    <3>3. n \in Nat /\ v \in Nat
      BY <1>1
    <3>4. 256 * n + v = w1 * 8 + y
      BY ONLY <1>5, <2>2, <2>3, <2>4, <3>1, <3>2, <3>3
    <3> QED
      BY <3>4 DEF w1
  <2>14. Remaining(next, 32, 256 * n + v)
    BY <2>11, <2>13, Shifts DEF Remaining, y
  <2> QED
    BY <2>11, <2>12, <2>14 DEF next, len, ret, bits
<1>10. CASE bits = 1
  <2> DEFINE g1 == (a \div 16) % 32
             r1 == ret \o <<g1>>
             x == acc % 2
             y == a % 16
  <2>1. b = 9 /\ b % 5 = 4 /\ b \div 5 = 1 /\ Shift(bits) = 2
    BY <1>10, Shifts
  <2>2. g1 \in Word /\ x \in Nat /\ y \in Nat
    BY <1>1, <1>8 DEF Word
  <2>3. n = m * 2 + x
    BY <1>4, <2>1
  <2>4. 256 * x + v = 16 * g1 + y
    BY <1>7, <1>8 DEF OctetEnters
  <2>5. (a \div Shift(9 - 1 * 5)) % Shift(5) = g1
    BY Shifts
  <2> HIDE DEF g1
  <2>6. out = <<g1>>
    <3>1. out = [j \in 1 .. 1 |-> (a \div Shift(9 - j * 5)) % Shift(5)]
      BY <2>1
    <3> HIDE DEF out
    <3>2. out = [j \in 1 .. 1 |-> out[j]]
      BY <3>1
    <3>3. out[1] = g1
      BY <2>5, <3>1
    <3> QED
      BY <3>2, <3>3, ShortFunctions
  <2>7. r1 \in Seq(Word) /\ Len(r1) = len + 1 /\ Value(32, r1) = 32 * m + g1
    BY <1>1, <2>2, WordGroup DEF len, m
  <2>8. ret \o out = r1
    BY <2>6
  <2> HIDE DEF r1, out, b
  <2>10. next = [acc |-> a, bits |-> 4, ret |-> r1]
    BY <1>2, <2>1, <2>8
  <2>11. next.acc = a /\ next.bits = 4 /\ next.ret = r1 /\ next \in Narrow
    BY <1>8, <2>7, <2>10 DEF Narrow, Accumulator, NarrowBits
  <2>12. 5 * Len(r1) + 4 = 5 * len + bits + 8
    BY <1>4, <1>6, <1>10, <2>7
  <2> HIDE DEF x, y
  <2>13. 256 * n + v = Value(32, r1) * 16 + y
    <3> DEFINE w1 == Value(32, r1)
    <3>1. g1 \in Nat
      BY <2>2, GroupsAreNumbers
    <3>2. w1 = 32 * m + g1
      BY <2>7
    <3> HIDE DEF w1
    <3>3. n \in Nat /\ v \in Nat
      BY <1>1
    <3>4. 256 * n + v = w1 * 16 + y
      BY ONLY <1>5, <2>2, <2>3, <2>4, <3>1, <3>2, <3>3
    <3> QED
      BY <3>4 DEF w1
  <2>14. Remaining(next, 32, 256 * n + v)
    BY <2>11, <2>13, Shifts DEF Remaining, y
  <2> QED
    BY <2>11, <2>12, <2>14 DEF next, len, ret, bits
<1>11. CASE bits = 2
  <2> DEFINE g1 == (a \div 32) % 32
             g2 == (a \div 1) % 32
             r1 == ret \o <<g1>>
             r2 == r1 \o <<g2>>
             x == acc % 4
             y == a % 1
  <2>1. b = 10 /\ b % 5 = 0 /\ b \div 5 = 2 /\ Shift(bits) = 4
    BY <1>11, Shifts
  <2>2. g1 \in Word /\ g2 \in Word /\ x \in Nat /\ y \in Nat
    BY <1>1, <1>8 DEF Word
  <2>3. n = m * 4 + x
    BY <1>4, <2>1
  <2>4. 256 * x + v = 32 * g1 + 1 * g2 + y
    BY <1>7, <1>8 DEF OctetEnters
  <2>5. (a \div Shift(10 - 1 * 5)) % Shift(5) = g1 /\ (a \div Shift(10 - 2 * 5)) % Shift(5) = g2
    BY Shifts
  <2> HIDE DEF g1, g2
  <2>6. out = <<g1, g2>>
    <3>1. out = [j \in 1 .. 2 |-> (a \div Shift(10 - j * 5)) % Shift(5)]
      BY <2>1
    <3> HIDE DEF out
    <3>2. out = [j \in 1 .. 2 |-> out[j]]
      BY <3>1
    <3>3. out[1] = g1 /\ out[2] = g2
      BY <2>5, <3>1
    <3> QED
      BY <3>2, <3>3, ShortFunctions
  <2>7. r1 \in Seq(Word) /\ Len(r1) = len + 1 /\ Value(32, r1) = 32 * m + g1
    BY <1>1, <2>2, WordGroup DEF len, m
  <2>8. ret \o out = r2
    <3>0. ret \in Seq(Word) /\ g1 \in Word /\ g2 \in Word
      BY <1>1, <2>2
    <3>1. ret \o <<g1, g2>> = (ret \o <<g1>>) \o <<g2>>
      BY ONLY <3>0, TwoMore
    <3> QED
      BY <2>6, <3>1
  <2> HIDE DEF r1
  <2>9. r2 \in Seq(Word) /\ Len(r2) = Len(r1) + 1 /\ Value(32, r2) = 32 * Value(32, r1) + g2
    BY <2>2, <2>7, WordGroup
  <2> HIDE DEF r2, out, b
  <2>10. next = [acc |-> a, bits |-> 0, ret |-> r2]
    BY <1>2, <2>1, <2>8
  <2>11. next.acc = a /\ next.bits = 0 /\ next.ret = r2 /\ next \in Narrow
    BY <1>8, <2>7, <2>9, <2>10 DEF Narrow, Accumulator, NarrowBits
  <2>12. 5 * Len(r2) + 0 = 5 * len + bits + 8
    BY <1>4, <1>6, <1>11, <2>7, <2>9
  <2> HIDE DEF x, y
  <2>13. 256 * n + v = Value(32, r2) * 1 + y
    <3> DEFINE w1 == Value(32, r1)
               w2 == Value(32, r2)
    <3>1. g1 \in Nat /\ g2 \in Nat
      BY <2>2, GroupsAreNumbers
    <3>2. w1 = 32 * m + g1 /\ w2 = 32 * w1 + g2
      BY <2>7, <2>9
    <3> HIDE DEF w1, w2
    <3>3. n \in Nat /\ v \in Nat
      BY <1>1
    <3>4. 256 * n + v = w2 * 1 + y
      BY ONLY <1>5, <2>2, <2>3, <2>4, <3>1, <3>2, <3>3
    <3> QED
      BY <3>4 DEF w2
  <2>14. Remaining(next, 32, 256 * n + v)
    BY <2>11, <2>13, Shifts DEF Remaining, y
  <2> QED
    BY <2>11, <2>12, <2>14 DEF next, len, ret, bits
<1>12. CASE bits = 3
  <2> DEFINE g1 == (a \div 64) % 32
             g2 == (a \div 2) % 32
             r1 == ret \o <<g1>>
             r2 == r1 \o <<g2>>
             x == acc % 8
             y == a % 2
  <2>1. b = 11 /\ b % 5 = 1 /\ b \div 5 = 2 /\ Shift(bits) = 8
    BY <1>12, Shifts
  <2>2. g1 \in Word /\ g2 \in Word /\ x \in Nat /\ y \in Nat
    BY <1>1, <1>8 DEF Word
  <2>3. n = m * 8 + x
    BY <1>4, <2>1
  <2>4. 256 * x + v = 64 * g1 + 2 * g2 + y
    BY <1>7, <1>8 DEF OctetEnters
  <2>5. (a \div Shift(11 - 1 * 5)) % Shift(5) = g1 /\ (a \div Shift(11 - 2 * 5)) % Shift(5) = g2
    BY Shifts
  <2> HIDE DEF g1, g2
  <2>6. out = <<g1, g2>>
    <3>1. out = [j \in 1 .. 2 |-> (a \div Shift(11 - j * 5)) % Shift(5)]
      BY <2>1
    <3> HIDE DEF out
    <3>2. out = [j \in 1 .. 2 |-> out[j]]
      BY <3>1
    <3>3. out[1] = g1 /\ out[2] = g2
      BY <2>5, <3>1
    <3> QED
      BY <3>2, <3>3, ShortFunctions
  <2>7. r1 \in Seq(Word) /\ Len(r1) = len + 1 /\ Value(32, r1) = 32 * m + g1
    BY <1>1, <2>2, WordGroup DEF len, m
  <2>8. ret \o out = r2
    <3>0. ret \in Seq(Word) /\ g1 \in Word /\ g2 \in Word
      BY <1>1, <2>2
    <3>1. ret \o <<g1, g2>> = (ret \o <<g1>>) \o <<g2>>
      BY ONLY <3>0, TwoMore
    <3> QED
      BY <2>6, <3>1
  <2> HIDE DEF r1
  <2>9. r2 \in Seq(Word) /\ Len(r2) = Len(r1) + 1 /\ Value(32, r2) = 32 * Value(32, r1) + g2
    BY <2>2, <2>7, WordGroup
  <2> HIDE DEF r2, out, b
  <2>10. next = [acc |-> a, bits |-> 1, ret |-> r2]
    BY <1>2, <2>1, <2>8
  <2>11. next.acc = a /\ next.bits = 1 /\ next.ret = r2 /\ next \in Narrow
    BY <1>8, <2>7, <2>9, <2>10 DEF Narrow, Accumulator, NarrowBits
  <2>12. 5 * Len(r2) + 1 = 5 * len + bits + 8
    BY <1>4, <1>6, <1>12, <2>7, <2>9
  <2> HIDE DEF x, y
  <2>13. 256 * n + v = Value(32, r2) * 2 + y
    <3> DEFINE w1 == Value(32, r1)
               w2 == Value(32, r2)
    <3>1. g1 \in Nat /\ g2 \in Nat
      BY <2>2, GroupsAreNumbers
    <3>2. w1 = 32 * m + g1 /\ w2 = 32 * w1 + g2
      BY <2>7, <2>9
    <3> HIDE DEF w1, w2
    <3>3. n \in Nat /\ v \in Nat
      BY <1>1
    <3>4. 256 * n + v = w2 * 2 + y
      BY ONLY <1>5, <2>2, <2>3, <2>4, <3>1, <3>2, <3>3
    <3> QED
      BY <3>4 DEF w2
  <2>14. Remaining(next, 32, 256 * n + v)
    BY <2>11, <2>13, Shifts DEF Remaining, y
  <2> QED
    BY <2>11, <2>12, <2>14 DEF next, len, ret, bits
<1>13. CASE bits = 4
  <2> DEFINE g1 == (a \div 128) % 32
             g2 == (a \div 4) % 32
             r1 == ret \o <<g1>>
             r2 == r1 \o <<g2>>
             x == acc % 16
             y == a % 4
  <2>1. b = 12 /\ b % 5 = 2 /\ b \div 5 = 2 /\ Shift(bits) = 16
    BY <1>13, Shifts
  <2>2. g1 \in Word /\ g2 \in Word /\ x \in Nat /\ y \in Nat
    BY <1>1, <1>8 DEF Word
  <2>3. n = m * 16 + x
    BY <1>4, <2>1
  <2>4. 256 * x + v = 128 * g1 + 4 * g2 + y
    BY <1>7, <1>8 DEF OctetEnters
  <2>5. (a \div Shift(12 - 1 * 5)) % Shift(5) = g1 /\ (a \div Shift(12 - 2 * 5)) % Shift(5) = g2
    BY Shifts
  <2> HIDE DEF g1, g2
  <2>6. out = <<g1, g2>>
    <3>1. out = [j \in 1 .. 2 |-> (a \div Shift(12 - j * 5)) % Shift(5)]
      BY <2>1
    <3> HIDE DEF out
    <3>2. out = [j \in 1 .. 2 |-> out[j]]
      BY <3>1
    <3>3. out[1] = g1 /\ out[2] = g2
      BY <2>5, <3>1
    <3> QED
      BY <3>2, <3>3, ShortFunctions
  <2>7. r1 \in Seq(Word) /\ Len(r1) = len + 1 /\ Value(32, r1) = 32 * m + g1
    BY <1>1, <2>2, WordGroup DEF len, m
  <2>8. ret \o out = r2
    <3>0. ret \in Seq(Word) /\ g1 \in Word /\ g2 \in Word
      BY <1>1, <2>2
    <3>1. ret \o <<g1, g2>> = (ret \o <<g1>>) \o <<g2>>
      BY ONLY <3>0, TwoMore
    <3> QED
      BY <2>6, <3>1
  <2> HIDE DEF r1
  <2>9. r2 \in Seq(Word) /\ Len(r2) = Len(r1) + 1 /\ Value(32, r2) = 32 * Value(32, r1) + g2
    BY <2>2, <2>7, WordGroup
  <2> HIDE DEF r2, out, b
  <2>10. next = [acc |-> a, bits |-> 2, ret |-> r2]
    BY <1>2, <2>1, <2>8
  <2>11. next.acc = a /\ next.bits = 2 /\ next.ret = r2 /\ next \in Narrow
    BY <1>8, <2>7, <2>9, <2>10 DEF Narrow, Accumulator, NarrowBits
  <2>12. 5 * Len(r2) + 2 = 5 * len + bits + 8
    BY <1>4, <1>6, <1>13, <2>7, <2>9
  <2> HIDE DEF x, y
  <2>13. 256 * n + v = Value(32, r2) * 4 + y
    <3> DEFINE w1 == Value(32, r1)
               w2 == Value(32, r2)
    <3>1. g1 \in Nat /\ g2 \in Nat
      BY <2>2, GroupsAreNumbers
    <3>2. w1 = 32 * m + g1 /\ w2 = 32 * w1 + g2
      BY <2>7, <2>9
    <3> HIDE DEF w1, w2
    <3>3. n \in Nat /\ v \in Nat
      BY <1>1
    <3>4. 256 * n + v = w2 * 4 + y
      BY ONLY <1>5, <2>2, <2>3, <2>4, <3>1, <3>2, <3>3
    <3> QED
      BY <3>4 DEF w2
  <2>14. Remaining(next, 32, 256 * n + v)
    BY <2>11, <2>13, Shifts DEF Remaining, y
  <2> QED
    BY <2>11, <2>12, <2>14 DEF next, len, ret, bits
<1> QED
  BY <1>1, <1>9, <1>10, <1>11, <1>12, <1>13

\* A word in groups of eight bits.
LEMMA WidenStep ==
    ASSUME NEW state \in Wide, NEW n \in Nat, NEW v \in Word,
           Remaining(state, 256, n)
    PROVE  LET next == Accumulate(5, 8)[state][v]
           IN  /\ next \in Wide
               /\ 8 * Len(next.ret) + next.bits = 8 * Len(state.ret) + state.bits + 5
               /\ Remaining(next, 256, 32 * n + v)
<1> DEFINE acc == state.acc
           bits == state.bits
           ret == state.ret
           next == Accumulate(5, 8)[state][v]
           a == (acc * Shift(5) + v) % Shift(5 + 8 - 1)
           b == bits + 5
           out == [k \in 1 .. b \div 8 |-> (a \div Shift(b - k * 8)) % Shift(8)]
           m == Value(256, ret)
           len == Len(ret)
<1>1. /\ state \in Regrouping /\ v \in Nat /\ v \in 0 .. 31
      /\ acc \in 0 .. 4095 /\ bits \in 0 .. 7 /\ ret \in Seq(Octet)
  <2>1. v \in Nat /\ v \in 0 .. 31
    BY DEF Word
  <2>2. state \in Regrouping /\ acc \in Accumulator /\ bits \in WideBits /\ ret \in Seq(Octet)
    BY StateFields
  <2> HIDE DEF acc, bits, ret
  <2>3. acc \in 0 .. 4095 /\ bits \in 0 .. 7
    BY <2>2 DEF Accumulator, WideBits
  <2> QED
    BY ONLY <2>1, <2>2, <2>3
<1>2. next = [acc |-> a, bits |-> b % 8, ret |-> ret \o out]
  BY <1>1 DEF Accumulate
<1>3. a = (acc * 32 + v) % 4096
  BY SMT, Shifts
<1>4. n = m * Shift(bits) + (acc % Shift(bits))
  BY DEF Remaining
<1> HIDE DEF acc, bits, ret, next, a
<1>5. m \in Nat
  <2>1. ret \in Seq(Nat)
    BY <1>1, GroupsAreNumbers
  <2>2. 0 \in Nat /\ 256 \in Bases
    BY DEF Bases
  <2> QED
    BY <2>1, <2>2, ValueAppend
<1>6. len \in Nat
  BY <1>1
<1>7. WordEnters(acc, v, a)
  <2>1. acc \in Nat
    BY <1>1
  <2>2. AccumulatesWord(acc, v, a)
    BY <1>1, <1>3, <2>1 DEF AccumulatesWord
  <2> QED
    BY <2>2, WidenArith
<1>8. a \in 0 .. 4095
  BY <1>7 DEF WordEnters
<1> HIDE DEF m, len

<1>9. CASE bits = 0
  <2> DEFINE x == acc % 1
             y == a % 32
  <2>1. b = 5 /\ b % 8 = 5 /\ b \div 8 = 0 /\ Shift(bits) = 1
    BY <1>9, Shifts
  <2>2. x \in Nat /\ y \in Nat
    BY <1>1, <1>8 DEF Octet
  <2>3. n = m * 1 + x
    BY <1>4, <2>1
  <2>4. 32 * x + v = y
    BY <1>7, <1>8 DEF WordEnters
  <2>7. ret \in Seq(Octet) /\ Len(ret) = len /\ Value(256, ret) = m
    BY <1>1 DEF len, m
  <2>8. ret \o out = ret
    <3>1. out = <<>>
      BY <2>1
    <3> QED
      BY <1>1, <3>1
  <2> HIDE DEF out, b
  <2>10. next = [acc |-> a, bits |-> 5, ret |-> ret]
    BY <1>2, <2>1, <2>8
  <2>11. next.acc = a /\ next.bits = 5 /\ next.ret = ret /\ next \in Wide
    BY <1>8, <2>7, <2>10 DEF Wide, Accumulator, WideBits
  <2>12. 8 * Len(ret) + 5 = 8 * len + bits + 5
    BY <1>4, <1>6, <1>9, <2>7
  <2> HIDE DEF x, y
  <2>13. 32 * n + v = Value(256, ret) * 32 + y
    <3> DEFINE w1 == Value(256, ret)
    <3>2. w1 = m
      BY <2>7
    <3> HIDE DEF w1
    <3>3. n \in Nat /\ v \in Nat
      BY <1>1
    <3>4. 32 * n + v = w1 * 32 + y
      BY ONLY <1>5, <2>2, <2>3, <2>4, <3>2, <3>3
    <3> QED
      BY <3>4 DEF w1
  <2>14. Remaining(next, 256, 32 * n + v)
    BY <2>11, <2>13, Shifts DEF Remaining, y
  <2> QED
    BY <2>11, <2>12, <2>14 DEF next, len, ret, bits
<1>10. CASE bits = 1
  <2> DEFINE x == acc % 2
             y == a % 64
  <2>1. b = 6 /\ b % 8 = 6 /\ b \div 8 = 0 /\ Shift(bits) = 2
    BY <1>10, Shifts
  <2>2. x \in Nat /\ y \in Nat
    BY <1>1, <1>8 DEF Octet
  <2>3. n = m * 2 + x
    BY <1>4, <2>1
  <2>4. 32 * x + v = y
    BY <1>7, <1>8 DEF WordEnters
  <2>7. ret \in Seq(Octet) /\ Len(ret) = len /\ Value(256, ret) = m
    BY <1>1 DEF len, m
  <2>8. ret \o out = ret
    <3>1. out = <<>>
      BY <2>1
    <3> QED
      BY <1>1, <3>1
  <2> HIDE DEF out, b
  <2>10. next = [acc |-> a, bits |-> 6, ret |-> ret]
    BY <1>2, <2>1, <2>8
  <2>11. next.acc = a /\ next.bits = 6 /\ next.ret = ret /\ next \in Wide
    BY <1>8, <2>7, <2>10 DEF Wide, Accumulator, WideBits
  <2>12. 8 * Len(ret) + 6 = 8 * len + bits + 5
    BY <1>4, <1>6, <1>10, <2>7
  <2> HIDE DEF x, y
  <2>13. 32 * n + v = Value(256, ret) * 64 + y
    <3> DEFINE w1 == Value(256, ret)
    <3>2. w1 = m
      BY <2>7
    <3> HIDE DEF w1
    <3>3. n \in Nat /\ v \in Nat
      BY <1>1
    <3>4. 32 * n + v = w1 * 64 + y
      BY ONLY <1>5, <2>2, <2>3, <2>4, <3>2, <3>3
    <3> QED
      BY <3>4 DEF w1
  <2>14. Remaining(next, 256, 32 * n + v)
    BY <2>11, <2>13, Shifts DEF Remaining, y
  <2> QED
    BY <2>11, <2>12, <2>14 DEF next, len, ret, bits
<1>11. CASE bits = 2
  <2> DEFINE x == acc % 4
             y == a % 128
  <2>1. b = 7 /\ b % 8 = 7 /\ b \div 8 = 0 /\ Shift(bits) = 4
    BY <1>11, Shifts
  <2>2. x \in Nat /\ y \in Nat
    BY <1>1, <1>8 DEF Octet
  <2>3. n = m * 4 + x
    BY <1>4, <2>1
  <2>4. 32 * x + v = y
    BY <1>7, <1>8 DEF WordEnters
  <2>7. ret \in Seq(Octet) /\ Len(ret) = len /\ Value(256, ret) = m
    BY <1>1 DEF len, m
  <2>8. ret \o out = ret
    <3>1. out = <<>>
      BY <2>1
    <3> QED
      BY <1>1, <3>1
  <2> HIDE DEF out, b
  <2>10. next = [acc |-> a, bits |-> 7, ret |-> ret]
    BY <1>2, <2>1, <2>8
  <2>11. next.acc = a /\ next.bits = 7 /\ next.ret = ret /\ next \in Wide
    BY <1>8, <2>7, <2>10 DEF Wide, Accumulator, WideBits
  <2>12. 8 * Len(ret) + 7 = 8 * len + bits + 5
    BY <1>4, <1>6, <1>11, <2>7
  <2> HIDE DEF x, y
  <2>13. 32 * n + v = Value(256, ret) * 128 + y
    <3> DEFINE w1 == Value(256, ret)
    <3>2. w1 = m
      BY <2>7
    <3> HIDE DEF w1
    <3>3. n \in Nat /\ v \in Nat
      BY <1>1
    <3>4. 32 * n + v = w1 * 128 + y
      BY ONLY <1>5, <2>2, <2>3, <2>4, <3>2, <3>3
    <3> QED
      BY <3>4 DEF w1
  <2>14. Remaining(next, 256, 32 * n + v)
    BY <2>11, <2>13, Shifts DEF Remaining, y
  <2> QED
    BY <2>11, <2>12, <2>14 DEF next, len, ret, bits
<1>12. CASE bits = 3
  <2> DEFINE g1 == (a \div 1) % 256
             r1 == ret \o <<g1>>
             x == acc % 8
             y == a % 1
  <2>1. b = 8 /\ b % 8 = 0 /\ b \div 8 = 1 /\ Shift(bits) = 8
    BY <1>12, Shifts
  <2>2. g1 \in Octet /\ x \in Nat /\ y \in Nat
    BY <1>1, <1>8 DEF Octet
  <2>3. n = m * 8 + x
    BY <1>4, <2>1
  <2>4. 32 * x + v = 1 * g1 + y
    BY <1>7, <1>8 DEF WordEnters
  <2>5. (a \div Shift(8 - 1 * 8)) % Shift(8) = g1
    BY Shifts
  <2> HIDE DEF g1
  <2>6. out = <<g1>>
    <3>1. out = [j \in 1 .. 1 |-> (a \div Shift(8 - j * 8)) % Shift(8)]
      BY <2>1
    <3> HIDE DEF out
    <3>2. out = [j \in 1 .. 1 |-> out[j]] /\ out[1] = g1
      BY <2>5, <3>1
    <3> QED
      BY <3>2, ShortFunctions
  <2>7. r1 \in Seq(Octet) /\ Len(r1) = len + 1 /\ Value(256, r1) = 256 * m + g1
    BY <1>1, <2>2, OctetGroup DEF len, m
  <2>8. ret \o out = r1
    BY <2>6
  <2> HIDE DEF r1, out, b
  <2>10. next = [acc |-> a, bits |-> 0, ret |-> r1]
    BY <1>2, <2>1, <2>8
  <2>11. next.acc = a /\ next.bits = 0 /\ next.ret = r1 /\ next \in Wide
    BY <1>8, <2>7, <2>10 DEF Wide, Accumulator, WideBits
  <2>12. 8 * Len(r1) + 0 = 8 * len + bits + 5
    BY <1>4, <1>6, <1>12, <2>7
  <2> HIDE DEF x, y
  <2>13. 32 * n + v = Value(256, r1) * 1 + y
    <3> DEFINE w1 == Value(256, r1)
    <3>1. g1 \in Nat
      BY <2>2, GroupsAreNumbers
    <3>2. w1 = 256 * m + g1
      BY <2>7
    <3> HIDE DEF w1
    <3>3. n \in Nat /\ v \in Nat
      BY <1>1
    <3>4. 32 * n + v = w1 * 1 + y
      BY ONLY <1>5, <2>2, <2>3, <2>4, <3>1, <3>2, <3>3
    <3> QED
      BY <3>4 DEF w1
  <2>14. Remaining(next, 256, 32 * n + v)
    BY <2>11, <2>13, Shifts DEF Remaining, y
  <2> QED
    BY <2>11, <2>12, <2>14 DEF next, len, ret, bits
<1>13. CASE bits = 4
  <2> DEFINE g1 == (a \div 2) % 256
             r1 == ret \o <<g1>>
             x == acc % 16
             y == a % 2
  <2>1. b = 9 /\ b % 8 = 1 /\ b \div 8 = 1 /\ Shift(bits) = 16
    BY <1>13, Shifts
  <2>2. g1 \in Octet /\ x \in Nat /\ y \in Nat
    BY <1>1, <1>8 DEF Octet
  <2>3. n = m * 16 + x
    BY <1>4, <2>1
  <2>4. 32 * x + v = 2 * g1 + y
    BY <1>7, <1>8 DEF WordEnters
  <2>5. (a \div Shift(9 - 1 * 8)) % Shift(8) = g1
    BY Shifts
  <2> HIDE DEF g1
  <2>6. out = <<g1>>
    <3>1. out = [j \in 1 .. 1 |-> (a \div Shift(9 - j * 8)) % Shift(8)]
      BY <2>1
    <3> HIDE DEF out
    <3>2. out = [j \in 1 .. 1 |-> out[j]] /\ out[1] = g1
      BY <2>5, <3>1
    <3> QED
      BY <3>2, ShortFunctions
  <2>7. r1 \in Seq(Octet) /\ Len(r1) = len + 1 /\ Value(256, r1) = 256 * m + g1
    BY <1>1, <2>2, OctetGroup DEF len, m
  <2>8. ret \o out = r1
    BY <2>6
  <2> HIDE DEF r1, out, b
  <2>10. next = [acc |-> a, bits |-> 1, ret |-> r1]
    BY <1>2, <2>1, <2>8
  <2>11. next.acc = a /\ next.bits = 1 /\ next.ret = r1 /\ next \in Wide
    BY <1>8, <2>7, <2>10 DEF Wide, Accumulator, WideBits
  <2>12. 8 * Len(r1) + 1 = 8 * len + bits + 5
    BY <1>4, <1>6, <1>13, <2>7
  <2> HIDE DEF x, y
  <2>13. 32 * n + v = Value(256, r1) * 2 + y
    <3> DEFINE w1 == Value(256, r1)
    <3>1. g1 \in Nat
      BY <2>2, GroupsAreNumbers
    <3>2. w1 = 256 * m + g1
      BY <2>7
    <3> HIDE DEF w1
    <3>3. n \in Nat /\ v \in Nat
      BY <1>1
    <3>4. 32 * n + v = w1 * 2 + y
      BY ONLY <1>5, <2>2, <2>3, <2>4, <3>1, <3>2, <3>3
    <3> QED
      BY <3>4 DEF w1
  <2>14. Remaining(next, 256, 32 * n + v)
    BY <2>11, <2>13, Shifts DEF Remaining, y
  <2> QED
    BY <2>11, <2>12, <2>14 DEF next, len, ret, bits
<1>14. CASE bits = 5
  <2> DEFINE g1 == (a \div 4) % 256
             r1 == ret \o <<g1>>
             x == acc % 32
             y == a % 4
  <2>1. b = 10 /\ b % 8 = 2 /\ b \div 8 = 1 /\ Shift(bits) = 32
    BY <1>14, Shifts
  <2>2. g1 \in Octet /\ x \in Nat /\ y \in Nat
    BY <1>1, <1>8 DEF Octet
  <2>3. n = m * 32 + x
    BY <1>4, <2>1
  <2>4. 32 * x + v = 4 * g1 + y
    BY <1>7, <1>8 DEF WordEnters
  <2>5. (a \div Shift(10 - 1 * 8)) % Shift(8) = g1
    BY Shifts
  <2> HIDE DEF g1
  <2>6. out = <<g1>>
    <3>1. out = [j \in 1 .. 1 |-> (a \div Shift(10 - j * 8)) % Shift(8)]
      BY <2>1
    <3> HIDE DEF out
    <3>2. out = [j \in 1 .. 1 |-> out[j]] /\ out[1] = g1
      BY <2>5, <3>1
    <3> QED
      BY <3>2, ShortFunctions
  <2>7. r1 \in Seq(Octet) /\ Len(r1) = len + 1 /\ Value(256, r1) = 256 * m + g1
    BY <1>1, <2>2, OctetGroup DEF len, m
  <2>8. ret \o out = r1
    BY <2>6
  <2> HIDE DEF r1, out, b
  <2>10. next = [acc |-> a, bits |-> 2, ret |-> r1]
    BY <1>2, <2>1, <2>8
  <2>11. next.acc = a /\ next.bits = 2 /\ next.ret = r1 /\ next \in Wide
    BY <1>8, <2>7, <2>10 DEF Wide, Accumulator, WideBits
  <2>12. 8 * Len(r1) + 2 = 8 * len + bits + 5
    BY <1>4, <1>6, <1>14, <2>7
  <2> HIDE DEF x, y
  <2>13. 32 * n + v = Value(256, r1) * 4 + y
    <3> DEFINE w1 == Value(256, r1)
    <3>1. g1 \in Nat
      BY <2>2, GroupsAreNumbers
    <3>2. w1 = 256 * m + g1
      BY <2>7
    <3> HIDE DEF w1
    <3>3. n \in Nat /\ v \in Nat
      BY <1>1
    <3>4. 32 * n + v = w1 * 4 + y
      BY ONLY <1>5, <2>2, <2>3, <2>4, <3>1, <3>2, <3>3
    <3> QED
      BY <3>4 DEF w1
  <2>14. Remaining(next, 256, 32 * n + v)
    BY <2>11, <2>13, Shifts DEF Remaining, y
  <2> QED
    BY <2>11, <2>12, <2>14 DEF next, len, ret, bits
<1>15. CASE bits = 6
  <2> DEFINE g1 == (a \div 8) % 256
             r1 == ret \o <<g1>>
             x == acc % 64
             y == a % 8
  <2>1. b = 11 /\ b % 8 = 3 /\ b \div 8 = 1 /\ Shift(bits) = 64
    BY <1>15, Shifts
  <2>2. g1 \in Octet /\ x \in Nat /\ y \in Nat
    BY <1>1, <1>8 DEF Octet
  <2>3. n = m * 64 + x
    BY <1>4, <2>1
  <2>4. 32 * x + v = 8 * g1 + y
    BY <1>7, <1>8 DEF WordEnters
  <2>5. (a \div Shift(11 - 1 * 8)) % Shift(8) = g1
    BY Shifts
  <2> HIDE DEF g1
  <2>6. out = <<g1>>
    <3>1. out = [j \in 1 .. 1 |-> (a \div Shift(11 - j * 8)) % Shift(8)]
      BY <2>1
    <3> HIDE DEF out
    <3>2. out = [j \in 1 .. 1 |-> out[j]] /\ out[1] = g1
      BY <2>5, <3>1
    <3> QED
      BY <3>2, ShortFunctions
  <2>7. r1 \in Seq(Octet) /\ Len(r1) = len + 1 /\ Value(256, r1) = 256 * m + g1
    BY <1>1, <2>2, OctetGroup DEF len, m
  <2>8. ret \o out = r1
    BY <2>6
  <2> HIDE DEF r1, out, b
  <2>10. next = [acc |-> a, bits |-> 3, ret |-> r1]
    BY <1>2, <2>1, <2>8
  <2>11. next.acc = a /\ next.bits = 3 /\ next.ret = r1 /\ next \in Wide
    BY <1>8, <2>7, <2>10 DEF Wide, Accumulator, WideBits
  <2>12. 8 * Len(r1) + 3 = 8 * len + bits + 5
    BY <1>4, <1>6, <1>15, <2>7
  <2> HIDE DEF x, y
  <2>13. 32 * n + v = Value(256, r1) * 8 + y
    <3> DEFINE w1 == Value(256, r1)
    <3>1. g1 \in Nat
      BY <2>2, GroupsAreNumbers
    <3>2. w1 = 256 * m + g1
      BY <2>7
    <3> HIDE DEF w1
    <3>3. n \in Nat /\ v \in Nat
      BY <1>1
    <3>4. 32 * n + v = w1 * 8 + y
      BY ONLY <1>5, <2>2, <2>3, <2>4, <3>1, <3>2, <3>3
    <3> QED
      BY <3>4 DEF w1
  <2>14. Remaining(next, 256, 32 * n + v)
    BY <2>11, <2>13, Shifts DEF Remaining, y
  <2> QED
    BY <2>11, <2>12, <2>14 DEF next, len, ret, bits
<1>16. CASE bits = 7
  <2> DEFINE g1 == (a \div 16) % 256
             r1 == ret \o <<g1>>
             x == acc % 128
             y == a % 16
  <2>1. b = 12 /\ b % 8 = 4 /\ b \div 8 = 1 /\ Shift(bits) = 128
    BY <1>16, Shifts
  <2>2. g1 \in Octet /\ x \in Nat /\ y \in Nat
    BY <1>1, <1>8 DEF Octet
  <2>3. n = m * 128 + x
    BY <1>4, <2>1
  <2>4. 32 * x + v = 16 * g1 + y
    BY <1>7, <1>8 DEF WordEnters
  <2>5. (a \div Shift(12 - 1 * 8)) % Shift(8) = g1
    BY Shifts
  <2> HIDE DEF g1
  <2>6. out = <<g1>>
    <3>1. out = [j \in 1 .. 1 |-> (a \div Shift(12 - j * 8)) % Shift(8)]
      BY <2>1
    <3> HIDE DEF out
    <3>2. out = [j \in 1 .. 1 |-> out[j]] /\ out[1] = g1
      BY <2>5, <3>1
    <3> QED
      BY <3>2, ShortFunctions
  <2>7. r1 \in Seq(Octet) /\ Len(r1) = len + 1 /\ Value(256, r1) = 256 * m + g1
    BY <1>1, <2>2, OctetGroup DEF len, m
  <2>8. ret \o out = r1
    BY <2>6
  <2> HIDE DEF r1, out, b
  <2>10. next = [acc |-> a, bits |-> 4, ret |-> r1]
    BY <1>2, <2>1, <2>8
  <2>11. next.acc = a /\ next.bits = 4 /\ next.ret = r1 /\ next \in Wide
    BY <1>8, <2>7, <2>10 DEF Wide, Accumulator, WideBits
  <2>12. 8 * Len(r1) + 4 = 8 * len + bits + 5
    BY <1>4, <1>6, <1>16, <2>7
  <2> HIDE DEF x, y
  <2>13. 32 * n + v = Value(256, r1) * 16 + y
    <3> DEFINE w1 == Value(256, r1)
    <3>1. g1 \in Nat
      BY <2>2, GroupsAreNumbers
    <3>2. w1 = 256 * m + g1
      BY <2>7
    <3> HIDE DEF w1
    <3>3. n \in Nat /\ v \in Nat
      BY <1>1
    <3>4. 32 * n + v = w1 * 16 + y
      BY ONLY <1>5, <2>2, <2>3, <2>4, <3>1, <3>2, <3>3
    <3> QED
      BY <3>4 DEF w1
  <2>14. Remaining(next, 256, 32 * n + v)
    BY <2>11, <2>13, Shifts DEF Remaining, y
  <2> QED
    BY <2>11, <2>12, <2>14 DEF next, len, ret, bits
<1> QED
  BY <1>1, <1>9, <1>10, <1>11, <1>12, <1>13, <1>14, <1>15, <1>16

\* The loops over octets and words, and those that read a number, keep their states.
LEMMA GroupLoops ==
    /\ Steps(Accumulate(8, 5), Narrow, Octet) /\ Steps(Accumulate(5, 8), Wide, Word)
    /\ Steps(Digits(256), Nat, Octet) /\ Steps(Digits(32), Nat, Word)
    /\ \A n \in Nat, v \in Octet : Digits(256)[n][v] = 256 * n + v /\ 256 * n + v \in Nat
    /\ \A n \in Nat, v \in Word : Digits(32)[n][v] = 32 * n + v /\ 32 * n + v \in Nat
<1>1. \A v : v \in Word \/ v \in Octet => v \in Nat
  BY GroupsAreNumbers
<1>2. \A n \in Nat, v \in Nat : Digits(256)[n][v] = 256 * n + v /\ 256 * n + v \in Nat
  BY DEF Digits
<1>3. \A n \in Nat, v \in Nat : Digits(32)[n][v] = 32 * n + v /\ 32 * n + v \in Nat
  BY DEF Digits
<1>4. \A n \in Nat, v \in Octet : Digits(256)[n][v] = 256 * n + v /\ 256 * n + v \in Nat
  BY <1>1, <1>2
<1>5. \A n \in Nat, v \in Word : Digits(32)[n][v] = 32 * n + v /\ 32 * n + v \in Nat
  BY <1>1, <1>3
<1>6. \A n \in Nat, v \in Octet : Digits(256)[n][v] \in Nat
  BY <1>4
<1>7. \A n \in Nat, v \in Word : Digits(32)[n][v] \in Nat
  BY <1>5
<1>8. Steps(Digits(256), Nat, Octet)
  BY <1>6 DEF Steps
<1>9. Steps(Digits(32), Nat, Word)
  BY <1>7 DEF Steps
<1>10. ASSUME NEW state \in Narrow, NEW v \in Octet PROVE Accumulate(8, 5)[state][v] \in Narrow
  <2> DEFINE x == Value(32, state.ret)
             y == Shift(state.bits)
             z == state.acc % y
             n == x * y + z
  <2>1. x \in Nat
    <3>1. 32 \in Bases
      BY DEF Bases
    <3>2. state.ret \in Seq(Nat)
      BY StateFields, GroupsAreNumbers
    <3> QED
      BY <3>1, <3>2, 0 \in Nat, ValueAppend
  <2>2. y \in {1, 2, 4, 8, 16} /\ z \in Nat
    <3> DEFINE b == state.bits
               a == state.acc
    <3>0. b \in NarrowBits /\ a \in Accumulator
      BY StateFields
    <3> HIDE DEF a, b
    <3>1. b \in 0 .. 4 /\ a \in 0 .. 4095
      BY <3>0 DEF NarrowBits, Accumulator
    <3>2. a \in Nat
      BY <3>1
    <3>3. Shift(b) \in {1, 2, 4, 8, 16}
      BY <3>1, Shifts
    <3>4. y \in {1, 2, 4, 8, 16}
      BY <3>3 DEF b
    <3> HIDE DEF y
    <3>5. a % y \in Nat
      BY <3>2, <3>4
    <3> QED
      BY <3>4, <3>5 DEF a
  <2> HIDE DEF x, y, z
  <2>3. n \in Nat
    BY <2>1, <2>2
  <2>4. Remaining(state, 32, n)
    BY Zenon DEF Remaining, x, y, z
  <2> HIDE DEF n
  <2> QED
    BY <2>3, <2>4, NarrowStep
<1>11. ASSUME NEW state \in Wide, NEW v \in Word PROVE Accumulate(5, 8)[state][v] \in Wide
  <2> DEFINE x == Value(256, state.ret)
             y == Shift(state.bits)
             z == state.acc % y
             n == x * y + z
  <2>1. x \in Nat
    <3>1. 256 \in Bases
      BY DEF Bases
    <3>2. state.ret \in Seq(Nat)
      BY StateFields, GroupsAreNumbers
    <3> QED
      BY <3>1, <3>2, 0 \in Nat, ValueAppend
  <2>2. y \in {1, 2, 4, 8, 16, 32, 64, 128} /\ z \in Nat
    <3> DEFINE b == state.bits
               a == state.acc
    <3>0. b \in WideBits /\ a \in Accumulator
      BY StateFields
    <3> HIDE DEF a, b
    <3>1. b \in 0 .. 7 /\ a \in 0 .. 4095
      BY <3>0 DEF WideBits, Accumulator
    <3>2. a \in Nat
      BY <3>1
    <3>3. Shift(b) \in {1, 2, 4, 8, 16, 32, 64, 128}
      BY <3>1, Shifts
    <3>4. y \in {1, 2, 4, 8, 16, 32, 64, 128}
      BY <3>3 DEF b
    <3> HIDE DEF y
    <3>5. a % y \in Nat
      BY <3>2, <3>4
    <3> QED
      BY <3>4, <3>5 DEF a
  <2> HIDE DEF x, y, z
  <2>3. n \in Nat
    BY <2>1, <2>2
  <2>4. Remaining(state, 256, n)
    BY Zenon DEF Remaining, x, y, z
  <2> HIDE DEF n
  <2> QED
    BY <2>3, <2>4, WidenStep
<1>12. Steps(Accumulate(8, 5), Narrow, Octet) /\ Steps(Accumulate(5, 8), Wide, Word)
  BY <1>10, <1>11, Zenon DEF Steps
<1> QED
  BY <1>4, <1>5, <1>8, <1>9, <1>12

\* Pairs of a state and the number that was read until then.
NarrowPairs ==
    {h \in Narrow \X Nat \X Nat :
        5 * Len(h[1].ret) + h[1].bits = 8 * h[3] /\ Remaining(h[1], 32, h[2])}
\* Membership, spelled out.
LEMMA InNarrowPairs ==
    ASSUME NEW state \in Narrow, NEW n \in Nat, NEW i \in Nat
    PROVE  <<state, n, i>> \in NarrowPairs
               <=> 5 * Len(state.ret) + state.bits = 8 * i /\ Remaining(state, 32, n)
<1> DEFINE h == <<state, n, i>>
<1>1. h \in Narrow \X Nat \X Nat /\ h[1] = state /\ h[2] = n /\ h[3] = i
  OBVIOUS
<1> HIDE DEF h
<1>2. h \in NarrowPairs
        <=> 5 * Len(h[1].ret) + h[1].bits = 8 * h[3] /\ Remaining(h[1], 32, h[2])
  BY <1>1 DEF NarrowPairs
<1> QED
  BY <1>1, <1>2 DEF h

\* What has been written of a payload in groups of five bits.
LEMMA Narrowed ==
    ASSUME NEW p \in Seq(Octet)
    PROVE  LET state == Groups(p, 8, 5)
           IN  /\ state \in Narrow
               /\ 5 * Len(state.ret) + state.bits = 8 * Len(p)
               /\ Value(256, p) \in Nat
               /\ Remaining(state, 32, Value(256, p))
<1>0. \A n \in Nat, v \in Octet : Digits(256)[n][v] = 256 * n + v /\ 256 * n + v \in Nat
  BY GroupLoops
<1> DEFINE start == [acc |-> 0, bits |-> 0, ret |-> <<>>]
<1>1. start \in Narrow /\ 0 \in Nat
  BY DEF Narrow, Accumulator, NarrowBits
<1>2. <<start, 0, 0>> \in NarrowPairs
  <2>1. Value(32, <<>>) = 0
    BY FoldEmpty DEF Value
  <2>2. Remaining(start, 32, 0)
    BY <2>1, Shifts DEF Remaining
  <2>3. 5 * Len(start.ret) + start.bits = 8 * 0
    OBVIOUS
  <2> HIDE DEF start
  <2> QED
    BY <1>1, <2>2, <2>3, InNarrowPairs
<1>3. \A state \in Narrow, n \in Nat, i \in Nat, v \in Octet :
          <<state, n, i>> \in NarrowPairs
              => <<Accumulate(8, 5)[state][v], Digits(256)[n][v], i + 1>> \in NarrowPairs
  <2> SUFFICES ASSUME NEW state \in Narrow, NEW n \in Nat, NEW i \in Nat, NEW v \in Octet,
                      <<state, n, i>> \in NarrowPairs
               PROVE  <<Accumulate(8, 5)[state][v], Digits(256)[n][v], i + 1>> \in NarrowPairs
    OBVIOUS
  <2> DEFINE next == Accumulate(8, 5)[state][v]
             l == 256 * n + v
             j == i + 1
  <2>1. 5 * Len(state.ret) + state.bits = 8 * i /\ Remaining(state, 32, n)
    BY InNarrowPairs
  <2>2. /\ next \in Narrow
        /\ 5 * Len(next.ret) + next.bits = 8 * j
        /\ Remaining(next, 32, l)
    <3>1. /\ next \in Narrow
          /\ 5 * Len(next.ret) + next.bits = 5 * Len(state.ret) + state.bits + 8
          /\ Remaining(next, 32, l)
      BY <2>1, NarrowStep
    <3> HIDE DEF next, l
    <3> QED
      BY <2>1, <3>1
  <2>3. l \in Nat /\ Digits(256)[n][v] = l /\ j \in Nat
    <3>1. l \in Nat /\ Digits(256)[n][v] = l
      BY <1>0
    <3> QED
      BY <3>1
  <2> HIDE DEF next, l, j
  <2>4. <<next, l, j>> \in NarrowPairs
    BY <2>2, <2>3, InNarrowPairs
  <2> QED
    BY <2>3, <2>4 DEF next, j
<1> DEFINE step == Accumulate(8, 5)
           digits == Digits(256)
           state == Fold(step, start, p)
           n == Fold(digits, 0, p)
<1>5. Groups(p, 8, 5) = state
  BY Zenon DEF Groups, Fold
<1>6. Value(256, p) = n
  BY DEF Value
<1>7. Locked(Narrow, Nat, Octet, step, start, digits, 0, p, NarrowPairs)
  <2> HIDE DEF start
  <2>1. Steps(step, Narrow, Octet) /\ Steps(digits, Nat, Octet)
    BY GroupLoops
  <2> QED
    BY <1>1, <1>2, <1>3, <2>1 DEF Locked
<1> HIDE DEF step, digits, start
<1>8. state \in Narrow /\ n \in Nat /\ <<state, n, Len(p)>> \in NarrowPairs
  BY <1>7, Lockstep
<1> HIDE DEF state, n
<1>10. 5 * Len(state.ret) + state.bits = 8 * Len(p) /\ Remaining(state, 32, n)
  <2>1. Len(p) \in Nat
    OBVIOUS
  <2> QED
    BY <1>8, <2>1, InNarrowPairs
<1> QED
  BY <1>5, <1>6, <1>8, <1>10

\* The same for the words of a text.
WidePairs ==
    {h \in Wide \X Nat \X Nat :
        8 * Len(h[1].ret) + h[1].bits = 5 * h[3] /\ Remaining(h[1], 256, h[2])}
\* Membership, spelled out.
LEMMA InWidePairs ==
    ASSUME NEW state \in Wide, NEW n \in Nat, NEW i \in Nat
    PROVE  <<state, n, i>> \in WidePairs
               <=> 8 * Len(state.ret) + state.bits = 5 * i /\ Remaining(state, 256, n)
<1> DEFINE h == <<state, n, i>>
<1>1. h \in Wide \X Nat \X Nat /\ h[1] = state /\ h[2] = n /\ h[3] = i
  OBVIOUS
<1> HIDE DEF h
<1>2. h \in WidePairs
        <=> 8 * Len(h[1].ret) + h[1].bits = 5 * h[3] /\ Remaining(h[1], 256, h[2])
  BY <1>1 DEF WidePairs
<1> QED
  BY <1>1, <1>2 DEF h

\* What has been written of the groups of five bits in octets.
LEMMA Widened ==
    ASSUME NEW p \in Seq(Word)
    PROVE  LET state == Groups(p, 5, 8)
           IN  /\ state \in Wide
               /\ 8 * Len(state.ret) + state.bits = 5 * Len(p)
               /\ Value(32, p) \in Nat
               /\ Remaining(state, 256, Value(32, p))
<1>0. \A n \in Nat, v \in Word : Digits(32)[n][v] = 32 * n + v /\ 32 * n + v \in Nat
  BY GroupLoops
<1> DEFINE start == [acc |-> 0, bits |-> 0, ret |-> <<>>]
<1>1. start \in Wide /\ 0 \in Nat
  BY DEF Wide, Accumulator, WideBits
<1>2. <<start, 0, 0>> \in WidePairs
  <2>1. Value(256, <<>>) = 0
    BY FoldEmpty DEF Value
  <2>2. Remaining(start, 256, 0)
    BY <2>1, Shifts DEF Remaining
  <2>3. 8 * Len(start.ret) + start.bits = 5 * 0
    OBVIOUS
  <2> HIDE DEF start
  <2> QED
    BY <1>1, <2>2, <2>3, InWidePairs
<1>3. \A state \in Wide, n \in Nat, i \in Nat, v \in Word :
          <<state, n, i>> \in WidePairs
              => <<Accumulate(5, 8)[state][v], Digits(32)[n][v], i + 1>> \in WidePairs
  <2> SUFFICES ASSUME NEW state \in Wide, NEW n \in Nat, NEW i \in Nat, NEW v \in Word,
                      <<state, n, i>> \in WidePairs
               PROVE  <<Accumulate(5, 8)[state][v], Digits(32)[n][v], i + 1>> \in WidePairs
    OBVIOUS
  <2> DEFINE next == Accumulate(5, 8)[state][v]
             l == 32 * n + v
             j == i + 1
  <2>1. 8 * Len(state.ret) + state.bits = 5 * i /\ Remaining(state, 256, n)
    BY InWidePairs
  <2>2. /\ next \in Wide
        /\ 8 * Len(next.ret) + next.bits = 5 * j
        /\ Remaining(next, 256, l)
    <3>1. /\ next \in Wide
          /\ 8 * Len(next.ret) + next.bits = 8 * Len(state.ret) + state.bits + 5
          /\ Remaining(next, 256, l)
      BY <2>1, WidenStep
    <3> HIDE DEF next, l
    <3> QED
      BY <2>1, <3>1
  <2>3. l \in Nat /\ Digits(32)[n][v] = l /\ j \in Nat
    <3>1. l \in Nat /\ Digits(32)[n][v] = l
      BY <1>0
    <3> QED
      BY <3>1
  <2> HIDE DEF next, l, j
  <2>4. <<next, l, j>> \in WidePairs
    BY <2>2, <2>3, InWidePairs
  <2> QED
    BY <2>3, <2>4 DEF next, j
<1> DEFINE step == Accumulate(5, 8)
           digits == Digits(32)
           state == Fold(step, start, p)
           n == Fold(digits, 0, p)
<1>5. Groups(p, 5, 8) = state
  BY Zenon DEF Groups, Fold
<1>6. Value(32, p) = n
  BY DEF Value
<1>7. Locked(Wide, Nat, Word, step, start, digits, 0, p, WidePairs)
  <2> HIDE DEF start
  <2>1. Steps(step, Wide, Word) /\ Steps(digits, Nat, Word)
    BY GroupLoops
  <2> QED
    BY <1>1, <1>2, <1>3, <2>1 DEF Locked
<1> HIDE DEF step, digits, start
<1>8. state \in Wide /\ n \in Nat /\ <<state, n, Len(p)>> \in WidePairs
  BY <1>7, Lockstep
<1> HIDE DEF state, n
<1>10. 8 * Len(state.ret) + state.bits = 5 * Len(p) /\ Remaining(state, 256, n)
  <2>1. Len(p) \in Nat
    OBVIOUS
  <2> QED
    BY <1>8, <2>1, InWidePairs
<1> QED
  BY <1>5, <1>6, <1>8, <1>10

\* d holds the bits of p, filled up with pad zeros.
Filled(d, p, pad) ==
    /\ 5 * Len(d) = 8 * Len(p) + pad
    /\ Value(32, d) = Value(256, p) * Shift(pad)

\* The groups of a payload hold its bits, filled up with less than five zeros.
LEMMA PaddedHolds ==
    ASSUME NEW p \in Seq(Octet)
    PROVE  /\ PaddedGroups(p) \in Seq(Word)
           /\ Value(256, p) \in Nat
           /\ \E pad \in 0 .. 4 : Filled(PaddedGroups(p), p, pad)
<1> DEFINE state == Groups(p, 8, 5)
           acc == state.acc
           bits == state.bits
           ret == state.ret
           m == Value(32, ret)
           w == Value(256, p)
           len == Len(ret)
           l == Len(p)
           d == PaddedGroups(p)
<1>1. /\ state \in Narrow /\ w \in Nat /\ Remaining(state, 32, w) /\ 5 * len + bits = 8 * l
  BY Narrowed
<1>2. w = m * Shift(bits) + (acc % Shift(bits))
  BY <1>1 DEF Remaining
<1>3. d = IF bits = 0 THEN ret ELSE Append(ret, (acc * Shift(5 - bits)) % 32)
  BY Zenon DEF PaddedGroups
<1> HIDE DEF state
<1>0. acc \in Accumulator /\ bits \in NarrowBits /\ ret \in Seq(Word)
  BY <1>1, StateFields
<1> HIDE DEF acc, bits, ret
<1>4. acc \in 0 .. 4095 /\ bits \in 0 .. 4 /\ ret \in Seq(Word)
  BY <1>0 DEF Accumulator, NarrowBits
<1>5. m \in Nat
  <2>1. ret \in Seq(Nat)
    BY <1>4, GroupsAreNumbers
  <2> QED
    BY <2>1, ValueAppend, 0 \in Nat, 32 \in Bases DEF Bases
<1>6. len \in Nat /\ l \in Nat
  BY <1>4
<1> HIDE DEF w, d, m, len, l
<1>7. CASE bits = 0
  <2>1. w = m
    <3>1. w = m * 1 + (acc % 1)
      BY <1>2, <1>7, Shifts
    <3> QED
      BY <1>1, <1>4, <1>5, <3>1
  <2>2. d = ret
    BY <1>3, <1>7
  <2>3. 5 * len = 8 * l + 0
    BY <1>1, <1>6, <1>7
  <2>4. m = w * Shift(0)
    BY <1>5, <2>1, Shifts
  <2>5. Filled(d, p, 0)
    BY <2>2, <2>3, <2>4 DEF Filled, m, w, len, l
  <2> QED
    BY <1>1, <1>4, <2>2, <2>5 DEF d, w
<1>8. CASE bits = 1
  <2> DEFINE g == (acc * 16) % 32
             r == ret \o <<g>>
             x == acc % 2
             v == Value(32, r)
  <2>1. w = m * 2 + x
    BY <1>2, <1>8, Shifts
  <2>2. g = 16 * x /\ x \in Nat /\ g \in Word /\ g \in Nat
    BY <1>4 DEF Word
  <2>3. d = Append(ret, g)
    BY <1>3, <1>8, Shifts
  <2> HIDE DEF g, x
  <2>4. d = r
    BY <1>4, <2>2, <2>3, AppendIsConcat
  <2>5. r \in Seq(Word) /\ Len(r) = len + 1 /\ v = 32 * m + g
    BY <1>4, <2>2, WordGroup DEF m, len
  <2> HIDE DEF r, v
  <2>6. 5 * Len(r) = 8 * l + 4
    BY <1>1, <1>6, <1>8, <2>5
  <2>7. v = w * 16
    BY ONLY <1>5, <2>1, <2>2, <2>5
  <2>8. Filled(r, p, 4)
    BY <2>6, <2>7, Shifts DEF Filled, v, w, l
  <2> QED
    BY <1>1, <2>4, <2>5, <2>8 DEF d, w
<1>9. CASE bits = 2
  <2> DEFINE g == (acc * 8) % 32
             r == ret \o <<g>>
             x == acc % 4
             v == Value(32, r)
  <2>1. w = m * 4 + x
    BY <1>2, <1>9, Shifts
  <2>2. g = 8 * x /\ x \in Nat /\ g \in Word /\ g \in Nat
    BY <1>4 DEF Word
  <2>3. d = Append(ret, g)
    BY <1>3, <1>9, Shifts
  <2> HIDE DEF g, x
  <2>4. d = r
    BY <1>4, <2>2, <2>3, AppendIsConcat, SMTT(40)
  <2>5. r \in Seq(Word) /\ Len(r) = len + 1 /\ v = 32 * m + g
    BY <1>4, <2>2, WordGroup DEF m, len
  <2> HIDE DEF r, v
  <2>6. 5 * Len(r) = 8 * l + 3
    BY <1>1, <1>6, <1>9, <2>5
  <2>7. v = w * 8
    BY ONLY <1>5, <2>1, <2>2, <2>5
  <2>8. Filled(r, p, 3)
    BY <2>6, <2>7, Shifts DEF Filled, v, w, l
  <2> QED
    BY <1>1, <2>4, <2>5, <2>8 DEF d, w
<1>10. CASE bits = 3
  <2> DEFINE g == (acc * 4) % 32
             r == ret \o <<g>>
             x == acc % 8
             v == Value(32, r)
  <2>1. w = m * 8 + x
    BY <1>2, <1>10, Shifts
  <2>2. g = 4 * x /\ x \in Nat /\ g \in Word /\ g \in Nat
    BY <1>4 DEF Word
  <2>3. d = Append(ret, g)
    BY <1>3, <1>10, Shifts
  <2> HIDE DEF g, x
  <2>4. d = r
    BY <1>4, <2>2, <2>3, AppendIsConcat, SMTT(40)
  <2>5. r \in Seq(Word) /\ Len(r) = len + 1 /\ v = 32 * m + g
    BY <1>4, <2>2, WordGroup DEF m, len
  <2> HIDE DEF r, v
  <2>6. 5 * Len(r) = 8 * l + 2
    BY <1>1, <1>6, <1>10, <2>5
  <2>7. v = w * 4
    BY ONLY <1>5, <2>1, <2>2, <2>5
  <2>8. Filled(r, p, 2)
    BY <2>6, <2>7, Shifts DEF Filled, v, w, l
  <2> QED
    BY <1>1, <2>4, <2>5, <2>8 DEF d, w
<1>11. CASE bits = 4
  <2> DEFINE g == (acc * 2) % 32
             r == ret \o <<g>>
             x == acc % 16
             v == Value(32, r)
  <2>1. w = m * 16 + x
    BY <1>2, <1>11, Shifts
  <2>2. g = 2 * x /\ x \in Nat /\ g \in Word /\ g \in Nat
    BY <1>4 DEF Word
  <2>3. d = Append(ret, g)
    BY <1>3, <1>11, Shifts
  <2> HIDE DEF g, x
  <2>4. d = r
    BY <1>4, <2>2, <2>3, AppendIsConcat
  <2>5. r \in Seq(Word) /\ Len(r) = len + 1 /\ v = 32 * m + g
    BY <1>4, <2>2, WordGroup DEF m, len
  <2> HIDE DEF r, v
  <2>6. 5 * Len(r) = 8 * l + 1
    BY <1>1, <1>6, <1>11, <2>5
  <2>7. v = w * 2
    BY ONLY <1>5, <2>1, <2>2, <2>5
  <2>8. Filled(r, p, 1)
    BY <2>6, <2>7, Shifts DEF Filled, v, w, l
  <2> QED
    BY <1>1, <2>4, <2>5, <2>8 DEF d, w
<1> QED
  BY <1>4, <1>7, <1>8, <1>9, <1>10, <1>11

\* Less than a group, and zeros, are left: the text holds nothing but the payload.
LEMMA PaddingZero ==
    ASSUME NEW d \in Seq(Word)
    PROVE  LET state == Groups(d, 5, 8)
           IN  PaddingOK(state) <=> state.bits \in 0 .. 4 /\ Filled(d, state.ret, state.bits)
<1> DEFINE state == Groups(d, 5, 8)
           acc == state.acc
           bits == state.bits
           ret == state.ret
           m == Value(256, ret)
           w == Value(32, d)
           len == Len(ret)
           l == Len(d)
<1>1. /\ state \in Wide /\ w \in Nat /\ Remaining(state, 256, w) /\ 8 * len + bits = 5 * l
  BY Widened
<1>2. w = m * Shift(bits) + (acc % Shift(bits))
  BY <1>1 DEF Remaining
<1>3. PaddingOK(state) <=> bits < 5 /\ (acc * Shift(8 - bits)) % 256 = 0
  BY DEF PaddingOK
<1> HIDE DEF state
<1>0. acc \in Accumulator /\ bits \in WideBits /\ ret \in Seq(Octet)
  BY <1>1, StateFields
<1> HIDE DEF acc, bits, ret
<1>4. acc \in 0 .. 4095 /\ bits \in 0 .. 7 /\ ret \in Seq(Octet)
  BY <1>0 DEF Accumulator, WideBits
<1>5. m \in Nat
  <2>1. ret \in Seq(Nat)
    BY <1>4, GroupsAreNumbers
  <2> QED
    BY <2>1, ValueAppend, 0 \in Nat, 256 \in Bases DEF Bases
<1>6. len \in Nat /\ l \in Nat
  BY <1>4
<1>7. Filled(d, ret, bits) <=> w = m * Shift(bits)
  <2>1. Filled(d, ret, bits) <=> 5 * l = 8 * len + bits /\ w = m * Shift(bits)
    BY DEF Filled
  <2> HIDE DEF l, len, w, m
  <2> QED
    BY <1>1, <1>4, <1>6, <2>1
<1> HIDE DEF w, m, len, l
<1>8. bits > 4 => ~ PaddingOK(state) /\ bits \notin 0 .. 4
  BY <1>3, <1>4
<1>9. CASE bits = 0
  <2> DEFINE x == acc % 1
  <2>1. w = m * 1 + x /\ (w = m * Shift(bits) <=> w = m * 1)
    BY <1>2, <1>9, Shifts
  <2>2. (acc * 256) % 256 = 0 <=> x = 0
    BY <1>4
  <2>3. x \in Nat
    BY <1>4
  <2>4. PaddingOK(state) <=> (acc * 256) % 256 = 0
    BY <1>3, <1>9, Shifts
  <2> HIDE DEF x
  <2>5. w = m * 1 <=> x = 0
    BY ONLY <1>1, <1>5, <2>1, <2>3
  <2> QED
    BY <1>7, <1>9, <2>1, <2>2, <2>4, <2>5 DEF state, bits, ret
<1>10. CASE bits = 1
  <2> DEFINE x == acc % 2
  <2>1. w = m * 2 + x /\ (w = m * Shift(bits) <=> w = m * 2)
    BY <1>2, <1>10, Shifts
  <2>2. (acc * 128) % 256 = 0 <=> x = 0
    BY <1>4
  <2>3. x \in Nat
    BY <1>4
  <2>4. PaddingOK(state) <=> (acc * 128) % 256 = 0
    BY <1>3, <1>10, Shifts
  <2> HIDE DEF x
  <2>5. w = m * 2 <=> x = 0
    BY ONLY <1>1, <1>5, <2>1, <2>3
  <2> QED
    BY <1>7, <1>10, <2>1, <2>2, <2>4, <2>5 DEF state, bits, ret
<1>11. CASE bits = 2
  <2> DEFINE x == acc % 4
  <2>1. w = m * 4 + x /\ (w = m * Shift(bits) <=> w = m * 4)
    BY <1>2, <1>11, Shifts
  <2>2. (acc * 64) % 256 = 0 <=> x = 0
    BY <1>4
  <2>3. x \in Nat
    BY <1>4
  <2>4. PaddingOK(state) <=> (acc * 64) % 256 = 0
    BY <1>3, <1>11, Shifts
  <2> HIDE DEF x
  <2>5. w = m * 4 <=> x = 0
    BY ONLY <1>1, <1>5, <2>1, <2>3
  <2> QED
    BY <1>7, <1>11, <2>1, <2>2, <2>4, <2>5 DEF state, bits, ret
<1>12. CASE bits = 3
  <2> DEFINE x == acc % 8
  <2>1. w = m * 8 + x /\ (w = m * Shift(bits) <=> w = m * 8)
    BY <1>2, <1>12, Shifts
  <2>2. (acc * 32) % 256 = 0 <=> x = 0
    BY <1>4
  <2>3. x \in Nat
    BY <1>4
  <2>4. PaddingOK(state) <=> (acc * 32) % 256 = 0
    BY <1>3, <1>12, Shifts
  <2> HIDE DEF x
  <2>5. w = m * 8 <=> x = 0
    BY ONLY <1>1, <1>5, <2>1, <2>3
  <2> QED
    BY <1>7, <1>12, <2>1, <2>2, <2>4, <2>5 DEF state, bits, ret
<1>13. CASE bits = 4
  <2> DEFINE x == acc % 16
  <2>1. w = m * 16 + x /\ (w = m * Shift(bits) <=> w = m * 16)
    BY <1>2, <1>13, Shifts
  <2>2. (acc * 16) % 256 = 0 <=> x = 0
    BY <1>4
  <2>3. x \in Nat
    BY <1>4
  <2>4. PaddingOK(state) <=> (acc * 16) % 256 = 0
    BY <1>3, <1>13, Shifts
  <2> HIDE DEF x
  <2>5. w = m * 16 <=> x = 0
    BY ONLY <1>1, <1>5, <2>1, <2>3
  <2> QED
    BY <1>7, <1>13, <2>1, <2>2, <2>4, <2>5 DEF state, bits, ret
<1>14. bits > 4 \/ bits = 0 \/ bits = 1 \/ bits = 2 \/ bits = 3 \/ bits = 4
  BY <1>4
<1> QED
  BY <1>8, <1>9, <1>10, <1>11, <1>12, <1>13, <1>14 DEF state, bits, ret

\* Digits of the two bases.
LEMMA SameGroups ==
    /\ \A s \in Seq(Octet), t \in Seq(Octet) :
           Len(s) = Len(t) /\ Value(256, s) = Value(256, t) => s = t
    /\ \A s \in Seq(Word), t \in Seq(Word) :
           Len(s) = Len(t) /\ Value(32, s) = Value(32, t) => s = t
<1>1. ASSUME NEW s \in Seq(Octet), NEW t \in Seq(Octet),
             Len(s) = Len(t), Value(256, s) = Value(256, t)
      PROVE  s = t
  <2> DEFINE B == 256
  <2>1. B \in Bases /\ Octet = 0 .. (B - 1)
    BY DEF Bases, Octet
  <2>2. Value(B, s) = Value(B, t)
    BY <1>1
  <2> HIDE DEF B
  <2> QED
    BY <1>1, <2>1, <2>2, SameValue
<1>2. ASSUME NEW s \in Seq(Word), NEW t \in Seq(Word),
             Len(s) = Len(t), Value(32, s) = Value(32, t)
      PROVE  s = t
  <2> DEFINE B == 32
  <2>1. B \in Bases /\ Word = 0 .. (B - 1)
    BY DEF Bases, Word
  <2>2. Value(B, s) = Value(B, t)
    BY <1>2
  <2> HIDE DEF B
  <2> QED
    BY <1>2, <2>1, <2>2, SameValue
<1> QED
  BY <1>1, <1>2

\* Numbers with the same multiple, up to less than the factor.
LEMMA SameMultiple ==
    ASSUME NEW pad \in 0 .. 4, NEW m \in Nat, NEW l \in Nat, NEW a \in Nat,
           m * Shift(pad) + (a % Shift(pad)) = l * Shift(pad)
    PROVE  m = l
<1>1. CASE pad = 0
  <2>1. m * 1 + (a % 1) = l * 1
    BY <1>1, Shifts
  <2> QED
    BY ONLY <2>1, m \in Nat, l \in Nat, a \in Nat
<1>2. CASE pad = 1
  <2>1. m * 2 + (a % 2) = l * 2
    BY <1>2, Shifts
  <2> QED
    BY ONLY <2>1, m \in Nat, l \in Nat, a \in Nat
<1>3. CASE pad = 2
  <2>1. m * 4 + (a % 4) = l * 4
    BY <1>3, Shifts
  <2> QED
    BY ONLY <2>1, m \in Nat, l \in Nat, a \in Nat
<1>4. CASE pad = 3
  <2>1. m * 8 + (a % 8) = l * 8
    BY <1>4, Shifts
  <2> QED
    BY ONLY <2>1, m \in Nat, l \in Nat, a \in Nat
<1>5. CASE pad = 4
  <2>1. m * 16 + (a % 16) = l * 16
    BY <1>5, Shifts
  <2> QED
    BY ONLY <2>1, m \in Nat, l \in Nat, a \in Nat
<1> QED
  BY <1>1, <1>2, <1>3, <1>4, <1>5

\* The groups of a payload give the payload back.
LEMMA GroupsReadBack ==
    ASSUME NEW p \in Seq(Octet)
    PROVE  LET state == Groups(PaddedGroups(p), 5, 8)
           IN  PaddingOK(state) /\ state.ret = p
<1> DEFINE d == PaddedGroups(p)
           state == Groups(d, 5, 8)
           acc == state.acc
           bits == state.bits
           ret == state.ret
<1>1. d \in Seq(Word) /\ Value(256, p) \in Nat
  BY PaddedHolds
<1>2. PICK pad \in 0 .. 4 : Filled(d, p, pad)
  BY PaddedHolds
<1> HIDE DEF d
<1>3. /\ state \in Wide /\ Remaining(state, 256, Value(32, d)) /\ 8 * Len(ret) + bits = 5 * Len(d)
  BY <1>1, Widened
<1>4. PaddingOK(state) <=> bits \in 0 .. 4 /\ Filled(d, ret, bits)
  BY <1>1, PaddingZero
<1>5. Value(32, d) = Value(256, ret) * Shift(bits) + (acc % Shift(bits))
  BY <1>3 DEF Remaining
<1> HIDE DEF state
<1>6. acc \in Nat /\ bits \in 0 .. 7 /\ ret \in Seq(Octet)
  <2> DEFINE a == acc
  <2>1. a \in Accumulator /\ bits \in WideBits /\ ret \in Seq(Octet)
    BY <1>3, StateFields
  <2> HIDE DEF a
  <2>2. a \in Nat /\ bits \in 0 .. 7
    BY <2>1 DEF Accumulator, WideBits
  <2> QED
    BY <2>1, <2>2 DEF a
<1> HIDE DEF acc, bits, ret
<1>7. 5 * Len(d) = 8 * Len(p) + pad /\ Value(32, d) = Value(256, p) * Shift(pad)
  BY <1>2 DEF Filled
<1>8. Len(ret) = Len(p) /\ bits = pad
  <2> DEFINE x == Len(ret)
             y == Len(p)
             z == Len(d)
  <2>1. x \in Nat /\ y \in Nat /\ z \in Nat
    BY <1>1, <1>6
  <2>2. 8 * x + bits = 5 * z /\ 5 * z = 8 * y + pad
    BY <1>3, <1>7
  <2> HIDE DEF x, y, z
  <2>3. x = y /\ bits = pad
    BY <1>2, <1>6, <2>1, <2>2
  <2> QED
    BY <2>3 DEF x, y
<1>9. Value(256, ret) \in Nat
  <2>1. ret \in Seq(Nat)
    BY <1>6, GroupsAreNumbers
  <2> QED
    BY <2>1, ValueAppend, 0 \in Nat, 256 \in Bases DEF Bases
<1>10. Value(256, ret) = Value(256, p)
  <2> DEFINE m == Value(256, ret)
             l == Value(256, p)
  <2>1. m \in Nat /\ l \in Nat /\ m * Shift(pad) + (acc % Shift(pad)) = l * Shift(pad)
    BY <1>1, <1>5, <1>7, <1>8, <1>9
  <2> HIDE DEF m, l
  <2>2. m = l
    BY <1>2, <1>6, <2>1, SameMultiple
  <2> QED
    BY <2>2 DEF m, l
<1>11. ret = p
  BY <1>6, <1>8, <1>10, SameGroups
<1>12. PaddingOK(state)
  BY <1>2, <1>4, <1>8, <1>11
<1> QED
  BY <1>11, <1>12 DEF state, d, ret

\* Groups that hold nothing but a payload are those of the payload.
LEMMA GroupsCanonical ==
    ASSUME NEW d \in Seq(Word), PaddingOK(Groups(d, 5, 8))
    PROVE  /\ Groups(d, 5, 8).ret \in Seq(Octet)
           /\ PaddedGroups(Groups(d, 5, 8).ret) = d
<1> DEFINE state == Groups(d, 5, 8)
           bits == state.bits
           ret == state.ret
           e == PaddedGroups(ret)
<1>1. state \in Wide /\ bits \in 0 .. 4 /\ Filled(d, ret, bits)
  BY Widened, PaddingZero
<1>2. ret \in Seq(Octet)
  BY <1>1, StateFields
<1> HIDE DEF state, bits, ret
<1>3. e \in Seq(Word)
  BY <1>2, PaddedHolds
<1>4. PICK pad \in 0 .. 4 : Filled(e, ret, pad)
  BY <1>2, PaddedHolds
<1> HIDE DEF e
<1>5. /\ 5 * Len(d) = 8 * Len(ret) + bits /\ Value(32, d) = Value(256, ret) * Shift(bits)
      /\ 5 * Len(e) = 8 * Len(ret) + pad /\ Value(32, e) = Value(256, ret) * Shift(pad)
  BY <1>1, <1>4 DEF Filled
<1>6. Len(d) = Len(e) /\ bits = pad
  <2> DEFINE x == Len(d)
             y == Len(e)
             z == Len(ret)
  <2>1. x \in Nat /\ y \in Nat /\ z \in Nat
    BY <1>2, <1>3
  <2>2. 5 * x = 8 * z + bits /\ 5 * y = 8 * z + pad
    BY <1>5
  <2> HIDE DEF x, y, z
  <2>3. x = y /\ bits = pad
    BY <1>1, <1>4, <2>1, <2>2
  <2> QED
    BY <2>3 DEF x, y
<1>7. Value(32, d) = Value(32, e)
  BY <1>5, <1>6
<1>8. d = e
  BY <1>3, <1>6, <1>7, SameGroups
<1> QED
  BY <1>2, <1>8 DEF e, ret, state

-----------------------------------------------------------------------------
(* Texts.                                                                  *)

\* What each word is written as.
LEMMA CharsetTable ==
    /\ CHARSET \in Seq(Character) /\ Len(CHARSET) = 32
    /\ CHARSET[1] = 113
    /\ CHARSET[2] = 112
    /\ CHARSET[3] = 122
    /\ CHARSET[4] = 114
    /\ CHARSET[5] = 121
    /\ CHARSET[6] = 57
    /\ CHARSET[7] = 120
    /\ CHARSET[8] = 56
    /\ CHARSET[9] = 103
    /\ CHARSET[10] = 102
    /\ CHARSET[11] = 50
    /\ CHARSET[12] = 116
    /\ CHARSET[13] = 118
    /\ CHARSET[14] = 100
    /\ CHARSET[15] = 119
    /\ CHARSET[16] = 48
    /\ CHARSET[17] = 115
    /\ CHARSET[18] = 51
    /\ CHARSET[19] = 106
    /\ CHARSET[20] = 110
    /\ CHARSET[21] = 53
    /\ CHARSET[22] = 52
    /\ CHARSET[23] = 107
    /\ CHARSET[24] = 104
    /\ CHARSET[25] = 99
    /\ CHARSET[26] = 101
    /\ CHARSET[27] = 54
    /\ CHARSET[28] = 109
    /\ CHARSET[29] = 117
    /\ CHARSET[30] = 97
    /\ CHARSET[31] = 55
    /\ CHARSET[32] = 108
<1>1. CHARSET \in Seq(Character) /\ Len(CHARSET) = 32
  BY SMT DEF CHARSET, Character
<1>2. /\ CHARSET[1] = 113
      /\ CHARSET[2] = 112
      /\ CHARSET[3] = 122
      /\ CHARSET[4] = 114
      /\ CHARSET[5] = 121
      /\ CHARSET[6] = 57
      /\ CHARSET[7] = 120
      /\ CHARSET[8] = 56
      /\ CHARSET[9] = 103
      /\ CHARSET[10] = 102
      /\ CHARSET[11] = 50
      /\ CHARSET[12] = 116
      /\ CHARSET[13] = 118
      /\ CHARSET[14] = 100
      /\ CHARSET[15] = 119
      /\ CHARSET[16] = 48
      /\ CHARSET[17] = 115
      /\ CHARSET[18] = 51
      /\ CHARSET[19] = 106
      /\ CHARSET[20] = 110
      /\ CHARSET[21] = 53
      /\ CHARSET[22] = 52
      /\ CHARSET[23] = 107
      /\ CHARSET[24] = 104
      /\ CHARSET[25] = 99
      /\ CHARSET[26] = 101
      /\ CHARSET[27] = 54
      /\ CHARSET[28] = 109
      /\ CHARSET[29] = 117
      /\ CHARSET[30] = 97
      /\ CHARSET[31] = 55
      /\ CHARSET[32] = 108
  BY SMT DEF CHARSET
<1> QED
  BY ONLY <1>1, <1>2

\* The word that a character stands for.
Meaning == [x \in Character |->
    CASE x = 113 -> 0
      [] x = 112 -> 1
      [] x = 122 -> 2
      [] x = 114 -> 3
      [] x = 121 -> 4
      [] x = 57 -> 5
      [] x = 120 -> 6
      [] x = 56 -> 7
      [] x = 103 -> 8
      [] x = 102 -> 9
      [] x = 50 -> 10
      [] x = 116 -> 11
      [] x = 118 -> 12
      [] x = 100 -> 13
      [] x = 119 -> 14
      [] x = 48 -> 15
      [] x = 115 -> 16
      [] x = 51 -> 17
      [] x = 106 -> 18
      [] x = 110 -> 19
      [] x = 53 -> 20
      [] x = 52 -> 21
      [] x = 107 -> 22
      [] x = 104 -> 23
      [] x = 99 -> 24
      [] x = 101 -> 25
      [] x = 54 -> 26
      [] x = 109 -> 27
      [] x = 117 -> 28
      [] x = 97 -> 29
      [] x = 55 -> 30
      [] x = 108 -> 31
      [] OTHER -> 32]

\* Words are written as small letters and digits other than the separator, each
\* as a character of its own.
LEMMA CharsetFacts ==
    \A d \in Word :
        /\ CHARSET[d + 1] \in Character
        /\ CHARSET[d + 1] # Separator /\ ~ IsUpper(CHARSET[d + 1])
        /\ Meaning[CHARSET[d + 1]] = d
<1> SUFFICES ASSUME NEW d \in Word
             PROVE  /\ CHARSET[d + 1] \in Character
                    /\ CHARSET[d + 1] # Separator /\ ~ IsUpper(CHARSET[d + 1])
                    /\ Meaning[CHARSET[d + 1]] = d
  OBVIOUS
<1> DEFINE x == CHARSET[d + 1]
<1>1. \/ d = 0 /\ x = 113
      \/ d = 1 /\ x = 112
      \/ d = 2 /\ x = 122
      \/ d = 3 /\ x = 114
      \/ d = 4 /\ x = 121
      \/ d = 5 /\ x = 57
      \/ d = 6 /\ x = 120
      \/ d = 7 /\ x = 56
      \/ d = 8 /\ x = 103
      \/ d = 9 /\ x = 102
      \/ d = 10 /\ x = 50
      \/ d = 11 /\ x = 116
      \/ d = 12 /\ x = 118
      \/ d = 13 /\ x = 100
      \/ d = 14 /\ x = 119
      \/ d = 15 /\ x = 48
      \/ d = 16 /\ x = 115
      \/ d = 17 /\ x = 51
      \/ d = 18 /\ x = 106
      \/ d = 19 /\ x = 110
      \/ d = 20 /\ x = 53
      \/ d = 21 /\ x = 52
      \/ d = 22 /\ x = 107
      \/ d = 23 /\ x = 104
      \/ d = 24 /\ x = 99
      \/ d = 25 /\ x = 101
      \/ d = 26 /\ x = 54
      \/ d = 27 /\ x = 109
      \/ d = 28 /\ x = 117
      \/ d = 29 /\ x = 97
      \/ d = 30 /\ x = 55
      \/ d = 31 /\ x = 108
  BY CharsetTable DEF Word
<1> HIDE DEF x
<1>2. x \in Character /\ x # Separator /\ ~ IsUpper(x) /\ Meaning[x] = d
  BY ONLY <1>1 DEF Character, Separator, IsUpper, Meaning
<1> QED
  BY <1>2 DEF x

\* A character that stands for a word is the one the word is written as.
LEMMA SymbolFacts ==
    /\ \A d \in Word : CHARSET[d + 1] \in DOMAIN Symbol /\ Symbol[CHARSET[d + 1]] = d
    /\ \A x \in DOMAIN Symbol :
           x \in Character /\ Symbol[x] \in Word /\ CHARSET[Symbol[x] + 1] = x
<1>1. \A x : x \in DOMAIN Symbol <=> \E d \in Word : CHARSET[d + 1] = x
  <2>1. DOMAIN CHARSET = 1 .. 32
    BY CharsetTable
  <2>2. DOMAIN Symbol = {CHARSET[i] : i \in 1 .. 32}
    BY <2>1 DEF Symbol, Range
  <2>3. \A d \in Word : d + 1 \in 1 .. 32
    BY DEF Word
  <2>4. \A i \in 1 .. 32 : i - 1 \in Word /\ (i - 1) + 1 = i
    BY DEF Word
  <2> QED
    BY <2>2, <2>3, <2>4
<1>2. ASSUME NEW x \in DOMAIN Symbol PROVE Symbol[x] \in Word /\ CHARSET[Symbol[x] + 1] = x
  <2>1. \E d \in Word : CHARSET[d + 1] = x
    BY <1>1
  <2>2. Symbol[x] = CHOOSE d \in Word : CHARSET[d + 1] = x
    BY DEF Symbol
  <2> QED
    BY <2>1, <2>2
<1>3. ASSUME NEW d \in Word PROVE CHARSET[d + 1] \in DOMAIN Symbol /\ Symbol[CHARSET[d + 1]] = d
  <2> DEFINE x == CHARSET[d + 1]
             e == Symbol[x]
  <2>1. x \in DOMAIN Symbol
    BY <1>1
  <2>2. e \in Word /\ CHARSET[e + 1] = x
    BY <1>2, <2>1
  <2>3. Meaning[x] = d /\ Meaning[CHARSET[e + 1]] = e
    BY <2>2, CharsetFacts
  <2> QED
    BY <2>1, <2>2, <2>3
<1>4. ASSUME NEW x \in DOMAIN Symbol PROVE x \in Character
  BY <1>1, CharsetFacts
<1> QED
  BY <1>2, <1>3, <1>4

\* A text of encode_address: no capitals.
Small(s) == s \in Seq(Character) /\ \A i \in DOMAIN s : ~ IsUpper(s[i])

\* One character.
LEMMA CharacterCase ==
    /\ \A x \in Nat : /\ (IF IsUpper(x) THEN x + 32 ELSE x) \in Nat
                      /\ (IF IsLower(x) THEN x - 32 ELSE x) \in Nat
    /\ \A x \in Character, u \in Nat :
           ~ IsUpper(x) /\ u = (IF IsLower(x) THEN x - 32 ELSE x)
               => /\ u \in 33 .. 126 /\ x \in 33 .. 126 /\ ~ IsLower(u)
                  /\ (IF IsUpper(u) THEN u + 32 ELSE u) = x
BY DEF Character, IsUpper, IsLower

\* Small letters and capitals of a text.
LEMMA LowerUpper ==
    ASSUME NEW s \in Seq(Nat)
    PROVE  /\ Lower(s) \in Seq(Nat) /\ Len(Lower(s)) = Len(s)
           /\ Upper(s) \in Seq(Nat) /\ Len(Upper(s)) = Len(s)
           /\ \A i \in 1 .. Len(s) :
                  /\ Lower(s)[i] = IF IsUpper(s[i]) THEN s[i] + 32 ELSE s[i]
                  /\ Upper(s)[i] = IF IsLower(s[i]) THEN s[i] - 32 ELSE s[i]
<1> DEFINE n == Len(s)
           lower == Lower(s)
           upper == Upper(s)
<1>1. n \in Nat /\ DOMAIN s = 1 .. n /\ \A i \in 1 .. n : s[i] \in Nat
  OBVIOUS
<1> HIDE DEF n
<1>2. \A i \in 1 .. n : /\ lower[i] = IF IsUpper(s[i]) THEN s[i] + 32 ELSE s[i]
                        /\ upper[i] = IF IsLower(s[i]) THEN s[i] - 32 ELSE s[i]
  BY <1>1 DEF Lower, Upper
<1>3. \A i \in 1 .. n : lower[i] \in Nat /\ upper[i] \in Nat
  BY <1>1, <1>2, CharacterCase
<1>4. lower = [i \in 1 .. n |-> lower[i]] /\ upper = [i \in 1 .. n |-> upper[i]]
  BY <1>1 DEF Lower, Upper
<1> HIDE DEF lower, upper
<1>5. lower \in [1 .. n -> Nat] /\ upper \in [1 .. n -> Nat]
  BY <1>3, <1>4
<1>6. lower \in Seq(Nat) /\ Len(lower) = n /\ upper \in Seq(Nat) /\ Len(upper) = n
  BY <1>1, <1>5, FunctionSeq
<1> QED
  BY <1>2, <1>6 DEF lower, upper, n

\* A text without capitals, and the same in capitals, mean the same.
LEMMA SmallFacts ==
    ASSUME NEW s, Small(s)
    PROVE  /\ s \in Seq(Nat) /\ Upper(s) \in Seq(Nat)
           /\ Lower(s) = s /\ Lower(Upper(s)) = s /\ Upper(Upper(s)) = Upper(s)
           /\ ~ MixedCase(s) /\ ~ MixedCase(Upper(s))
           /\ \A i \in DOMAIN s : s[i] \in 33 .. 126
           /\ \A i \in DOMAIN Upper(s) : Upper(s)[i] \in 33 .. 126
<1> DEFINE n == Len(s)
           u == Upper(s)
           l == Lower(s)
           lu == Lower(u)
           uu == Upper(u)
<1>1. Character \subseteq Nat
  BY DEF Character
<1>2. s \in Seq(Character) /\ DOMAIN s = 1 .. n /\ n \in Nat /\ \A i \in 1 .. n : ~ IsUpper(s[i])
  BY DEF Small
<1>3. s \in Seq(Nat)
  BY <1>1, <1>2, SeqMonotonic
<1>4. \A i \in 1 .. n : s[i] \in Character
  BY <1>2
<1>5. /\ l \in Seq(Nat) /\ Len(l) = n /\ u \in Seq(Nat) /\ Len(u) = n
      /\ \A i \in 1 .. n : /\ l[i] = IF IsUpper(s[i]) THEN s[i] + 32 ELSE s[i]
                           /\ u[i] = IF IsLower(s[i]) THEN s[i] - 32 ELSE s[i]
  BY <1>3, LowerUpper
<1> HIDE DEF l, u
<1>6. /\ lu \in Seq(Nat) /\ Len(lu) = n /\ uu \in Seq(Nat) /\ Len(uu) = n
      /\ \A i \in 1 .. n : /\ lu[i] = IF IsUpper(u[i]) THEN u[i] + 32 ELSE u[i]
                           /\ uu[i] = IF IsLower(u[i]) THEN u[i] - 32 ELSE u[i]
  BY <1>5, LowerUpper
<1> HIDE DEF lu, uu, n
<1>7. \A i \in 1 .. n : /\ l[i] = s[i] /\ lu[i] = s[i] /\ uu[i] = u[i]
                        /\ u[i] \in 33 .. 126 /\ s[i] \in 33 .. 126 /\ ~ IsLower(u[i])
  <2> SUFFICES ASSUME NEW i \in 1 .. n
               PROVE  /\ l[i] = s[i] /\ lu[i] = s[i] /\ uu[i] = u[i]
                      /\ u[i] \in 33 .. 126 /\ s[i] \in 33 .. 126 /\ ~ IsLower(u[i])
    OBVIOUS
  <2> DEFINE x == s[i]
             y == u[i]
  <2>1. x \in Character /\ ~ IsUpper(x)
    BY <1>2, <1>4
  <2>2. y \in Nat /\ y = IF IsLower(x) THEN x - 32 ELSE x
    BY <1>5, n \in Nat DEF n
  <2>3. /\ l[i] = IF IsUpper(x) THEN x + 32 ELSE x
        /\ lu[i] = IF IsUpper(y) THEN y + 32 ELSE y
        /\ uu[i] = IF IsLower(y) THEN y - 32 ELSE y
    BY <1>5, <1>6
  <2> HIDE DEF x, y
  <2>4. y \in 33 .. 126 /\ x \in 33 .. 126 /\ ~ IsLower(y) /\ (IF IsUpper(y) THEN y + 32 ELSE y) = x
    BY <2>1, <2>2, CharacterCase
  <2> QED
    BY <2>1, <2>3, <2>4 DEF x, y
<1>8. l = s
  BY <1>3, <1>5, <1>7, SeqEqual DEF n
<1>9. lu = s
  BY <1>3, <1>6, <1>7, SeqEqual DEF n
<1>10. uu = u
  BY <1>5, <1>6, <1>7, SeqEqual DEF n
<1>11. DOMAIN u = 1 .. n
  BY <1>5
<1>12. ~ MixedCase(s)
  BY <1>2, Zenon DEF MixedCase
<1>13. ~ MixedCase(u)
  BY <1>7, <1>11, Zenon DEF MixedCase
<1>14. \A i \in DOMAIN s : s[i] \in 33 .. 126
  BY <1>2, <1>7
<1>15. \A i \in DOMAIN u : u[i] \in 33 .. 126
  BY <1>7, <1>11
<1>16. Upper(s) = u /\ Lower(s) = l /\ Lower(Upper(s)) = lu /\ Upper(Upper(s)) = uu
  BY Zenon DEF u, l, lu, uu
<1> HIDE DEF u, l, lu, uu
<1>17. Upper(s) = u /\ Lower(s) = s /\ Lower(u) = s /\ Upper(u) = u
  BY <1>8, <1>9, <1>10, <1>16, Zenon
<1>18. u \in Seq(Nat)
  BY <1>5
<1> QED
  BY ONLY <1>3, <1>12, <1>13, <1>14, <1>15, <1>17, <1>18, Zenon

\* The texts that prefixes are made of.
LEMMA PrefixParts ==
    /\ \A t \in Types : Small(TypePrefix[t])
    /\ \A n \in Networks : Small(NetworkSuffix[n])
    /\ Len(TypePrefix["unshielded"]) = 7 /\ TypePrefix["unshielded"][4] = 97
    /\ Len(TypePrefix["shielded"]) = 14 /\ TypePrefix["shielded"][4] = 115
    /\ Len(TypePrefix["dust"]) = 7 /\ TypePrefix["dust"][4] = 100
    /\ Len(NetworkSuffix["mainnet"]) = 0
    /\ Len(NetworkSuffix["preprod"]) = 8 /\ NetworkSuffix["preprod"][5] = 112
    /\ Len(NetworkSuffix["preview"]) = 8 /\ NetworkSuffix["preview"][5] = 118
    /\ Len(NetworkSuffix["undeployed"]) = 11
<1>1. Small(TypePrefix["unshielded"])
  BY SMT DEF TypePrefix, Small, Character, IsUpper
<1>2. Small(TypePrefix["shielded"])
  BY SMT DEF TypePrefix, Small, Character, IsUpper
<1>3. Small(TypePrefix["dust"])
  BY SMT DEF TypePrefix, Small, Character, IsUpper
<1>4. Small(NetworkSuffix["mainnet"])
  BY SMT DEF NetworkSuffix, Small, Character, IsUpper
<1>5. Small(NetworkSuffix["preprod"])
  BY SMT DEF NetworkSuffix, Small, Character, IsUpper
<1>6. Small(NetworkSuffix["preview"])
  BY SMT DEF NetworkSuffix, Small, Character, IsUpper
<1>7. Small(NetworkSuffix["undeployed"])
  BY SMT DEF NetworkSuffix, Small, Character, IsUpper
<1>8. \A t \in Types : Small(TypePrefix[t])
  BY <1>1, <1>2, <1>3 DEF Types
<1>9. \A n \in Networks : Small(NetworkSuffix[n])
  BY <1>4, <1>5, <1>6, <1>7 DEF Networks
<1>10. /\ Len(TypePrefix["unshielded"]) = 7 /\ TypePrefix["unshielded"][4] = 97
       /\ Len(TypePrefix["shielded"]) = 14 /\ TypePrefix["shielded"][4] = 115
       /\ Len(TypePrefix["dust"]) = 7 /\ TypePrefix["dust"][4] = 100
  BY SMT DEF TypePrefix
<1>11. /\ Len(NetworkSuffix["mainnet"]) = 0
       /\ Len(NetworkSuffix["preprod"]) = 8 /\ NetworkSuffix["preprod"][5] = 112
       /\ Len(NetworkSuffix["preview"]) = 8 /\ NetworkSuffix["preview"][5] = 118
       /\ Len(NetworkSuffix["undeployed"]) = 11
  BY SMT DEF NetworkSuffix
<1> QED
  BY <1>8, <1>9, <1>10, <1>11

\* Texts without capitals one after the other.
LEMMA SmallJoined ==
    ASSUME NEW s, NEW t, Small(s), Small(t)
    PROVE  Small(s \o t)
<1> DEFINE u == s \o t
<1>1. s \in Seq(Character) /\ t \in Seq(Character)
  BY DEF Small
<1>2. /\ u \in Seq(Character) /\ Len(u) = Len(s) + Len(t)
      /\ \A i \in 1 .. Len(s) + Len(t) : u[i] = IF i <= Len(s) THEN s[i] ELSE t[i - Len(s)]
  BY <1>1, ConcatProperties
<1> HIDE DEF u
<1>3. \A i \in 1 .. Len(s) : ~ IsUpper(s[i])
  BY <1>1 DEF Small
<1>4. \A i \in 1 .. Len(t) : ~ IsUpper(t[i])
  BY <1>1 DEF Small
<1>5. ASSUME NEW i \in DOMAIN u PROVE ~ IsUpper(u[i])
  <2>1. i \in 1 .. Len(s) + Len(t) /\ Len(s) \in Nat /\ Len(t) \in Nat
    BY <1>1, <1>2
  <2>2. CASE i <= Len(s)
    BY <1>2, <1>3, <2>1, <2>2
  <2>3. CASE ~ (i <= Len(s))
    <3>1. i - Len(s) \in 1 .. Len(t)
      BY <2>1, <2>3
    <3> QED
      BY <1>2, <1>4, <2>1, <2>3, <3>1
  <2> QED
    BY <2>2, <2>3
<1> QED
  BY <1>2, <1>5 DEF Small, u

\* The prefix of an address: its type and network can be told from it.
LEMMA PrefixFacts ==
    ASSUME NEW t \in Types, NEW n \in Networks
    PROVE  /\ <<t, n>> \in DOMAIN HRP_TABLE
           /\ HRP_TABLE[<<t, n>>] = TypePrefix[t] \o NetworkSuffix[n]
           /\ Small(HRP_TABLE[<<t, n>>])
           /\ Len(HRP_TABLE[<<t, n>>]) = Len(TypePrefix[t]) + Len(NetworkSuffix[n])
           /\ HRP_TABLE[<<t, n>>][4] = TypePrefix[t][4]
           /\ Len(NetworkSuffix[n]) > 0
                  => HRP_TABLE[<<t, n>>][Len(TypePrefix[t]) + 5] = NetworkSuffix[n][5]
<1> DEFINE p == TypePrefix[t]
           s == NetworkSuffix[n]
           k == <<t, n>>
           h == HRP_TABLE[k]
<1>1. Small(p) /\ Small(s) /\ p \in Seq(Character) /\ s \in Seq(Character)
  BY PrefixParts DEF Small
<1>2. Len(p) \in {7, 14} /\ Len(s) \in {0, 8, 11}
  BY PrefixParts DEF Types, Networks
<1>3. k \in Types \X Networks /\ k[1] = t /\ k[2] = n
  OBVIOUS
<1>4. k \in DOMAIN HRP_TABLE /\ h = p \o s
  <2> HIDE DEF k
  <2> QED
    BY <1>3 DEF HRP_TABLE
<1> HIDE DEF p, s, h, k
<1>5. /\ Len(p \o s) = Len(p) + Len(s)
      /\ \A i \in 1 .. Len(p) + Len(s) :
             (p \o s)[i] = IF i <= Len(p) THEN p[i] ELSE s[i - Len(p)]
  BY <1>1, ConcatProperties
<1>6. (p \o s)[4] = p[4]
  BY <1>2, <1>5
<1>7. Len(s) > 0 => (p \o s)[Len(p) + 5] = s[5]
  <2> SUFFICES ASSUME Len(s) > 0 PROVE (p \o s)[Len(p) + 5] = s[5]
    OBVIOUS
  <2>1. Len(p) + 5 \in 1 .. Len(p) + Len(s) /\ ~ (Len(p) + 5 <= Len(p)) /\ (Len(p) + 5) - Len(p) = 5
    <3> DEFINE x == Len(p)
               y == Len(s)
    <3>1. x \in {7, 14} /\ y \in {8, 11}
      BY <1>2
    <3> HIDE DEF x, y
    <3>2. x + 5 \in 1 .. x + y /\ ~ (x + 5 <= x) /\ (x + 5) - x = 5
      BY <3>1
    <3> QED
      BY <3>2 DEF x, y
  <2> QED
    BY <1>5, <2>1
<1>8. Small(p \o s)
  BY <1>1, SmallJoined
<1> QED
  BY <1>4, <1>5, <1>6, <1>7, <1>8 DEF p, s, h, k

\* Two networks' suffixes differ in their length or in their fifth character.
LEMMA SuffixesDiffer ==
    ASSUME NEW n \in Networks, NEW m \in Networks,
           Len(NetworkSuffix[n]) = Len(NetworkSuffix[m]),
           Len(NetworkSuffix[n]) > 0 => NetworkSuffix[n][5] = NetworkSuffix[m][5]
    PROVE  n = m
<1> DEFINE length(k) == Len(NetworkSuffix[k])
           fifth(k) == NetworkSuffix[k][5]
<1>1. /\ length("mainnet") = 0
      /\ length("preprod") = 8 /\ fifth("preprod") = 112
      /\ length("preview") = 8 /\ fifth("preview") = 118
      /\ length("undeployed") = 11
  BY PrefixParts
<1>2. length(n) = length(m) /\ (length(n) > 0 => fifth(n) = fifth(m))
  OBVIOUS
<1> HIDE DEF length, fifth
<1>3. n \in {"mainnet", "preprod", "preview", "undeployed"} /\ m \in {"mainnet", "preprod", "preview", "undeployed"}
  BY DEF Networks
<1>4. CASE n = "mainnet"
  BY <1>1, <1>2, <1>3, <1>4
<1>5. CASE n = "preprod"
  BY <1>1, <1>2, <1>3, <1>5
<1>6. CASE n = "preview"
  BY <1>1, <1>2, <1>3, <1>6
<1>7. CASE n = "undeployed"
  BY <1>1, <1>2, <1>3, <1>7
<1> QED
  BY <1>3, <1>4, <1>5, <1>6, <1>7

\* No two kinds of address have the same prefix.
LEMMA PrefixesDiffer ==
    ASSUME NEW t \in Types, NEW n \in Networks, NEW u \in Types, NEW m \in Networks,
           HRP_TABLE[<<t, n>>] = HRP_TABLE[<<u, m>>]
    PROVE  t = u /\ n = m
<1> DEFINE h == HRP_TABLE[<<t, n>>]
           g == HRP_TABLE[<<u, m>>]
<1>1. /\ h[4] = TypePrefix[t][4] /\ Len(h) = Len(TypePrefix[t]) + Len(NetworkSuffix[n])
      /\ Len(NetworkSuffix[n]) > 0 => h[Len(TypePrefix[t]) + 5] = NetworkSuffix[n][5]
  BY PrefixFacts
<1>2. /\ g[4] = TypePrefix[u][4] /\ Len(g) = Len(TypePrefix[u]) + Len(NetworkSuffix[m])
      /\ Len(NetworkSuffix[m]) > 0 => g[Len(TypePrefix[u]) + 5] = NetworkSuffix[m][5]
  BY PrefixFacts
<1>3. h = g
  OBVIOUS
<1> HIDE DEF h, g
<1>0. /\ Len(TypePrefix["unshielded"]) = 7 /\ TypePrefix["unshielded"][4] = 97
      /\ Len(TypePrefix["shielded"]) = 14 /\ TypePrefix["shielded"][4] = 115
      /\ Len(TypePrefix["dust"]) = 7 /\ TypePrefix["dust"][4] = 100
      /\ Len(NetworkSuffix["mainnet"]) = 0
      /\ Len(NetworkSuffix["preprod"]) = 8 /\ NetworkSuffix["preprod"][5] = 112
      /\ Len(NetworkSuffix["preview"]) = 8 /\ NetworkSuffix["preview"][5] = 118
      /\ Len(NetworkSuffix["undeployed"]) = 11
  BY PrefixParts
<1>4. t = u
  <2>1. t \in {"unshielded", "shielded", "dust"} /\ u \in {"unshielded", "shielded", "dust"}
    BY DEF Types
  <2>2. TypePrefix[t][4] = TypePrefix[u][4]
    BY <1>1, <1>2, <1>3
  <2> QED
    BY ONLY <1>0, <2>1, <2>2
<1> DEFINE x == Len(TypePrefix[t])
           y == Len(NetworkSuffix[n])
           z == Len(NetworkSuffix[m])
<1>5. y = z
  <2>1. x \in {7, 14} /\ y \in {0, 8, 11} /\ z \in {0, 8, 11}
    BY PrefixParts DEF Types, Networks
  <2>2. x + y = x + z
    BY <1>1, <1>2, <1>3, <1>4
  <2> HIDE DEF x, y, z
  <2> QED
    BY <2>1, <2>2
<1>6. y > 0 => NetworkSuffix[n][5] = NetworkSuffix[m][5]
  BY <1>1, <1>2, <1>3, <1>4, <1>5
<1>7. n = m
  <2>1. /\ Len(NetworkSuffix[n]) = Len(NetworkSuffix[m])
        /\ Len(NetworkSuffix[n]) > 0 => NetworkSuffix[n][5] = NetworkSuffix[m][5]
    BY <1>5, <1>6
  <2> QED
    BY <2>1, SuffixesDiffer
<1> QED
  BY <1>4, <1>7

\* The last separator, what is before it and what is behind.
LEMMA SplitText ==
    ASSUME NEW hrp \in Seq(Nat), NEW data \in Seq(Nat), \A i \in DOMAIN data : data[i] # Separator
    PROVE  LET s == hrp \o <<Separator>> \o data
               pos == SelectLastInSeq(s, LAMBDA x : x = Separator)
           IN  /\ s \in Seq(Nat)
               /\ pos = Len(hrp) + 1
               /\ Len(s) = Len(hrp) + 1 + Len(data)
               /\ SubSeq(s, 1, pos - 1) = hrp
               /\ SubSeq(s, pos + 1, Len(s)) = data
<1> DEFINE sep == <<Separator>>
           a == hrp \o sep
           s == a \o data
           n == Len(hrp)
           m == Len(data)
           I == {i \in 1 .. Len(s) : s[i] = Separator}
           pos == SelectLastInSeq(s, LAMBDA x : x = Separator)
<1>1. sep \in Seq(Nat) /\ Len(sep) = 1 /\ sep[1] = Separator
  BY DEF Separator
<1>4. n \in Nat /\ m \in Nat /\ \A i \in 1 .. m : data[i] # Separator
  OBVIOUS
<1> HIDE DEF sep
<1>2. /\ a \in Seq(Nat) /\ Len(a) = n + 1
      /\ \A i \in 1 .. n + 1 : a[i] = IF i <= n THEN hrp[i] ELSE sep[i - n]
  <2>1. /\ a \in Seq(Nat) /\ Len(a) = n + Len(sep)
        /\ \A i \in 1 .. n + Len(sep) : a[i] = IF i <= n THEN hrp[i] ELSE sep[i - n]
    BY <1>1, ConcatProperties
  <2> HIDE DEF a, n
  <2> QED
    BY <1>1, <2>1
<1> HIDE DEF a
<1>3. /\ s \in Seq(Nat) /\ Len(s) = n + 1 + m
      /\ \A i \in 1 .. n + 1 + m : s[i] = IF i <= n + 1 THEN a[i] ELSE data[i - (n + 1)]
  <2>1. /\ s \in Seq(Nat) /\ Len(s) = Len(a) + m
        /\ \A i \in 1 .. Len(a) + m : s[i] = IF i <= Len(a) THEN a[i] ELSE data[i - Len(a)]
    <3>1. a \in Seq(Nat) /\ data \in Seq(Nat)
      BY <1>2
    <3> QED
      BY ONLY <3>1, ConcatProperties
  <2> HIDE DEF n, m, s
  <2> QED
    BY <1>2, <2>1
<1> HIDE DEF n, m
<1>5. a[n + 1] = Separator /\ \A i \in 1 .. n : a[i] = hrp[i]
  BY <1>1, <1>2, <1>4
<1> HIDE DEF s
<1>6a. s[n + 1] = Separator
  <2>1. n + 1 \in 1 .. n + 1 + m /\ n + 1 <= n + 1
    BY <1>4
  <2> QED
    BY <1>3, <1>5, <2>1
<1>6b. \A i \in 1 .. n : s[i] = hrp[i]
  <2>1. \A i \in 1 .. n : i \in 1 .. n + 1 + m /\ i <= n + 1
    BY <1>4
  <2> QED
    BY <1>3, <1>5, <2>1
<1>6c. \A i \in (n + 2) .. (n + 1 + m) : s[i] = data[i - (n + 1)] /\ i - (n + 1) \in 1 .. m
  <2>1. \A i \in (n + 2) .. (n + 1 + m) :
            i \in 1 .. n + 1 + m /\ ~ (i <= n + 1) /\ i - (n + 1) \in 1 .. m
    BY <1>4
  <2> QED
    BY <1>3, <2>1
<1>7. \A i \in (n + 2) .. (n + 1 + m) : s[i] # Separator
  BY <1>4, <1>6c
<1>8. n + 1 \in I /\ \A i \in I : i <= n + 1
  <2>1. \A i \in 1 .. n + 1 + m : i <= n + 1 \/ i \in (n + 2) .. (n + 1 + m)
    BY <1>4
  <2>2. n + 1 \in 1 .. n + 1 + m
    BY <1>4
  <2> QED
    BY <1>3, <1>6a, <1>7, <2>1, <2>2
<1>9. pos = n + 1
  <2>1. pos = IF I # {} THEN CHOOSE x \in I : \A y \in I : x >= y ELSE 0
    BY DEF SelectLastInSeq, Max
  <2>2. I \subseteq Nat
    BY <1>3, <1>4
  <2>3. \A i \in I : i \in Nat
    BY <2>2
  <2> HIDE DEF I, pos
  <2> DEFINE c == CHOOSE x \in I : \A y \in I : x >= y
  <2>4. \A y \in I : n + 1 >= y
    BY <1>4, <1>8, <2>3
  <2>5. c \in I /\ \A y \in I : c >= y
    BY <1>8, <2>4
  <2> HIDE DEF c
  <2>6. c = n + 1
    BY <1>4, <1>8, <2>3, <2>5
  <2> QED
    BY <1>8, <2>1, <2>6 DEF c
<1> HIDE DEF pos
<1>10. SubSeq(s, 1, n) = hrp
  <2> DEFINE u == SubSeq(s, 1, n)
  <2>1. \A i \in 1 .. n : s[i] \in Nat
    BY <1>6b DEF n
  <2>2. u \in Seq(Nat) /\ Len(u) = n /\ \A i \in 1 .. n : u[i] = s[i]
    BY <1>4, <2>1, SubSeqProperties
  <2> HIDE DEF u
  <2>3. Len(hrp) = n /\ \A i \in 1 .. n : u[i] = hrp[i]
    BY <1>6b, <2>2 DEF n
  <2> QED
    BY <2>2, <2>3, SeqEqual DEF u
<1>11. SubSeq(s, n + 2, Len(s)) = data
  <2> DEFINE u == SubSeq(s, n + 2, n + 1 + m)
  <2>1. \A i \in (n + 2) .. (n + 1 + m) : s[i] \in Nat
    BY <1>6c DEF m
  <2>2. /\ u \in Seq(Nat)
        /\ Len(u) = IF n + 2 <= n + 1 + m THEN (n + 1 + m) - (n + 2) + 1 ELSE 0
        /\ \A i \in 1 .. (n + 1 + m) - (n + 2) + 1 : u[i] = s[(n + 2) + i - 1]
    BY <1>4, <2>1, SubSeqProperties
  <2> HIDE DEF u
  <2>3. Len(u) = m /\ \A i \in 1 .. m : u[i] = s[n + 1 + i]
    BY <1>4, <2>2
  <2>4. \A i \in 1 .. m : u[i] = data[i]
    <3>1. \A i \in 1 .. m : n + 1 + i \in (n + 2) .. (n + 1 + m) /\ (n + 1 + i) - (n + 1) = i
      BY <1>4
    <3> QED
      BY <1>6c, <2>3, <3>1
  <2>5. Len(data) = m
    BY DEF m
  <2> QED
    BY <1>3, <2>2, <2>3, <2>4, <2>5, SeqEqual, ZenonT(60) DEF u
<1>12. pos - 1 = n /\ pos + 1 = n + 2
  BY <1>4, <1>9
<1> QED
  BY <1>3, <1>9, <1>10, <1>11, <1>12, Zenon DEF s, a, sep, n, m, pos

\* Words written as characters, and characters read as words.
Written(words) == [i \in DOMAIN words |-> CHARSET[words[i] + 1]]
Read(characters) == [i \in DOMAIN characters |-> Symbol[characters[i]]]

\* Words are written in small letters without a separator, and read back.
LEMMA WrittenWords ==
    ASSUME NEW w \in Seq(Word)
    PROVE  /\ Written(w) \in Seq(Nat) /\ Small(Written(w)) /\ Len(Written(w)) = Len(w)
           /\ \A i \in DOMAIN Written(w) : Written(w)[i] # Separator
           /\ ToSet(Written(w)) \subseteq DOMAIN Symbol
           /\ Read(Written(w)) = w
<1> DEFINE c == Written(w)
<1>1. \A i \in 1 .. Len(w) : w[i] \in Word
  OBVIOUS
<1>2. c = [i \in 1 .. Len(w) |-> CHARSET[w[i] + 1]]
  BY DEF Written
<1> HIDE DEF c
<1>3. \A i \in 1 .. Len(w) : /\ c[i] \in Character /\ c[i] # Separator /\ ~ IsUpper(c[i])
                             /\ c[i] \in DOMAIN Symbol /\ Symbol[c[i]] = w[i]
  BY <1>1, <1>2, CharsetFacts, SymbolFacts
<1>4. c \in Seq(Character) /\ Len(c) = Len(w)
  <2>1. c \in [1 .. Len(w) -> Character] /\ Len(w) \in Nat
    BY <1>2, <1>3
  <2> QED
    BY <2>1, FunctionSeq
<1>5. DOMAIN c = 1 .. Len(w)
  BY <1>2
<1>6. c \in Seq(Nat) /\ Small(c)
  BY <1>3, <1>4, <1>5, SmallFacts DEF Small
<1>7. ToSet(c) \subseteq DOMAIN Symbol
  BY <1>3, <1>5 DEF ToSet
<1>8. Read(c) = w
  <2>1. Read(c) = [i \in 1 .. Len(w) |-> w[i]]
    BY <1>3, <1>5 DEF Read
  <2>2. Read(c) \in Seq(Word) /\ Len(Read(c)) = Len(w)
    BY <1>1, <2>1, FunctionSeq
  <2>3. \A i \in 1 .. Len(w) : Read(c)[i] = w[i]
    BY <2>1
  <2> QED
    BY <2>2, <2>3, SeqEqual
<1> QED
  BY <1>3, <1>4, <1>5, <1>6, <1>7, <1>8 DEF c

\* Characters that are read are written again.
LEMMA ReadCharacters ==
    ASSUME NEW c \in Seq(Nat), ToSet(c) \subseteq DOMAIN Symbol
    PROVE  /\ Read(c) \in Seq(Word) /\ Len(Read(c)) = Len(c)
           /\ Written(Read(c)) = c
<1> DEFINE w == Read(c)
<1>1. \A i \in 1 .. Len(c) : c[i] \in DOMAIN Symbol
  BY DEF ToSet
<1>2. w = [i \in 1 .. Len(c) |-> Symbol[c[i]]]
  BY DEF Read
<1> HIDE DEF w
<1>3. \A i \in 1 .. Len(c) : w[i] \in Word /\ CHARSET[w[i] + 1] = c[i]
  BY <1>1, <1>2, SymbolFacts
<1>4. w \in Seq(Word) /\ Len(w) = Len(c)
  <2>1. w \in [1 .. Len(c) -> Word] /\ Len(c) \in Nat
    BY <1>2, <1>3
  <2> QED
    BY <2>1, FunctionSeq
<1>5. Written(w) = c
  <2>1. Written(w) = [i \in 1 .. Len(c) |-> c[i]]
    BY <1>2, <1>3 DEF Written
  <2>2. Written(w) \in Seq(Nat) /\ Len(Written(w)) = Len(c)
    BY <1>4, WrittenWords
  <2>3. \A i \in 1 .. Len(c) : Written(w)[i] = c[i]
    BY <2>1
  <2> QED
    BY <2>2, <2>3, SeqEqual
<1> QED
  BY <1>4, <1>5 DEF w

\* The text bech32m_encode writes: small letters, a valid checksum at its end.
LEMMA EncodedText ==
    ASSUME NEW hrp, Small(hrp), NEW d \in Seq(Word)
    PROVE  LET w == d \o CreateChecksum(hrp, d)
           IN  /\ Bech32mEncode(hrp, d) = hrp \o <<Separator>> \o Written(w)
               /\ Small(Bech32mEncode(hrp, d))
               /\ w \in Seq(Word) /\ Len(w) = Len(d) + 6
               /\ VerifyChecksum(hrp, w)
               /\ SubSeq(w, 1, Len(w) - 6) = d
<1> DEFINE c == CreateChecksum(hrp, d)
           w == d \o c
<1>1. hrp \in Seq(Character)
  BY DEF Small
<1>2. c \in Register /\ VerifyChecksum(hrp, w)
  <2>1. c \in Register
    <3>1. Words(0) \in Register
      BY WordsRegister
    <3> QED
      BY <1>1, <3>1, OneChecksum
  <2> HIDE DEF c
  <2>2. VerifyChecksum(hrp, d \o c) <=> c = CreateChecksum(hrp, d)
    BY <1>1, <2>1, OneChecksum
  <2> QED
    BY <2>1, <2>2 DEF c
<1>3. c \in Seq(Word) /\ Len(c) = 6
  BY <1>2, RegisterSeq
<1>4. Bech32mEncode(hrp, d) = hrp \o <<Separator>> \o Written(w)
  BY DEF Bech32mEncode, Written
<1> HIDE DEF c
<1>5. /\ w \in Seq(Word) /\ Len(w) = Len(d) + 6
      /\ \A i \in 1 .. Len(d) : w[i] = d[i]
  <2>1. /\ w \in Seq(Word) /\ Len(w) = Len(d) + Len(c)
        /\ \A i \in 1 .. Len(d) + Len(c) : w[i] = IF i <= Len(d) THEN d[i] ELSE c[i - Len(d)]
    BY <1>3, ConcatProperties
  <2> HIDE DEF w
  <2>2. Len(d) \in Nat
    OBVIOUS
  <2> QED
    BY <1>3, <2>1, <2>2
<1> HIDE DEF w
<1>6. SubSeq(w, 1, Len(w) - 6) = d
  <2> DEFINE n == Len(d)
             u == SubSeq(w, 1, n)
  <2>1. n \in Nat /\ Len(w) - 6 = n
    BY <1>5
  <2>2. \A i \in 1 .. n : w[i] \in Word
    BY <1>5
  <2> HIDE DEF n
  <2>3. u \in Seq(Word) /\ Len(u) = n /\ \A i \in 1 .. n : u[i] = w[i]
    <3>1. 1 \in Int /\ n \in Int
      BY <2>1
    <3>2. /\ u \in Seq(Word) /\ Len(u) = (IF 1 <= n THEN n - 1 + 1 ELSE 0)
          /\ \A i \in 1 .. n - 1 + 1 : u[i] = w[1 + i - 1]
      BY <2>2, <3>1, SubSeqProperties
    <3> HIDE DEF u
    <3> QED
      BY <2>1, <3>2
  <2> HIDE DEF u
  <2>4. Len(u) = Len(d) /\ \A i \in 1 .. Len(u) : u[i] = d[i]
    BY <1>5, <2>3 DEF n
  <2>5. u = d
    BY <2>3, <2>4, SeqEqual
  <2> QED
    BY <2>1, <2>5 DEF u
<1>7. Small(Bech32mEncode(hrp, d))
  <2>1. Small(<<Separator>>)
    <3>1. Separator \in Character /\ ~ IsUpper(Separator)
      BY DEF Separator, Character, IsUpper
    <3>2. DOMAIN <<Separator>> = {1} /\ <<Separator>>[1] = Separator
      OBVIOUS
    <3>3. <<Separator>> \in Seq(Character)
      BY <3>1
    <3> QED
      BY <3>1, <3>2, <3>3 DEF Small
  <2>2. Small(Written(w))
    BY <1>5, WrittenWords
  <2>3. Small(hrp \o <<Separator>>)
    BY <2>1, SmallJoined
  <2> QED
    BY <1>4, <2>2, <2>3, SmallJoined
<1> QED
  BY <1>2, <1>4, <1>5, <1>6, <1>7 DEF w, c

\* bech32m_decode of a text bech32m_encode wrote, in small letters or capitals.
LEMMA DecodedText ==
    ASSUME NEW written, NEW hrp, Small(hrp), Len(hrp) > 0, NEW d \in Seq(Word),
           Lower(written) = Bech32mEncode(hrp, d), ~ MixedCase(written),
           \A i \in DOMAIN written : written[i] \in 33 .. 126
    PROVE  Bech32mDecode(written) = [hrp |-> hrp, data5 |-> d]
<1> DEFINE bech == Lower(written)
           pos == SelectLastInSeq(bech, LAMBDA x : x = Separator)
           before == SubSeq(bech, 1, pos - 1)
           data == SubSeq(bech, pos + 1, Len(bech))
           w == d \o CreateChecksum(hrp, d)
           c == Written(w)
<1>1. /\ bech = hrp \o <<Separator>> \o c
      /\ w \in Seq(Word) /\ Len(w) = Len(d) + 6
      /\ VerifyChecksum(hrp, w) /\ SubSeq(w, 1, Len(w) - 6) = d
  BY EncodedText
<1> HIDE DEF w
<1>2. /\ c \in Seq(Nat) /\ Len(c) = Len(w) /\ (\A i \in DOMAIN c : c[i] # Separator)
      /\ ToSet(c) \subseteq DOMAIN Symbol /\ Read(c) = w
  BY <1>1, WrittenWords
<1> HIDE DEF c
<1>3. hrp \in Seq(Nat)
  BY SmallFacts
<1>4. /\ pos = Len(hrp) + 1 /\ Len(bech) = Len(hrp) + 1 + Len(c)
      /\ before = hrp /\ data = c
  <2> DEFINE s == hrp \o <<Separator>> \o c
             last == SelectLastInSeq(s, LAMBDA x : x = Separator)
  <2>1. /\ last = Len(hrp) + 1 /\ Len(s) = Len(hrp) + 1 + Len(c)
        /\ SubSeq(s, 1, last - 1) = hrp /\ SubSeq(s, last + 1, Len(s)) = c
    BY <1>2, <1>3, SplitText
  <2>2. bech = s
    BY <1>1
  <2> HIDE DEF bech, s
  <2>3. pos = last
    BY <2>2
  <2> HIDE DEF pos, last
  <2> QED
    BY <2>1, <2>2, <2>3
<1> HIDE DEF bech, pos
<1>5. ~ (pos < 2 \/ pos + ChecksumLength > Len(bech))
  <2>1. Len(d) \in Nat /\ Len(hrp) \in Nat
    BY <1>3
  <2> QED
    BY <1>1, <1>2, <1>4, <2>1 DEF ChecksumLength
<1> DEFINE data5 == [i \in DOMAIN data |-> Symbol[data[i]]]
<1>6. data5 = w
  BY <1>2, <1>4 DEF Read
<1>7. Bech32mDecode(written) =
          IF \E i \in DOMAIN written : written[i] \notin 33 .. 126 THEN Failed("character")
          ELSE IF MixedCase(written) THEN Failed("case")
          ELSE IF pos < 2 \/ pos + ChecksumLength > Len(bech) THEN Failed("separator")
          ELSE IF ~ (ToSet(data) \subseteq DOMAIN Symbol) THEN Failed("data character")
          ELSE IF ~ VerifyChecksum(before, data5) THEN Failed("checksum")
          ELSE [hrp |-> before, data5 |-> SubSeq(data5, 1, Len(data5) - ChecksumLength)]
  BY DEF Bech32mDecode, bech, pos
<1> HIDE DEF before, data, data5
<1>8. ~ \E i \in DOMAIN written : written[i] \notin 33 .. 126
  OBVIOUS
<1>9. SubSeq(data5, 1, Len(data5) - ChecksumLength) = d
  BY <1>1, <1>6 DEF ChecksumLength
<1> QED
  BY <1>1, <1>2, <1>4, <1>5, <1>6, <1>7, <1>8, <1>9, Zenon

\* What is encoded.
Address == [type : Types, network : Networks, payload : Seq(Octet)]

\* The prefixes are at least seven characters long.
LEMMA PrefixLong ==
    ASSUME NEW t \in Types, NEW n \in Networks
    PROVE  Len(HRP_TABLE[<<t, n>>]) > 0
<1> DEFINE x == Len(TypePrefix[t])
           y == Len(NetworkSuffix[n])
<1>1. x \in {7, 14} /\ y \in {0, 8, 11}
  BY PrefixParts DEF Types, Networks
<1>2. Len(HRP_TABLE[<<t, n>>]) = x + y
  BY PrefixFacts
<1> HIDE DEF x, y
<1> QED
  BY <1>1, <1>2

\* The text encode_address writes, as such and in capitals.
LEMMA AddressText ==
    ASSUME NEW a \in Address
    PROVE  /\ HRP_TABLE[<<a.type, a.network>>] \in Seq(Character)
           /\ Small(HRP_TABLE[<<a.type, a.network>>])
           /\ PaddedGroups(a.payload) \in Seq(Word)
           /\ Small(EncodeAddress(a))
<1>1. a.type \in Types /\ a.network \in Networks /\ a.payload \in Seq(Octet)
  BY DEF Address
<1>2. Small(HRP_TABLE[<<a.type, a.network>>])
  BY <1>1, PrefixFacts
<1>3. PaddedGroups(a.payload) \in Seq(Word)
  BY <1>1, PaddedHolds
<1>4. Small(EncodeAddress(a))
  BY <1>2, <1>3, EncodedText DEF EncodeAddress
<1> QED
  BY <1>2, <1>3, <1>4 DEF Small

\* The one kind of address with a prefix.
LEMMA KnownPrefix ==
    ASSUME NEW t \in Types, NEW n \in Networks
    PROVE  LET known == {k \in DOMAIN HRP_TABLE : HRP_TABLE[k] = HRP_TABLE[<<t, n>>]}
           IN  known # {} /\ (CHOOSE k \in known : TRUE) = <<t, n>>
<1> DEFINE known == {k \in DOMAIN HRP_TABLE : HRP_TABLE[k] = HRP_TABLE[<<t, n>>]}
<1>1. DOMAIN HRP_TABLE = Types \X Networks
  BY DEF HRP_TABLE
<1>2. <<t, n>> \in known
  BY PrefixFacts
<1>3. ASSUME NEW k \in known PROVE k = <<t, n>>
  <2>1. PICK u \in Types, m \in Networks : k = <<u, m>>
    BY <1>1
  <2>2. HRP_TABLE[<<u, m>>] = HRP_TABLE[<<t, n>>]
    BY <2>1
  <2>3. u = t /\ m = n
    BY <2>2, PrefixesDiffer
  <2> QED
    BY <2>1, <2>3
<1> HIDE DEF known
<1>4. (CHOOSE k \in known : TRUE) \in known
  BY <1>2
<1>5. (CHOOSE k \in known : TRUE) = <<t, n>> /\ known # {}
  BY <1>2, <1>3, <1>4
<1> QED
  BY <1>5 DEF known

\* encode_address's text, in small letters or capitals, is read back.
LEMMA DecodeEncode ==
    ASSUME NEW a \in Address,
           NEW s \in {EncodeAddress(a), Upper(EncodeAddress(a))}
    PROVE  DecodeAddress(s) = a
<1> DEFINE hrp == HRP_TABLE[<<a.type, a.network>>]
           d == PaddedGroups(a.payload)
           e == EncodeAddress(a)
           state == Groups(d, 5, 8)
           known == {k \in DOMAIN HRP_TABLE : HRP_TABLE[k] = hrp}
<1>1. a.type \in Types /\ a.network \in Networks /\ a.payload \in Seq(Octet)
  BY DEF Address
<1>2. Small(hrp) /\ d \in Seq(Word) /\ Small(e) /\ Len(hrp) > 0
  BY <1>1, AddressText, PrefixLong
<1>3. e = Bech32mEncode(hrp, d)
  BY DEF EncodeAddress
<1>4. PaddingOK(state) /\ state.ret = a.payload
  BY <1>1, GroupsReadBack
<1>5. known # {} /\ (CHOOSE k \in known : TRUE) = <<a.type, a.network>>
  BY <1>1, KnownPrefix
<1> HIDE DEF hrp, d, e, state
<1>6. Lower(s) = e /\ ~ MixedCase(s) /\ \A i \in DOMAIN s : s[i] \in 33 .. 126
  BY <1>2, SmallFacts DEF e
<1>7. Bech32mDecode(s) = [hrp |-> hrp, data5 |-> d]
  BY <1>2, <1>3, <1>6, DecodedText
<1>8. DecodeAddress(s) = Decoded(<<a.type, a.network>>, a.payload)
  <2> DEFINE r == Bech32mDecode(s)
  <2>1. r.hrp = hrp /\ r.data5 = d /\ "error" \notin DOMAIN r
    BY <1>7
  <2>2. DecodeAddress(s) =
            LET kn == {k \in DOMAIN HRP_TABLE : HRP_TABLE[k] = r.hrp}
                info == CHOOSE k \in kn : TRUE
                st == Groups(r.data5, 5, 8)
            IN  IF "error" \in DOMAIN r THEN r
                ELSE IF kn = {} THEN Failed("hrp")
                ELSE IF ~ PaddingOK(st) THEN Failed("padding")
                ELSE Decoded(info, st.ret)
    BY DEF DecodeAddress
  <2> HIDE DEF r
  <2> QED
    BY <1>4, <1>5, <2>1, <2>2 DEF state
<1>9. a = [type |-> a.type, network |-> a.network, payload |-> a.payload]
  BY DEF Address
<1> QED
  BY <1>8, <1>9 DEF Decoded

\* The small letters of a text of admitted characters.
LEMMA LowerCharacters ==
    ASSUME NEW written \in Seq(Nat), \A i \in DOMAIN written : written[i] \in 33 .. 126
    PROVE  Lower(written) \in Seq(Character)
<1>1. /\ Lower(written) \in Seq(Nat) /\ Len(Lower(written)) = Len(written)
      /\ \A i \in 1 .. Len(written) :
             Lower(written)[i] = IF IsUpper(written[i]) THEN written[i] + 32 ELSE written[i]
  BY LowerUpper
<1>2. \A i \in 1 .. Len(written) : written[i] \in 33 .. 126
  <2>1. DOMAIN written = 1 .. Len(written)
    OBVIOUS
  <2> QED
    BY <2>1
<1>3. \A x \in 33 .. 126 : (IF IsUpper(x) THEN x + 32 ELSE x) \in Character
  BY DEF IsUpper, Character
<1> DEFINE s == Lower(written)
           n == Len(written)
<1>4. \A i \in 1 .. n : s[i] \in Character
  BY <1>1, <1>2, <1>3
<1>5. n \in Nat /\ s = [i \in 1 .. n |-> s[i]]
  BY <1>1
<1> HIDE DEF s, n
<1>6. s \in [1 .. n -> Character]
  BY <1>4, <1>5
<1> QED
  BY <1>5, <1>6, FunctionSeq DEF s

\* Where the last separator is.
LastSeparator(s) == SelectLastInSeq(s, LAMBDA x : x = Separator)

\* There is a separator at that place, or there is none.
LEMMA LastSeparatorPlace ==
    ASSUME NEW s \in Seq(Character)
    PROVE  /\ LastSeparator(s) \in 0 .. Len(s)
           /\ LastSeparator(s) # 0 => s[LastSeparator(s)] = Separator
<1> DEFINE I == {i \in 1 .. Len(s) : s[i] = Separator}
           n == Len(s)
           pos == LastSeparator(s)
           c == CHOOSE x \in I : \A y \in I : x >= y
<1>1. pos = IF I # {} THEN c ELSE 0
  BY DEF LastSeparator, SelectLastInSeq, Max
<1>2. n \in Nat
  OBVIOUS
<1>3. I \subseteq 1 .. n
  OBVIOUS
<1>4. I # {} => \E x \in I : \A y \in I : x >= y
  <2> SUFFICES ASSUME I # {} PROVE \E x \in I : \A y \in I : x >= y
    OBVIOUS
  <2> DEFINE B == {k \in Nat : \E i \in I : k = n - i}
  <2> HIDE DEF I, n
  <2>1. \A i \in I : i \in Int /\ n - i \in B
    BY <1>2, <1>3
  <2>2. B \in SUBSET Nat /\ B # {}
    BY <2>1
  <2>3. PICK m \in B : \A k \in B : m <= k
    BY <2>2, LeastNatural
  <2>4. PICK x \in I : m = n - x
    BY <2>3
  <2>5. \A y \in I : n - x <= n - y
    BY <2>1, <2>3, <2>4
  <2>6. \A y \in I : x >= y
    BY <1>2, <2>1, <2>5
  <2> QED
    BY <2>6
<1>5. I # {} => c \in I
  <2> HIDE DEF I
  <2> QED
    BY <1>4
<1> HIDE DEF c, pos
<1>6. pos = 0 \/ pos \in I
  BY <1>1, <1>5
<1>7. pos \in 0 .. n /\ (pos # 0 => s[pos] = Separator)
  BY <1>2, <1>6
<1> QED
  BY <1>7 DEF pos, n

\* Characters are numbers.
LEMMA CharactersAreNumbers == \A s : s \in Seq(Character) => s \in Seq(Nat)
<1> SUFFICES ASSUME NEW s \in Seq(Character) PROVE s \in Seq(Nat)
  OBVIOUS
<1>1. Character \subseteq Nat
  BY DEF Character
<1>2. s \in [1 .. Len(s) -> Character] /\ Len(s) \in Nat
  BY LenProperties
<1>3. s \in [1 .. Len(s) -> Nat]
  <2> HIDE DEF Character
  <2> QED
    BY <1>1, <1>2
<1> QED
  BY <1>2, <1>3, FunctionSeq

\* What is before the last separator and what is behind make up the text.
LEMMA JoinText ==
    ASSUME NEW s \in Seq(Character), NEW pos,
           pos = LastSeparator(s), pos >= 2, pos + 6 <= Len(s)
    PROVE  LET hrp == SubSeq(s, 1, pos - 1)
               data == SubSeq(s, pos + 1, Len(s))
           IN  /\ hrp \in Seq(Character)
               /\ data \in Seq(Character) /\ Len(data) >= 6
               /\ s = hrp \o <<Separator>> \o data
<1> DEFINE n == Len(s)
           hrp == SubSeq(s, 1, pos - 1)
           data == SubSeq(s, pos + 1, n)
           sep == <<Separator>>
<1>2. n \in Nat /\ \A i \in 1 .. n : s[i] \in Character
  OBVIOUS
<1>6. pos \in 0 .. n /\ (pos # 0 => s[pos] = Separator)
  BY LastSeparatorPlace
<1>7. pos \in Nat /\ pos >= 2 /\ pos + 6 <= n
  BY <1>6
<1> HIDE DEF n
<1>8. hrp \in Seq(Character) /\ Len(hrp) = pos - 1 /\ \A i \in 1 .. pos - 1 : hrp[i] = s[i]
  <2>1. 1 \in Int /\ pos - 1 \in Int /\ \A i \in 1 .. pos - 1 : s[i] \in Character
    BY <1>2, <1>7
  <2>2. /\ hrp \in Seq(Character)
        /\ Len(hrp) = IF 1 <= pos - 1 THEN (pos - 1) - 1 + 1 ELSE 0
        /\ \A i \in 1 .. (pos - 1) - 1 + 1 : hrp[i] = s[1 + i - 1]
    BY <2>1, SubSeqProperties
  <2> HIDE DEF hrp
  <2> QED
    BY <1>7, <2>2
<1> HIDE DEF hrp
<1>9. data \in Seq(Character) /\ Len(data) = n - pos /\ \A i \in 1 .. n - pos : data[i] = s[pos + i]
  <2>1. pos + 1 \in Int /\ n \in Int /\ \A i \in pos + 1 .. n : s[i] \in Character
    BY <1>2, <1>7
  <2>2. /\ data \in Seq(Character)
        /\ Len(data) = IF pos + 1 <= n THEN n - (pos + 1) + 1 ELSE 0
        /\ \A i \in 1 .. n - (pos + 1) + 1 : data[i] = s[(pos + 1) + i - 1]
    BY <2>1, SubSeqProperties
  <2> HIDE DEF data
  <2>3. pos + 1 <= n /\ n - (pos + 1) + 1 = n - pos
    BY <1>2, <1>7
  <2>4. \A i \in 1 .. n - pos : (pos + 1) + i - 1 = pos + i
    BY <1>2, <1>7
  <2>5. /\ data \in Seq(Character) /\ Len(data) = n - pos
        /\ \A i \in 1 .. n - pos : data[i] = s[(pos + 1) + i - 1]
    BY <2>2, <2>3
  <2> QED
    BY <2>4, <2>5
<1> HIDE DEF data
<1> DEFINE a == hrp \o sep
           r == a \o data
<1>10. sep \in Seq(Character) /\ Len(sep) = 1 /\ sep[1] = Separator
  BY DEF Separator, Character
<1> HIDE DEF sep
<1>11. /\ a \in Seq(Character) /\ Len(a) = pos
       /\ \A i \in 1 .. pos : a[i] = IF i <= pos - 1 THEN hrp[i] ELSE sep[i - (pos - 1)]
  <2>1. /\ a \in Seq(Character) /\ Len(a) = Len(hrp) + Len(sep)
        /\ \A i \in 1 .. Len(hrp) + Len(sep) : a[i] = IF i <= Len(hrp) THEN hrp[i] ELSE sep[i - Len(hrp)]
    BY <1>8, <1>10, ConcatProperties
  <2> HIDE DEF a
  <2> QED
    BY <1>7, <1>8, <1>10, <2>1
<1> HIDE DEF a
<1>12. \A i \in 1 .. pos : a[i] = s[i]
  <2>1. ASSUME NEW i \in 1 .. pos PROVE a[i] = s[i]
    <3>1. CASE i <= pos - 1
      BY <1>7, <1>8, <1>11, <3>1
    <3>2. CASE ~ (i <= pos - 1)
      <4>1. i = pos /\ i - (pos - 1) = 1
        BY <1>7, <3>2
      <4> QED
        BY <1>6, <1>10, <1>11, <3>2, <4>1, SMTT(40)
    <3> QED
      BY <3>1, <3>2
  <2> QED
    BY <2>1
<1>13. /\ r \in Seq(Character) /\ Len(r) = n
       /\ \A i \in 1 .. n : r[i] = IF i <= pos THEN a[i] ELSE data[i - pos]
  <2>1. /\ r \in Seq(Character) /\ Len(r) = Len(a) + Len(data)
        /\ \A i \in 1 .. Len(a) + Len(data) : r[i] = IF i <= Len(a) THEN a[i] ELSE data[i - Len(a)]
    BY <1>9, <1>11, ConcatProperties
  <2> HIDE DEF r
  <2> QED
    BY <1>2, <1>7, <1>9, <1>11, <2>1, SMTT(40)
<1> HIDE DEF r
<1>14. \A i \in 1 .. n : r[i] = s[i]
  <2>1. ASSUME NEW i \in 1 .. n PROVE r[i] = s[i]
    <3>1. CASE i <= pos
      BY <1>7, <1>12, <1>13, <3>1
    <3>2. CASE ~ (i <= pos)
      <4>1. i - pos \in 1 .. n - pos /\ pos + (i - pos) = i
        BY <1>2, <1>7, <3>2
      <4> QED
        BY <1>9, <1>13, <3>2, <4>1
    <3> QED
      BY <3>1, <3>2
  <2> QED
    BY <2>1
<1>15. r = s
  <2>1. Len(s) = n
    BY DEF n
  <2> QED
    BY <1>13, <1>14, <2>1, SeqEqual
<1>16. Len(data) >= 6
  BY <1>2, <1>7, <1>9
<1> QED
  BY <1>8, <1>9, <1>15, <1>16, Zenon DEF r, a, sep, hrp, data, n

\* Six words at the end are the checksum, the others the data.
LEMMA ChecksumLast ==
    ASSUME NEW hrp \in Seq(Character), NEW w \in Seq(Word), Len(w) >= 6, VerifyChecksum(hrp, w)
    PROVE  LET d == SubSeq(w, 1, Len(w) - 6)
           IN  d \in Seq(Word) /\ w = d \o CreateChecksum(hrp, d)
<1> DEFINE n == Len(w)
           d == SubSeq(w, 1, n - 6)
           c == SubSeq(w, n - 5, n)
           r == d \o c
<1>1. n \in Nat /\ n >= 6 /\ \A i \in 1 .. n : w[i] \in Word
  OBVIOUS
<1> HIDE DEF n
<1>2. d \in Seq(Word) /\ Len(d) = n - 6 /\ \A i \in 1 .. n - 6 : d[i] = w[i]
  <2>1. 1 \in Int /\ n - 6 \in Int /\ \A i \in 1 .. n - 6 : w[i] \in Word
    BY <1>1
  <2>2. /\ d \in Seq(Word)
        /\ Len(d) = IF 1 <= n - 6 THEN (n - 6) - 1 + 1 ELSE 0
        /\ \A i \in 1 .. (n - 6) - 1 + 1 : d[i] = w[1 + i - 1]
    BY <2>1, SubSeqProperties
  <2> HIDE DEF d
  <2> QED
    BY <1>1, <2>2
<1>3. c \in Seq(Word) /\ Len(c) = 6 /\ \A i \in 1 .. 6 : c[i] = w[(n - 6) + i]
  <2>1. n - 5 \in Int /\ n \in Int /\ \A i \in n - 5 .. n : w[i] \in Word
    BY <1>1
  <2>2. /\ c \in Seq(Word)
        /\ Len(c) = IF n - 5 <= n THEN n - (n - 5) + 1 ELSE 0
        /\ \A i \in 1 .. n - (n - 5) + 1 : c[i] = w[(n - 5) + i - 1]
    BY <2>1, SubSeqProperties
  <2> HIDE DEF c
  <2> QED
    BY <1>1, <2>2
<1> HIDE DEF c, d
<1>4. c \in Register
  <2>1. c \in [1 .. Len(c) -> Word]
    BY <1>3, LenProperties
  <2> QED
    BY <1>3, <2>1 DEF Register, ChecksumLength
<1>5. /\ r \in Seq(Word) /\ Len(r) = n
      /\ \A i \in 1 .. n : r[i] = IF i <= n - 6 THEN d[i] ELSE c[i - (n - 6)]
  <2>1. /\ r \in Seq(Word) /\ Len(r) = Len(d) + Len(c)
        /\ \A i \in 1 .. Len(d) + Len(c) : r[i] = IF i <= Len(d) THEN d[i] ELSE c[i - Len(d)]
    BY <1>2, <1>3, ConcatProperties, ZenonT(60)
  <2> HIDE DEF r
  <2> QED
    BY <1>1, <1>2, <1>3, <2>1
<1> HIDE DEF r
<1>6. \A i \in 1 .. n : r[i] = w[i]
  <2>1. ASSUME NEW i \in 1 .. n PROVE r[i] = w[i]
    <3>1. CASE i <= n - 6
      BY <1>1, <1>2, <1>5, <3>1
    <3>2. CASE ~ (i <= n - 6)
      <4>1. i - (n - 6) \in 1 .. 6 /\ (n - 6) + (i - (n - 6)) = i
        BY <1>1, <3>2
      <4> QED
        BY <1>3, <1>5, <3>2, <4>1
    <3> QED
      BY <3>1, <3>2
  <2> QED
    BY <2>1
<1>7. w = d \o c
  <2>1. Len(w) = n
    BY DEF n
  <2> QED
    BY <1>5, <1>6, <2>1, SeqEqual DEF r
<1>8. c = CreateChecksum(hrp, d)
  BY <1>2, <1>4, <1>7, OneChecksum
<1> QED
  BY <1>2, <1>7, <1>8 DEF d, n

\* A text that decodes is a prefix and the words behind it as bech32m_encode
\* writes them.
LEMMA DecodedShape ==
    ASSUME NEW s \in Seq(Nat), "error" \notin DOMAIN Bech32mDecode(s)
    PROVE  \E hrp \in Seq(Character), d \in Seq(Word) :
               /\ Bech32mDecode(s) = [hrp |-> hrp, data5 |-> d]
               /\ Lower(s) = Bech32mEncode(hrp, d)
<1> DEFINE bech == Lower(s)
           pos == LastSeparator(bech)
           hrp == SubSeq(bech, 1, pos - 1)
           data == SubSeq(bech, pos + 1, Len(bech))
           data5 == [i \in DOMAIN data |-> Symbol[data[i]]]
           d == SubSeq(data5, 1, Len(data5) - ChecksumLength)
           r == Bech32mDecode(s)
<1>1. r = IF \E i \in DOMAIN s : s[i] \notin 33 .. 126 THEN Failed("character")
          ELSE IF MixedCase(s) THEN Failed("case")
          ELSE IF pos < 2 \/ pos + ChecksumLength > Len(bech) THEN Failed("separator")
          ELSE IF ~ (ToSet(data) \subseteq DOMAIN Symbol) THEN Failed("data character")
          ELSE IF ~ VerifyChecksum(hrp, data5) THEN Failed("checksum")
          ELSE [hrp |-> hrp, data5 |-> d]
  BY DEF Bech32mDecode, LastSeparator
<1>2. \A why : "error" \in DOMAIN Failed(why)
  BY DEF Failed
<1>3. "error" \notin DOMAIN r
  OBVIOUS
<1> HIDE DEF r, d, data5, data, hrp, pos, bech
<1>4. /\ ~ \E i \in DOMAIN s : s[i] \notin 33 .. 126
      /\ ~ (pos < 2 \/ pos + ChecksumLength > Len(bech))
      /\ ToSet(data) \subseteq DOMAIN Symbol
      /\ VerifyChecksum(hrp, data5)
      /\ r = [hrp |-> hrp, data5 |-> d]
  BY <1>1, <1>2, <1>3, Zenon
<1>5. bech \in Seq(Character)
  BY <1>4, LowerCharacters DEF bech
<1>6. pos \in Nat
  BY <1>5, LastSeparatorPlace DEF pos
<1>7. pos >= 2 /\ pos + 6 <= Len(bech)
  BY <1>4, <1>5, <1>6 DEF ChecksumLength
<1>8. /\ hrp \in Seq(Character) /\ data \in Seq(Character) /\ Len(data) >= 6
      /\ bech = hrp \o <<Separator>> \o data
  BY <1>5, <1>7, JoinText DEF pos, hrp, data
<1>9. data \in Seq(Nat)
  BY <1>8, CharactersAreNumbers
<1>10. data5 \in Seq(Word) /\ Len(data5) = Len(data) /\ Written(data5) = data
  BY <1>4, <1>9, ReadCharacters DEF Read, data5
<1>11. d \in Seq(Word) /\ data5 = d \o CreateChecksum(hrp, d)
  <2>1. Len(data5) >= 6 /\ d = SubSeq(data5, 1, Len(data5) - 6)
    BY <1>8, <1>10 DEF d, ChecksumLength
  <2> QED
    BY <1>4, <1>8, <1>10, <2>1, ChecksumLast
<1>12. bech = Bech32mEncode(hrp, d)
  BY <1>8, <1>10, <1>11 DEF Bech32mEncode, Written
<1> QED
  BY <1>4, <1>8, <1>11, <1>12 DEF bech, r

\* Every text that decodes is the one encode_address writes for the result.
LEMMA EncodeDecode ==
    ASSUME NEW written \in Seq(Nat), IsAddress(DecodeAddress(written))
    PROVE  /\ DecodeAddress(written) \in Address
           /\ EncodeAddress(DecodeAddress(written)) = Lower(written)
<1> DEFINE b == Bech32mDecode(written)
           known == {k \in DOMAIN HRP_TABLE : HRP_TABLE[k] = b.hrp}
           info == CHOOSE k \in known : TRUE
           state == Groups(b.data5, 5, 8)
           a == DecodeAddress(written)
<1>1. a = IF "error" \in DOMAIN b THEN b
          ELSE IF known = {} THEN Failed("hrp")
          ELSE IF ~ PaddingOK(state) THEN Failed("padding")
          ELSE Decoded(info, state.ret)
  BY DEF DecodeAddress
<1>2. \A why : ~ IsAddress(Failed(why))
  BY DEF Failed, IsAddress
<1>3. IsAddress(a)
  OBVIOUS
<1>4. "error" \in DOMAIN b => ~ IsAddress(b)
  <2> DEFINE bech == Lower(written)
             pos == SelectLastInSeq(bech, LAMBDA x : x = Separator)
             hrp == SubSeq(bech, 1, pos - 1)
             data == SubSeq(bech, pos + 1, Len(bech))
             data5 == [i \in DOMAIN data |-> Symbol[data[i]]]
             d == SubSeq(data5, 1, Len(data5) - ChecksumLength)
  <2>1. b = IF \E i \in DOMAIN written : written[i] \notin 33 .. 126 THEN Failed("character")
            ELSE IF MixedCase(written) THEN Failed("case")
            ELSE IF pos < 2 \/ pos + ChecksumLength > Len(bech) THEN Failed("separator")
            ELSE IF ~ (ToSet(data) \subseteq DOMAIN Symbol) THEN Failed("data character")
            ELSE IF ~ VerifyChecksum(hrp, data5) THEN Failed("checksum")
            ELSE [hrp |-> hrp, data5 |-> d]
    BY DEF Bech32mDecode
  <2> HIDE DEF bech, pos, hrp, data, data5, d
  <2>2. "error" \notin DOMAIN [hrp |-> hrp, data5 |-> d]
    OBVIOUS
  <2> HIDE DEF b
  <2> QED
    BY <1>2, <2>1, <2>2, Zenon
<1> HIDE DEF a, state, info, known, b
<1>5. "error" \notin DOMAIN b /\ known # {} /\ PaddingOK(state) /\ a = Decoded(info, state.ret)
  BY <1>1, <1>2, <1>3, <1>4, Zenon
<1>6. PICK hrp \in Seq(Character), d \in Seq(Word) :
          b = [hrp |-> hrp, data5 |-> d] /\ Lower(written) = Bech32mEncode(hrp, d)
  BY <1>5, DecodedShape DEF b
<1>7. b.hrp = hrp /\ b.data5 = d
  BY <1>6
<1>8. state.ret \in Seq(Octet) /\ PaddedGroups(state.ret) = d
  BY <1>5, <1>7, GroupsCanonical DEF state
<1>9. PICK t \in Types, n \in Networks : info = <<t, n>> /\ HRP_TABLE[<<t, n>>] = hrp
  <2>1. info \in known
    BY <1>5 DEF info
  <2>2. DOMAIN HRP_TABLE = Types \X Networks
    BY DEF HRP_TABLE
  <2>3. info \in DOMAIN HRP_TABLE /\ HRP_TABLE[info] = hrp
    BY <1>7, <2>1 DEF known
  <2>4. info \in Types \X Networks
    BY <2>2, <2>3
  <2>5. \A k \in Types \X Networks : \E t \in Types, n \in Networks : k = <<t, n>>
    OBVIOUS
  <2> QED
    BY <2>3, <2>4, <2>5
<1>10. a = [type |-> t, network |-> n, payload |-> state.ret]
  BY <1>5, <1>9 DEF Decoded
<1> DEFINE p == state.ret
<1> HIDE DEF p
<1>11. a \in Address /\ a.type = t /\ a.network = n /\ a.payload = p
  BY <1>8, <1>10 DEF Address, p
<1>12. EncodeAddress(a) = Bech32mEncode(HRP_TABLE[<<t, n>>], PaddedGroups(p))
  BY <1>11 DEF EncodeAddress
<1>13. PaddedGroups(p) = d
  BY <1>8 DEF p
<1> QED
  BY <1>6, <1>9, <1>11, <1>12, <1>13 DEF a

-----------------------------------------------------------------------------
(* The texts of a behaviour.                                               *)

\* What is written is a text; as long as nobody tampered with it, it is the
\* address's own; what was decoded is that text.
AddressInv ==
    /\ address \in Address
    /\ text \in Seq(Nat) /\ Len(text) > 0
    /\ how = "exact" => text \in {EncodeAddress(address), Upper(EncodeAddress(address))}
    /\ result # <<>> => result = DecodeAddress(text)

\* A text bech32m_encode writes is not empty.
LEMMA EncodedLong ==
    ASSUME NEW hrp, Small(hrp), NEW d \in Seq(Word)
    PROVE  Bech32mEncode(hrp, d) \in Seq(Nat) /\ Len(Bech32mEncode(hrp, d)) > 0
<1> DEFINE w == d \o CreateChecksum(hrp, d)
           c == Written(w)
           s == hrp \o <<Separator>> \o c
<1>1. Bech32mEncode(hrp, d) = s /\ w \in Seq(Word)
  BY EncodedText
<1> HIDE DEF w
<1>2. hrp \in Seq(Nat) /\ c \in Seq(Nat) /\ \A i \in DOMAIN c : c[i] # Separator
  BY <1>1, SmallFacts, WrittenWords
<1> HIDE DEF c
<1>3. s \in Seq(Nat) /\ Len(s) = Len(hrp) + 1 + Len(c)
  BY <1>2, SplitText
<1>4. Len(hrp) \in Nat /\ Len(c) \in Nat
  BY <1>2
<1> HIDE DEF s
<1> QED
  BY <1>1, <1>3, <1>4

\* A text encode_address writes is not empty.
LEMMA AddressLong ==
    ASSUME NEW a \in Address
    PROVE  EncodeAddress(a) \in Seq(Nat) /\ Len(EncodeAddress(a)) > 0
  BY AddressText, EncodedLong DEF EncodeAddress

\* A piece of a text is a text.
LEMMA PieceOfText ==
    ASSUME NEW s \in Seq(Nat), NEW m \in Int, NEW n \in Int, m >= 1, n <= Len(s)
    PROVE  /\ SubSeq(s, m, n) \in Seq(Nat)
           /\ Len(SubSeq(s, m, n)) = IF m <= n THEN n - m + 1 ELSE 0
<1>1. \A i \in m .. n : s[i] \in Nat
  <2>1. \A i \in m .. n : i \in 1 .. Len(s)
    <3>1. Len(s) \in Nat
      OBVIOUS
    <3> DEFINE l == Len(s)
    <3>2. l \in Nat /\ n <= l
      BY <3>1
    <3> HIDE DEF l
    <3>3. \A i \in m .. n : i \in 1 .. l
      BY <3>2
    <3> QED
      BY <3>3 DEF l
  <2>2. \A i \in 1 .. Len(s) : s[i] \in Nat
    OBVIOUS
  <2> QED
    BY <2>1, <2>2
<1> QED
  BY <1>1, SubSeqProperties

\* Inserting and leaving out a character leaves a text.
LEMMA Slipped ==
    ASSUME NEW s \in Seq(Nat), Len(s) > 0
    PROVE  /\ InsertAt(s, Len(s), 113) \in Seq(Nat) /\ Len(InsertAt(s, Len(s), 113)) > 0
           /\ RemoveAt(s, Len(s) - 1) \in Seq(Nat) /\ Len(RemoveAt(s, Len(s) - 1)) > 0
<1> DEFINE n == Len(s)
           a == SubSeq(s, 1, n - 1)
           b == SubSeq(s, n, n)
           c == SubSeq(s, 1, (n - 1) - 1)
           q == <<113>>
<1>1. n \in Nat /\ n > 0
  OBVIOUS
<1> HIDE DEF n
<1>2. n = Len(s) /\ n - 1 \in Int /\ (n - 1) - 1 \in Int /\ n \in Int
      /\ n - 1 <= n /\ (n - 1) - 1 <= n /\ n <= n /\ n >= 1 /\ 1 >= 1 /\ 1 \in Int
  BY <1>1 DEF n
<1>3. a \in Seq(Nat)
  BY <1>2, PieceOfText
<1>4. b \in Seq(Nat) /\ Len(b) = 1
  <2>1. b \in Seq(Nat) /\ Len(b) = IF n <= n THEN n - n + 1 ELSE 0
    BY <1>2, PieceOfText
  <2> HIDE DEF b
  <2> QED
    BY <1>1, <2>1
<1>5. c \in Seq(Nat)
  BY <1>2, PieceOfText
<1>6. q \in Seq(Nat) /\ Len(q) = 1
  OBVIOUS
<1>7. InsertAt(s, n, 113) = (a \o q) \o b
  BY DEF InsertAt, n
<1>8. RemoveAt(s, n - 1) = c \o b
  <2>1. (n - 1) + 1 = n
    BY <1>1
  <2> QED
    BY <2>1 DEF RemoveAt, n
<1> HIDE DEF a, b, c, q
<1>9. (a \o q) \o b \in Seq(Nat) /\ Len((a \o q) \o b) > 0
  <2>1. a \o q \in Seq(Nat)
    BY <1>3, <1>6
  <2> DEFINE x == a \o q
  <2> HIDE DEF x
  <2>2. x \in Seq(Nat)
    BY <2>1 DEF x
  <2>4. x \o b \in Seq(Nat) /\ Len(x \o b) = Len(x) + Len(b)
    BY <1>4, <2>2, ConcatProperties
  <2>5. Len(x) \in Nat
    BY <2>2
  <2>3. Len(x \o b) > 0
    BY <1>4, <2>4, <2>5
  <2> QED
    BY <2>3, <2>4 DEF x
<1>10. c \o b \in Seq(Nat) /\ Len(c \o b) > 0
  <2>1. c \o b \in Seq(Nat) /\ Len(c \o b) = Len(c) + Len(b)
    BY <1>4, <1>5, ConcatProperties
  <2>2. Len(c) \in Nat
    BY <1>5
  <2> QED
    BY <1>4, <2>1, <2>2
<1> QED
  BY <1>7, <1>8, <1>9, <1>10 DEF n

\* Groups that end otherwise are words.
LEMMA OtherEnd ==
    ASSUME NEW d \in Seq(Word)
    PROVE  /\ \A last \in 0 .. 31 : d # <<>> => [d EXCEPT ![Len(d)] = last] \in Seq(Word)
           /\ \A more \in {0, 1} : Append(d, more) \in Seq(Word)
<1>1. (0 .. 31) \subseteq Word /\ 0 \in Word /\ 1 \in Word
  BY DEF Word
<1>2. ASSUME NEW last \in Word PROVE [d EXCEPT ![Len(d)] = last] \in Seq(Word)
  <2> DEFINE n == Len(d)
             e == [d EXCEPT ![n] = last]
  <2>1. d \in [1 .. n -> Word] /\ n \in Nat
    BY LenProperties
  <2> HIDE DEF n
  <2>2. e \in [1 .. n -> Word]
    BY <1>2, <2>1
  <2>3. e \in Seq(Word)
    BY <2>1, <2>2, FunctionSeq
  <2> QED
    BY <2>3 DEF n
<1>3. \A more \in Word : Append(d, more) \in Seq(Word)
  OBVIOUS
<1> QED
  BY <1>1, <1>2, <1>3

\* The invariant holds.
LEMMA AddressInvHolds == Spec => []AddressInv
<1>1. Init => AddressInv
  <2> SUFFICES ASSUME Init PROVE AddressInv
    OBVIOUS
  <2>1. address \in Address /\ text = EncodeAddress(address) /\ result = <<>>
    BY AddressAssumption DEF Init, Address
  <2>2. text \in Seq(Nat) /\ Len(text) > 0
    BY <2>1, AddressLong
  <2> QED
    BY <2>1, <2>2 DEF AddressInv
<1>2. AddressInv /\ [Next]_vars => AddressInv'
  <2> SUFFICES ASSUME AddressInv, [Next]_vars PROVE AddressInv'
    OBVIOUS
  <2> USE DEF AddressInv
  <2>1. CASE Capitalise
    <3> DEFINE e == EncodeAddress(address)
    <3>1. e \in Seq(Nat) /\ Len(e) > 0 /\ Small(e)
      BY AddressLong, AddressText
    <3>2. /\ address' = address /\ how' = how /\ result' = <<>>
          /\ text' = Upper(text) /\ text \in {e, Upper(e)}
      BY <2>1 DEF Capitalise
    <3>3. e' = e
      BY <3>2
    <3> HIDE DEF e
    <3>4. Upper(Upper(e)) = Upper(e)
      BY <3>1, SmallFacts
    <3>5. text' = Upper(e)
      BY <3>2, <3>4
    <3>6. Upper(e) \in Seq(Nat) /\ Len(Upper(e)) = Len(e)
      BY <3>1, LowerUpper
    <3> QED
      BY <3>1, <3>2, <3>3, <3>5, <3>6 DEF e
  <2>2. CASE Mistype
    <3>1. PICK i \in DOMAIN text, x \in Typed : text' = [text EXCEPT ![i] = x]
      BY <2>2 DEF Mistype
    <3>2. x \in Nat
      BY AddressAssumption
    <3>3. text' \in Seq(Nat) /\ Len(text') > 0
      <4> DEFINE n == Len(text)
      <4>1. text \in [1 .. n -> Nat] /\ n \in Nat /\ n > 0
        BY LenProperties
      <4> HIDE DEF n
      <4>2. text' \in [1 .. n -> Nat]
        BY <3>1, <3>2, <4>1
      <4>3. text' \in Seq(Nat) /\ Len(text') = n
        BY <4>1, <4>2, FunctionSeq
      <4> QED
        BY <4>1, <4>3
    <3> QED
      BY <2>2, <3>3 DEF Mistype
  <2>3. CASE Slip
    <3>1. text' = InsertAt(text, Len(text), 113) \/ text' = RemoveAt(text, Len(text) - 1)
      BY <2>3 DEF Slip
    <3>2. text' \in Seq(Nat) /\ Len(text') > 0
      BY <3>1, Slipped
    <3> QED
      BY <2>3, <3>2 DEF Slip
  <2>4. CASE PadOtherwise
    <3> DEFINE hrp == HRP_TABLE[<<address.type, address.network>>]
               d == PaddedGroups(address.payload)
    <3>1. Small(hrp) /\ d \in Seq(Word)
      BY AddressText
    <3>2. \/ d # <<>> /\ \E last \in 0 .. 31 : text' = Bech32mEncode(hrp, [d EXCEPT ![Len(d)] = last])
          \/ \E more \in {0, 1} : text' = Bech32mEncode(hrp, Append(d, more))
      BY <2>4 DEF PadOtherwise
    <3> HIDE DEF hrp, d
    <3>3. \E e \in Seq(Word) : text' = Bech32mEncode(hrp, e)
      BY <3>1, <3>2, OtherEnd
    <3>4. text' \in Seq(Nat) /\ Len(text') > 0
      BY <3>1, <3>3, EncodedLong
    <3> QED
      BY <2>4, <3>4 DEF PadOtherwise
  <2>5. CASE Decode
    BY <2>5 DEF Decode
  <2>6. CASE UNCHANGED vars
    BY <2>6 DEF vars
  <2> QED
    BY <2>1, <2>2, <2>3, <2>4, <2>5, <2>6 DEF Next
<1> QED
  BY <1>1, <1>2, PTL DEF Spec

\* An address of any type and network, whatever its payload, is read back from
\* the text encode_address writes, in small letters and in capitals.
THEOREM AddressesReadBack == Spec => []RoundTrip
<1>1. AddressInv => RoundTrip
  <2> SUFFICES ASSUME AddressInv, how = "exact", result # <<>> PROVE result = address
    BY DEF RoundTrip
  <2> QED
    BY DecodeEncode DEF AddressInv
<1> QED
  BY <1>1, AddressInvHolds, PTL

\* Whatever became of a text, if it decodes then encode_address writes it for
\* what it decodes to: no owner has two texts but for capitals.
THEOREM AddressesAreCanonical == Spec => []Canonical
<1>1. AddressInv => Canonical
  <2> SUFFICES ASSUME AddressInv, result # <<>>, IsAddress(result)
               PROVE  EncodeAddress(result) = Lower(text)
    BY DEF Canonical
  <2> QED
    BY EncodeDecode DEF AddressInv
<1> QED
  BY <1>1, AddressInvHolds, PTL

-----------------------------------------------------------------------------
(* Texts with mistyped characters: one anywhere, or some of six neighbours. *)

\* Words are told apart after the same word was added.
LEMMA XorCancel ==
    ASSUME NEW a \in Word, NEW b \in Word, NEW g \in Word
    PROVE  /\ Xor[a][g] = Xor[b][g] => a = b
           /\ Xor[g][a] = Xor[g][b] => a = b
<1>1. /\ \A i \in 1 .. 5 : Bits(Xor[a][g])[i] = (Bits(a)[i] + Bits(g)[i]) % 2
      /\ \A i \in 1 .. 5 : Bits(Xor[b][g])[i] = (Bits(b)[i] + Bits(g)[i]) % 2
      /\ \A i \in 1 .. 5 : Bits(Xor[g][a])[i] = (Bits(g)[i] + Bits(a)[i]) % 2
      /\ \A i \in 1 .. 5 : Bits(Xor[g][b])[i] = (Bits(g)[i] + Bits(b)[i]) % 2
  BY XorBits
<1>2. \A i \in 1 .. 5 : Bits(a)[i] \in {0, 1} /\ Bits(b)[i] \in {0, 1} /\ Bits(g)[i] \in {0, 1}
  BY WordBits
<1>3. \A x, y, z \in {0, 1} : (x + z) % 2 = (y + z) % 2 => x = y
  BY SMT
<1>4. \A x, y, z \in {0, 1} : (z + x) % 2 = (z + y) % 2 => x = y
  BY SMT
<1>5. ASSUME Xor[a][g] = Xor[b][g] PROVE a = b
  <2>1. \A i \in 1 .. 5 : Bits(a)[i] = Bits(b)[i]
    BY ONLY <1>1, <1>2, <1>3, <1>5
  <2> QED
    BY <2>1, SameBits
<1>6. ASSUME Xor[g][a] = Xor[g][b] PROVE a = b
  <2>1. \A i \in 1 .. 5 : Bits(a)[i] = Bits(b)[i]
    BY ONLY <1>1, <1>2, <1>4, <1>6
  <2> QED
    BY <2>1, SameBits
<1> QED
  BY <1>5, <1>6

\* The last words of the generators, bit by bit.
LastBits(top) ==
    <<(top[2] + ((top[4] + top[5]) % 2)) % 2,
      (top[1] + ((top[3] + top[5]) % 2)) % 2,
      (top[2] + top[4]) % 2,
      (top[2] + ((top[3] + top[4]) % 2)) % 2,
      (top[1] + ((top[3] + ((top[4] + top[5]) % 2)) % 2)) % 2>>

\* The last word of what is XORed into chk tells the word that left it.
LEMMA GeneratorLast ==
    ASSUME NEW a \in Word, NEW b \in Word, GeneratorSum[a][6] = GeneratorSum[b][6]
    PROVE  a = b
<1>1. ASSUME NEW top \in Word
      PROVE  \A i \in 1 .. 5 : Bits(GeneratorSum[top][6])[i] = LastBits(Bits(top))[i]
  <2> DEFINE t(i) == IF Bits(top)[i] = 1 THEN GENERATOR[i] ELSE Words(0)
             r4 == XorAll(t(4), t(5))
             r3 == XorAll(t(3), r4)
             r2 == XorAll(t(2), r3)
             r1 == XorAll(t(1), r2)
  <2>1. GeneratorSum[top] = r1
    BY DEF GeneratorSum
  <2>2. /\ t(1) \in Register /\ t(2) \in Register /\ t(3) \in Register /\ t(4) \in Register
        /\ t(5) \in Register
    <3>1. /\ GENERATOR[1] = Words(996825010) /\ GENERATOR[2] = Words(642813549)
          /\ GENERATOR[3] = Words(513874426) /\ GENERATOR[4] = Words(1027748829)
          /\ GENERATOR[5] = Words(705979059)
      BY SMT DEF GENERATOR
    <3>2. /\ 996825010 \in Nat /\ 642813549 \in Nat /\ 513874426 \in Nat /\ 1027748829 \in Nat
          /\ 705979059 \in Nat /\ 0 \in Nat
      BY SMT
    <3>3. /\ GENERATOR[1] \in Register /\ GENERATOR[2] \in Register /\ GENERATOR[3] \in Register
          /\ GENERATOR[4] \in Register /\ GENERATOR[5] \in Register /\ Words(0) \in Register
      BY SMT, <3>1, <3>2, WordsRegister
    <3> QED
      BY ONLY <3>3
  <2>3. /\ GENERATOR[1][6] = 18 /\ GENERATOR[2][6] = 13 /\ GENERATOR[3][6] = 26
        /\ GENERATOR[4][6] = 29 /\ GENERATOR[5][6] = 19 /\ Words(0)[6] = 0
    BY SMT DEF GENERATOR, Words
  <2>4. /\ Bits(18) = <<0, 1, 0, 0, 1>> /\ Bits(13) = <<1, 0, 1, 1, 0>>
        /\ Bits(26) = <<0, 1, 0, 1, 1>> /\ Bits(29) = <<1, 0, 1, 1, 1>>
        /\ Bits(19) = <<1, 1, 0, 0, 1>> /\ Bits(0) = <<0, 0, 0, 0, 0>>
    BY SMT DEF Bits
  <2> DEFINE x(i) == Bits(top)[i]
  <2>5. x(1) \in {0, 1} /\ x(2) \in {0, 1} /\ x(3) \in {0, 1} /\ x(4) \in {0, 1} /\ x(5) \in {0, 1}
    <3>1. 1 \in 1 .. 5 /\ 2 \in 1 .. 5 /\ 3 \in 1 .. 5 /\ 4 \in 1 .. 5 /\ 5 \in 1 .. 5
      OBVIOUS
    <3> QED
      BY <3>1, WordBits
  <2>6. /\ Bits(t(1)[6]) = IF x(1) = 1 THEN <<0, 1, 0, 0, 1>> ELSE <<0, 0, 0, 0, 0>>
        /\ Bits(t(2)[6]) = IF x(2) = 1 THEN <<1, 0, 1, 1, 0>> ELSE <<0, 0, 0, 0, 0>>
        /\ Bits(t(3)[6]) = IF x(3) = 1 THEN <<0, 1, 0, 1, 1>> ELSE <<0, 0, 0, 0, 0>>
        /\ Bits(t(4)[6]) = IF x(4) = 1 THEN <<1, 0, 1, 1, 1>> ELSE <<0, 0, 0, 0, 0>>
        /\ Bits(t(5)[6]) = IF x(5) = 1 THEN <<1, 1, 0, 0, 1>> ELSE <<0, 0, 0, 0, 0>>
    <3>1. \A i : t(i)[6] = IF x(i) = 1 THEN GENERATOR[i][6] ELSE Words(0)[6]
      OBVIOUS
    <3> HIDE DEF t, x
    <3>2. /\ t(1)[6] = IF x(1) = 1 THEN 18 ELSE 0
          /\ t(2)[6] = IF x(2) = 1 THEN 13 ELSE 0
          /\ t(3)[6] = IF x(3) = 1 THEN 26 ELSE 0
          /\ t(4)[6] = IF x(4) = 1 THEN 29 ELSE 0
          /\ t(5)[6] = IF x(5) = 1 THEN 19 ELSE 0
      BY <2>3, <3>1
    <3> QED
      BY <2>4, <3>2
  <2> HIDE DEF t
  <2>7. r4 \in Register /\ r4[6] = Xor[t(4)[6]][t(5)[6]]
    BY <2>2, XorAllRegister
  <2> HIDE DEF r4
  <2>8. r3 \in Register /\ r3[6] = Xor[t(3)[6]][r4[6]]
    BY <2>2, <2>7, XorAllRegister
  <2> HIDE DEF r3
  <2>9. r2 \in Register /\ r2[6] = Xor[t(2)[6]][r3[6]]
    BY <2>2, <2>8, XorAllRegister
  <2> HIDE DEF r2
  <2>10. r1 \in Register /\ r1[6] = Xor[t(1)[6]][r2[6]]
    BY <2>2, <2>9, XorAllRegister
  <2> HIDE DEF r1
  <2>11. \A y \in Register : y[6] \in Word
    BY DEF Register, ChecksumLength
  <2>12. ASSUME NEW k \in 1 .. 5
         PROVE  Bits(r1[6])[k] =
                    (Bits(t(1)[6])[k] + ((Bits(t(2)[6])[k] + ((Bits(t(3)[6])[k]
                        + ((Bits(t(4)[6])[k] + Bits(t(5)[6])[k]) % 2)) % 2)) % 2)) % 2
    <3> DEFINE u1 == t(1)[6]
               u2 == t(2)[6]
               u3 == t(3)[6]
               u4 == t(4)[6]
               u5 == t(5)[6]
               w1 == r1[6]
               w2 == r2[6]
               w3 == r3[6]
               w4 == r4[6]
    <3>1. /\ u1 \in Word /\ u2 \in Word /\ u3 \in Word /\ u4 \in Word /\ u5 \in Word
          /\ w4 \in Word /\ w3 \in Word /\ w2 \in Word
      BY <2>2, <2>7, <2>8, <2>9, <2>11
    <3>2. w4 = Xor[u4][u5] /\ w3 = Xor[u3][w4] /\ w2 = Xor[u2][w3] /\ w1 = Xor[u1][w2]
      BY <2>7, <2>8, <2>9, <2>10
    <3> HIDE DEF u1, u2, u3, u4, u5, w1, w2, w3, w4
    <3>8. \A p, q \in Word : Bits(Xor[p][q])[k] = (Bits(p)[k] + Bits(q)[k]) % 2
      BY XorBits
    <3>3. Bits(w4)[k] = (Bits(u4)[k] + Bits(u5)[k]) % 2
      BY ONLY <3>1, <3>2, <3>8, Zenon
    <3>4. Bits(w3)[k] = (Bits(u3)[k] + Bits(w4)[k]) % 2
      BY ONLY <3>1, <3>2, <3>8, Zenon
    <3>5. Bits(w2)[k] = (Bits(u2)[k] + Bits(w3)[k]) % 2
      BY ONLY <3>1, <3>2, <3>8, Zenon
    <3>6. Bits(w1)[k] = (Bits(u1)[k] + Bits(w2)[k]) % 2
      BY ONLY <3>1, <3>2, <3>8, Zenon
    <3>7. Bits(w1)[k] =
              (Bits(u1)[k] + ((Bits(u2)[k] + ((Bits(u3)[k] + ((Bits(u4)[k] + Bits(u5)[k]) % 2)) % 2)) % 2)) % 2
      BY ONLY <3>3, <3>4, <3>5, <3>6, Zenon
    <3> QED
      BY <3>7, Zenon DEF u1, u2, u3, u4, u5, w1
  <2> DEFINE y(i) == Bits(t(i)[6])
             s == Bits(top)
  <2>13. /\ s[1] \in {0, 1} /\ s[2] \in {0, 1} /\ s[3] \in {0, 1} /\ s[4] \in {0, 1} /\ s[5] \in {0, 1}
         /\ y(1) = IF s[1] = 1 THEN <<0, 1, 0, 0, 1>> ELSE <<0, 0, 0, 0, 0>>
         /\ y(2) = IF s[2] = 1 THEN <<1, 0, 1, 1, 0>> ELSE <<0, 0, 0, 0, 0>>
         /\ y(3) = IF s[3] = 1 THEN <<0, 1, 0, 1, 1>> ELSE <<0, 0, 0, 0, 0>>
         /\ y(4) = IF s[4] = 1 THEN <<1, 0, 1, 1, 1>> ELSE <<0, 0, 0, 0, 0>>
         /\ y(5) = IF s[5] = 1 THEN <<1, 1, 0, 0, 1>> ELSE <<0, 0, 0, 0, 0>>
    BY <2>5, <2>6
  <2> DEFINE all(k) == (y(1)[k] + ((y(2)[k] + ((y(3)[k] + ((y(4)[k] + y(5)[k]) % 2)) % 2)) % 2)) % 2
  <2> HIDE DEF y, s, x
  <2>14. /\ y(1)[1] = 0 /\ y(1)[2] = s[1] /\ y(1)[3] = 0 /\ y(1)[4] = 0 /\ y(1)[5] = s[1]
         /\ y(2)[1] = s[2] /\ y(2)[2] = 0 /\ y(2)[3] = s[2] /\ y(2)[4] = s[2] /\ y(2)[5] = 0
         /\ y(3)[1] = 0 /\ y(3)[2] = s[3] /\ y(3)[3] = 0 /\ y(3)[4] = s[3] /\ y(3)[5] = s[3]
         /\ y(4)[1] = s[4] /\ y(4)[2] = 0 /\ y(4)[3] = s[4] /\ y(4)[4] = s[4] /\ y(4)[5] = s[4]
         /\ y(5)[1] = s[5] /\ y(5)[2] = s[5] /\ y(5)[3] = 0 /\ y(5)[4] = 0 /\ y(5)[5] = s[5]
    BY <2>13, SMTT(60)
  <2>15. /\ all(1) = LastBits(s)[1] /\ all(2) = LastBits(s)[2] /\ all(3) = LastBits(s)[3]
         /\ all(4) = LastBits(s)[4] /\ all(5) = LastBits(s)[5]
    <3>1. /\ s[1] \in {0, 1} /\ s[2] \in {0, 1} /\ s[3] \in {0, 1} /\ s[4] \in {0, 1} /\ s[5] \in {0, 1}
      BY <2>13
    <3>2. /\ LastBits(s)[1] = (s[2] + ((s[4] + s[5]) % 2)) % 2
          /\ LastBits(s)[2] = (s[1] + ((s[3] + s[5]) % 2)) % 2
          /\ LastBits(s)[3] = (s[2] + s[4]) % 2
          /\ LastBits(s)[4] = (s[2] + ((s[3] + s[4]) % 2)) % 2
          /\ LastBits(s)[5] = (s[1] + ((s[3] + ((s[4] + s[5]) % 2)) % 2)) % 2
      BY DEF LastBits
    <3>3. all(1) = LastBits(s)[1]
      BY ONLY <2>14, <3>1, <3>2, SMTT(60)
    <3>4. all(2) = LastBits(s)[2]
      BY ONLY <2>14, <3>1, <3>2, SMTT(60)
    <3>5. all(3) = LastBits(s)[3]
      BY ONLY <2>14, <3>1, <3>2, SMTT(60)
    <3>6. all(4) = LastBits(s)[4]
      BY ONLY <2>14, <3>1, <3>2, SMTT(60)
    <3>7. all(5) = LastBits(s)[5]
      BY ONLY <2>14, <3>1, <3>2, SMTT(60)
    <3> QED
      BY <3>3, <3>4, <3>5, <3>6, <3>7
  <2>16. \A k \in 1 .. 5 : Bits(r1[6])[k] = all(k)
    BY <2>12 DEF y
  <2> HIDE DEF all
  <2>17. \A k \in 1 .. 5 : k = 1 \/ k = 2 \/ k = 3 \/ k = 4 \/ k = 5
    OBVIOUS
  <2>18. \A k \in 1 .. 5 : Bits(r1[6])[k] = LastBits(s)[k]
    BY ONLY <2>15, <2>16, <2>17
  <2> QED
    BY <2>1, <2>18 DEF s
<1> DEFINE s == Bits(a)
           r == Bits(b)
<1>2. /\ LastBits(s)[1] = LastBits(r)[1] /\ LastBits(s)[2] = LastBits(r)[2]
      /\ LastBits(s)[3] = LastBits(r)[3] /\ LastBits(s)[4] = LastBits(r)[4]
      /\ LastBits(s)[5] = LastBits(r)[5]
  <2>1. \A i \in 1 .. 5 : LastBits(s)[i] = LastBits(r)[i]
    BY <1>1
  <2>2. 1 \in 1 .. 5 /\ 2 \in 1 .. 5 /\ 3 \in 1 .. 5 /\ 4 \in 1 .. 5 /\ 5 \in 1 .. 5
    OBVIOUS
  <2> HIDE DEF s, r
  <2> QED
    BY ONLY <2>1, <2>2
<1>3. /\ s[1] \in {0, 1} /\ s[2] \in {0, 1} /\ s[3] \in {0, 1} /\ s[4] \in {0, 1} /\ s[5] \in {0, 1}
      /\ r[1] \in {0, 1} /\ r[2] \in {0, 1} /\ r[3] \in {0, 1} /\ r[4] \in {0, 1} /\ r[5] \in {0, 1}
  <2>1. \A i \in 1 .. 5 : s[i] \in {0, 1} /\ r[i] \in {0, 1}
    BY WordBits
  <2>2. 1 \in 1 .. 5 /\ 2 \in 1 .. 5 /\ 3 \in 1 .. 5 /\ 4 \in 1 .. 5 /\ 5 \in 1 .. 5
    OBVIOUS
  <2> HIDE DEF s, r
  <2> QED
    BY ONLY <2>1, <2>2
<1> HIDE DEF s, r
<1>4. /\ (s[2] + ((s[4] + s[5]) % 2)) % 2 = (r[2] + ((r[4] + r[5]) % 2)) % 2
      /\ (s[1] + ((s[3] + s[5]) % 2)) % 2 = (r[1] + ((r[3] + r[5]) % 2)) % 2
      /\ (s[2] + s[4]) % 2 = (r[2] + r[4]) % 2
      /\ (s[2] + ((s[3] + s[4]) % 2)) % 2 = (r[2] + ((r[3] + r[4]) % 2)) % 2
      /\ (s[1] + ((s[3] + ((s[4] + s[5]) % 2)) % 2)) % 2 = (r[1] + ((r[3] + ((r[4] + r[5]) % 2)) % 2)) % 2
  BY <1>2 DEF LastBits
<1>5. s[1] = r[1] /\ s[2] = r[2] /\ s[3] = r[3] /\ s[4] = r[4] /\ s[5] = r[5]
  BY ONLY <1>3, <1>4, SMTT(60)
<1>6. \A i \in 1 .. 5 : i = 1 \/ i = 2 \/ i = 3 \/ i = 4 \/ i = 5
  OBVIOUS
<1>7. \A i \in 1 .. 5 : s[i] = r[i]
  BY ONLY <1>5, <1>6
<1> QED
  BY <1>7, SameBits DEF s, r

\* Two registers that the same value makes the same are the same.
LEMMA FeedCancels ==
    ASSUME NEW x \in Register, NEW y \in Register, NEW v \in Word, Feed[x][v] = Feed[y][v]
    PROVE  x = y
<1> DEFINE g == GeneratorSum[x[1]]
           h == GeneratorSum[y[1]]
<1>1. /\ g \in Register /\ Feed[x][v][6] = Xor[v][g[6]]
      /\ \A i \in 1 .. 5 : Feed[x][v][i] = Xor[x[i + 1]][g[i]]
  BY FeedWords
<1>2. /\ h \in Register /\ Feed[y][v][6] = Xor[v][h[6]]
      /\ \A i \in 1 .. 5 : Feed[y][v][i] = Xor[y[i + 1]][h[i]]
  BY FeedWords
<1>3. \A i \in 1 .. 6 : x[i] \in Word /\ y[i] \in Word
  BY DEF Register, ChecksumLength
<1>4. 1 \in 1 .. 6 /\ 6 \in 1 .. 6 /\ \A i \in 1 .. 5 : i \in 1 .. 6 /\ i + 1 \in 1 .. 6
  OBVIOUS
<1>5. x[1] \in Word /\ y[1] \in Word
  BY <1>3, <1>4
<1> HIDE DEF g, h
<1>6. g[6] \in Word /\ h[6] \in Word /\ \A i \in 1 .. 5 : g[i] \in Word /\ h[i] \in Word
  BY <1>1, <1>2 DEF Register, ChecksumLength
<1>7. Xor[v][g[6]] = Xor[v][h[6]]
  BY <1>1, <1>2
<1>8. g[6] = h[6]
  BY <1>6, <1>7, XorCancel
<1>9. x[1] = y[1]
  BY <1>5, <1>8, GeneratorLast DEF g, h
<1>10. g = h
  BY <1>9 DEF g, h
<1>11. ASSUME NEW i \in 1 .. 5 PROVE x[i + 1] = y[i + 1]
  <2>1. Xor[x[i + 1]][g[i]] = Xor[y[i + 1]][g[i]]
    BY <1>1, <1>2, <1>10
  <2>2. x[i + 1] \in Word /\ y[i + 1] \in Word /\ g[i] \in Word
    BY <1>3, <1>4, <1>6
  <2> QED
    BY <2>1, <2>2, XorCancel
<1>12. x[2] = y[2] /\ x[3] = y[3] /\ x[4] = y[4] /\ x[5] = y[5] /\ x[6] = y[6]
  BY <1>11
<1>13. \A i \in 1 .. 6 : i = 1 \/ i = 2 \/ i = 3 \/ i = 4 \/ i = 5 \/ i = 6
  OBVIOUS
<1>14. \A i \in 1 .. 6 : x[i] = y[i]
  BY ONLY <1>9, <1>12, <1>13
<1> QED
  BY <1>14 DEF Register, ChecksumLength

\* Nor do the same values behind two texts make their registers the same.
LEMMA SameTail ==
    ASSUME NEW x \in Seq(Word), NEW y \in Seq(Word), NEW z \in Seq(Word),
           Polymod(x \o z) = Polymod(y \o z)
    PROVE  Polymod(x) = Polymod(y)
<1> DEFINE n == Len(z)
           Same(s) == Polymod(x \o s) = Polymod(y \o s)
           K == {k \in 0 .. n : \A s \in Seq(Word) :
                    Len(s) = k /\ Same(s) => Polymod(x) = Polymod(y)}
<1>1. n \in Nat
  OBVIOUS
<1>2. 0 \in K
  <2>1. \A s \in Seq(Word) : Len(s) = 0 => s = <<>>
    BY EmptySeq
  <2>2. x \o <<>> = x /\ y \o <<>> = y
    BY ConcatEmptySeq
  <2>3. \A s \in Seq(Word) : Len(s) = 0 /\ Same(s) => Polymod(x) = Polymod(y)
    BY <2>1, <2>2
  <2>4. 0 \in 0 .. n
    BY <1>1
  <2> HIDE DEF Same
  <2> QED
    BY <2>3, <2>4
<1>3. ASSUME NEW k \in 0 .. n, k \in K /\ k < n PROVE k + 1 \in K
  <2>1. ASSUME NEW s \in Seq(Word), Len(s) = k + 1, Same(s) PROVE Polymod(x) = Polymod(y)
    <3>1. s # <<>>
      BY <2>1
    <3>2. PICK f \in Seq(Word), v \in Word : s = Append(f, v)
      BY <3>1, SequenceEmptyOrAppend
    <3>3. Len(f) = k
      BY <2>1, <3>2
    <3>4. x \o s = Append(x \o f, v) /\ y \o s = Append(y \o f, v)
      <4>1. x \o Append(f, v) = Append(x \o f, v)
        BY SMTT(60)
      <4>2. y \o Append(f, v) = Append(y \o f, v)
        BY SMTT(60)
      <4> QED
        BY ONLY <3>2, <4>1, <4>2, Zenon
    <3>5. x \o f \in Seq(Word) /\ y \o f \in Seq(Word)
      OBVIOUS
    <3> DEFINE a == x \o f
               b == y \o f
    <3> HIDE DEF a, b
    <3>6. /\ Polymod(a) \in Register /\ Polymod(Append(a, v)) = Feed[Polymod(a)][v]
          /\ Polymod(b) \in Register /\ Polymod(Append(b, v)) = Feed[Polymod(b)][v]
      BY <3>5, PolymodAppend DEF a, b
    <3>7. Polymod(Append(a, v)) = Polymod(Append(b, v))
      BY <2>1, <3>4 DEF a, b
    <3>8. Polymod(a) = Polymod(b)
      BY <3>6, <3>7, FeedCancels
    <3>9. Same(f)
      BY <3>8 DEF a, b
    <3> QED
      BY <1>3, <3>3, <3>9
  <2>2. k + 1 \in 0 .. n
    BY <1>1, <1>3
  <2> HIDE DEF Same
  <2> QED
    BY <2>1, <2>2
<1>4. n \in K
  <2> HIDE DEF K, n
  <2>1. \A k \in 0 .. n : k \in K
    BY <1>1, <1>2, <1>3, InductionUpTo
  <2> QED
    BY <1>1, <2>1
<1> QED
  BY <1>4

\* Six neighbouring words make a difference, whatever is before and behind them.
LEMMA SixWordsShow ==
    ASSUME NEW u \in Seq(Word), NEW c \in Register, NEW e \in Register, NEW v \in Seq(Word),
           Polymod((u \o c) \o v) = Polymod((u \o e) \o v)
    PROVE  c = e
<1> DEFINE z == Polymod(u \o Words(0))
<1>1. c \in Seq(Word) /\ e \in Seq(Word) /\ Words(0) \in Seq(Word)
  BY WordsRegister, RegisterSeq
<1>2. u \o c \in Seq(Word) /\ u \o e \in Seq(Word) /\ u \o Words(0) \in Seq(Word)
  BY <1>1
<1>3. Polymod(u \o c) = Polymod(u \o e)
  BY <1>2, SameTail
<1>4. z \in Register
  <2>1. 0 \in Word
    BY DEF Word
  <2> QED
    BY <1>2, <2>1, PolymodAppend
<1>5. Polymod(u \o c) = XorAll(z, c) /\ Polymod(u \o e) = XorAll(z, e)
  BY SixFed
<1> HIDE DEF z
<1>6. XorAll(z, XorAll(z, c)) = c /\ XorAll(z, XorAll(z, e)) = e
  BY <1>4, XorAllUndone
<1> QED
  BY <1>3, <1>5, <1>6

\* A piece of a sequence of words.
LEMMA PieceOfWords ==
    ASSUME NEW w \in Seq(Word), NEW m \in Nat, NEW n \in Nat, m <= n, n <= Len(w)
    PROVE  /\ SubSeq(w, m + 1, n) \in Seq(Word)
           /\ Len(SubSeq(w, m + 1, n)) = n - m
           /\ \A i \in 1 .. n - m : SubSeq(w, m + 1, n)[i] = w[m + i]
<1> DEFINE t == SubSeq(w, m + 1, n)
           l == Len(w)
<1>1. l \in Nat /\ n <= l /\ \A i \in 1 .. l : w[i] \in Word
  OBVIOUS
<1> HIDE DEF l
<1>2. m + 1 \in Int /\ n \in Int /\ \A i \in (m + 1) .. n : w[i] \in Word
  <2>1. \A i \in (m + 1) .. n : i \in 1 .. l
    BY <1>1
  <2> QED
    BY <1>1, <2>1
<1>3. /\ t \in Seq(Word)
      /\ Len(t) = IF m + 1 <= n THEN n - (m + 1) + 1 ELSE 0
      /\ \A i \in 1 .. n - (m + 1) + 1 : t[i] = w[(m + 1) + i - 1]
  BY <1>2, SubSeqProperties
<1> HIDE DEF t
<1>4. Len(t) = n - m
  BY <1>3
<1>5. \A i \in 1 .. n - m : i \in 1 .. n - (m + 1) + 1 /\ (m + 1) + i - 1 = m + i
  OBVIOUS
<1>6. \A i \in 1 .. n - m : t[i] = w[m + i]
  BY <1>3, <1>5
<1> QED
  BY <1>3, <1>4, <1>6 DEF t

\* Pieces that agree word by word are the same.
LEMMA SamePieces ==
    ASSUME NEW w \in Seq(Word), NEW z \in Seq(Word), NEW m \in Nat, NEW n \in Nat,
           m <= n, n <= Len(w), n <= Len(z), \A i \in (m + 1) .. n : w[i] = z[i]
    PROVE  SubSeq(w, m + 1, n) = SubSeq(z, m + 1, n)
<1> DEFINE p == SubSeq(w, m + 1, n)
           q == SubSeq(z, m + 1, n)
<1>1. p \in Seq(Word) /\ Len(p) = n - m /\ \A i \in 1 .. n - m : p[i] = w[m + i]
  BY PieceOfWords
<1>2. q \in Seq(Word) /\ Len(q) = n - m /\ \A i \in 1 .. n - m : q[i] = z[m + i]
  BY PieceOfWords
<1> HIDE DEF p, q
<1>3. \A i \in 1 .. n - m : m + i \in (m + 1) .. n
  OBVIOUS
<1>4. \A i \in 1 .. n - m : p[i] = q[i]
  BY <1>1, <1>2, <1>3
<1>5. p = q
  BY <1>1, <1>2, <1>4, SeqEqual
<1> QED
  BY <1>5 DEF p, q

\* The pieces before, in and behind six places make up the words.
LEMMA ThreePieces ==
    ASSUME NEW w \in Seq(Word), NEW q \in Nat, q + 6 <= Len(w)
    PROVE  /\ w = (SubSeq(w, 1, q) \o SubSeq(w, q + 1, q + 6)) \o SubSeq(w, (q + 6) + 1, Len(w))
           /\ SubSeq(w, 1, q) \in Seq(Word)
           /\ SubSeq(w, q + 1, q + 6) \in Register
           /\ SubSeq(w, (q + 6) + 1, Len(w)) \in Seq(Word)
<1> DEFINE n == Len(w)
           k == q + 6
<1>1. n \in Nat /\ k \in Nat /\ q <= k /\ k <= n /\ q <= n
  OBVIOUS
<1>2. SubSeq(w, 1, q) \o SubSeq(w, q + 1, k) = SubSeq(w, 1, k)
  <2>1. 1 \in 1 .. n + 1 /\ q \in (1 - 1) .. n /\ k \in q .. n
    BY <1>1
  <2> QED
    BY <2>1, ConcatAdjacentSubSeq
<1>3. SubSeq(w, 1, k) \o SubSeq(w, k + 1, n) = SubSeq(w, 1, n)
  <2>1. 1 \in 1 .. n + 1 /\ k \in (1 - 1) .. n /\ n \in k .. n
    BY <1>1
  <2> QED
    BY <2>1, ConcatAdjacentSubSeq
<1>4. SubSeq(w, 1, n) = w
  BY SubSeqFull
<1>5. SubSeq(w, 0 + 1, q) \in Seq(Word)
  BY <1>1, PieceOfWords, 0 \in Nat, 0 <= q
<1>6. SubSeq(w, k + 1, n) \in Seq(Word)
  BY <1>1, PieceOfWords
<1>7. SubSeq(w, q + 1, k) \in Register
  <2> DEFINE t == SubSeq(w, q + 1, k)
  <2>1. t \in Seq(Word) /\ Len(t) = k - q
    BY <1>1, PieceOfWords
  <2> HIDE DEF t
  <2>2. t \in [1 .. Len(t) -> Word]
    BY <2>1, LenProperties
  <2>3. k - q = 6
    OBVIOUS
  <2>4. Len(t) = 6
    BY <2>1, <2>3
  <2> QED
    BY <2>2, <2>4 DEF t, Register, ChecksumLength
<1>8. 0 + 1 = 1
  OBVIOUS
<1> HIDE DEF k, n
<1> QED
  BY <1>2, <1>3, <1>4, <1>5, <1>6, <1>7, <1>8 DEF k, n

\* Two valid sequences of words, behind the same words, do not differ at six
\* neighbouring places only.
LEMMA WordsInWindow ==
    ASSUME NEW h \in Seq(Word), NEW w \in Seq(Word), NEW z \in Seq(Word), Len(w) = Len(z),
           NEW q \in Nat, q + 6 <= Len(w),
           \A i \in 1 .. Len(w) : i \notin (q + 1) .. (q + 6) => w[i] = z[i],
           Polymod(h \o w) = Polymod(h \o z)
    PROVE  w = z
<1> DEFINE a(x) == SubSeq(x, 1, q)
           c(x) == SubSeq(x, q + 1, q + 6)
           b(x) == SubSeq(x, (q + 6) + 1, Len(x))
<1>1. w = (a(w) \o c(w)) \o b(w) /\ a(w) \in Seq(Word) /\ c(w) \in Register /\ b(w) \in Seq(Word)
  BY ThreePieces
<1>2. z = (a(z) \o c(z)) \o b(z) /\ a(z) \in Seq(Word) /\ c(z) \in Register /\ b(z) \in Seq(Word)
  BY ThreePieces
<1>0. Len(w) \in Nat
  OBVIOUS
<1>3. a(w) = a(z)
  <2>1. /\ 0 \in Nat /\ 0 <= q /\ q <= Len(w) /\ q <= Len(z) /\ 0 + 1 = 1
        /\ \A i \in (0 + 1) .. q : i \in 1 .. Len(w) /\ i \notin (q + 1) .. (q + 6)
    BY <1>0
  <2>2. \A i \in (0 + 1) .. q : w[i] = z[i]
    BY <2>1
  <2>3. SubSeq(w, 0 + 1, q) = SubSeq(z, 0 + 1, q)
    BY <2>1, <2>2, SamePieces
  <2> QED
    BY <2>1, <2>3
<1>4. b(w) = b(z)
  <2> DEFINE k == q + 6
             n == Len(w)
  <2>1. /\ k \in Nat /\ n \in Nat /\ k <= n /\ n <= Len(w) /\ n <= Len(z)
        /\ \A i \in (k + 1) .. n : i \in 1 .. n /\ i \notin (q + 1) .. k
    BY <1>0
  <2>2. \A i \in (k + 1) .. n : w[i] = z[i]
    BY <2>1
  <2> HIDE DEF k, n
  <2>3. SubSeq(w, k + 1, n) = SubSeq(z, k + 1, n)
    BY <2>1, <2>2, SamePieces
  <2> QED
    BY <2>3 DEF k, n
<1> HIDE DEF a, b, c
<1> DEFINE u == h \o a(w)
<1>5. u \in Seq(Word)
  BY <1>1
<1>6. c(w) \in Seq(Word) /\ c(z) \in Seq(Word)
  BY <1>1, <1>2, RegisterSeq
<1>7. \A x \in Seq(Word) :
          h \o ((a(w) \o x) \o b(w)) = (u \o x) \o b(w)
  <2> SUFFICES ASSUME NEW x \in Seq(Word) PROVE h \o ((a(w) \o x) \o b(w)) = (u \o x) \o b(w)
    OBVIOUS
  <2> DEFINE p == a(w)
             r == b(w)
  <2>1. p \in Seq(Word) /\ r \in Seq(Word)
    BY <1>1
  <2> HIDE DEF p, r
  <2>2. p \o x \in Seq(Word)
    BY <2>1
  <2> DEFINE y == p \o x
  <2>5. y \in Seq(Word)
    BY <2>2
  <2>4. h \o y = (h \o p) \o x
    BY ONLY <2>1, h \in Seq(Word), x \in Seq(Word), SMT
  <2> HIDE DEF y
  <2>3. h \o (y \o r) = (h \o y) \o r
    BY ONLY <2>1, <2>5, h \in Seq(Word), SMTT(60)
  <2> QED
    BY <2>3, <2>4 DEF p, r, y
<1> HIDE DEF u
<1>8. Polymod((u \o c(w)) \o b(w)) = Polymod((u \o c(z)) \o b(w))
  BY <1>1, <1>2, <1>3, <1>4, <1>6, <1>7, Zenon
<1>9. c(w) = c(z)
  BY <1>1, <1>2, <1>5, <1>8, SixWordsShow
<1> QED
  BY <1>1, <1>2, <1>3, <1>4, <1>9, Zenon

-----------------------------------------------------------------------------
(* Where the texts of two addresses differ.                                *)

\* Sequences of one length that differ at the places I only.
AgreeOutside(I, x, y) == Len(x) = Len(y) /\ \A j \in 1 .. Len(x) : j \notin I => x[j] = y[j]

\* More of the texts that prefixes are made of.
LEMMA PrefixPieces ==
    /\ \A t \in Types : /\ TypePrefix[t][1] = 109 /\ TypePrefix[t][2] = 110
                        /\ \A i \in 1 .. Len(TypePrefix[t]) : TypePrefix[t][i] # Separator
    /\ \A n \in Networks :
           \A i \in 1 .. Len(NetworkSuffix[n]) : NetworkSuffix[n][i] # Separator
    /\ TypePrefix["unshielded"][5] = 100 /\ TypePrefix["dust"][5] = 117
    /\ NetworkSuffix["preprod"][6] = 114 /\ NetworkSuffix["preview"][6] = 105
<1> DEFINE Plain(s) == \A i \in 1 .. Len(s) : s[i] # Separator
           Begins(s) == s[1] = 109 /\ s[2] = 110
<1>1. Plain(TypePrefix["unshielded"]) /\ Begins(TypePrefix["unshielded"])
  BY SMT DEF TypePrefix, Separator
<1>2. Plain(TypePrefix["shielded"]) /\ Begins(TypePrefix["shielded"])
  BY SMT DEF TypePrefix, Separator
<1>3. Plain(TypePrefix["dust"]) /\ Begins(TypePrefix["dust"])
  BY SMT DEF TypePrefix, Separator
<1>4. Plain(NetworkSuffix["mainnet"])
  BY SMT DEF NetworkSuffix, Separator
<1>5. Plain(NetworkSuffix["preprod"])
  BY SMT DEF NetworkSuffix, Separator
<1>6. Plain(NetworkSuffix["preview"])
  BY SMT DEF NetworkSuffix, Separator
<1>7. Plain(NetworkSuffix["undeployed"])
  BY SMT DEF NetworkSuffix, Separator
<1>8. TypePrefix["unshielded"][5] = 100 /\ TypePrefix["dust"][5] = 117
  BY SMT DEF TypePrefix
<1>9. NetworkSuffix["preprod"][6] = 114 /\ NetworkSuffix["preview"][6] = 105
  BY SMT DEF NetworkSuffix
<1> HIDE DEF Plain, Begins
<1>10. \A t \in Types : Plain(TypePrefix[t]) /\ Begins(TypePrefix[t])
  BY <1>1, <1>2, <1>3 DEF Types
<1>11. \A n \in Networks : Plain(NetworkSuffix[n])
  BY <1>4, <1>5, <1>6, <1>7 DEF Networks
<1> QED
  BY <1>8, <1>9, <1>10, <1>11 DEF Plain, Begins

\* Where the characters of a prefix come from.
PlacesOfPrefix(t, n) ==
    LET h == HRP_TABLE[<<t, n>>]
        x == Len(TypePrefix[t])
        y == Len(NetworkSuffix[n])
    IN  /\ x \in {7, 14} /\ y \in {0, 8, 11} /\ Len(h) = x + y
        /\ h[1] = 109 /\ h[2] = 110
        /\ h[4] = TypePrefix[t][4] /\ h[5] = TypePrefix[t][5]
        /\ y > 0 => h[x + 5] = NetworkSuffix[n][5] /\ h[x + 6] = NetworkSuffix[n][6]
        /\ \A i \in 1 .. Len(h) : h[i] # Separator

\* A prefix begins with mn and has no separator.
LEMMA PrefixPlaces ==
    ASSUME NEW t \in Types, NEW n \in Networks
    PROVE  PlacesOfPrefix(t, n)
<1> DEFINE p == TypePrefix[t]
           s == NetworkSuffix[n]
           h == HRP_TABLE[<<t, n>>]
           x == Len(p)
           y == Len(s)
<1>1. x \in {7, 14} /\ y \in {0, 8, 11}
  BY PrefixParts DEF Types, Networks
<1>2. p \in Seq(Character) /\ s \in Seq(Character) /\ h = p \o s
  BY PrefixParts, PrefixFacts DEF Small
<1>3. /\ p[1] = 109 /\ p[2] = 110
      /\ (\A i \in 1 .. x : p[i] # Separator) /\ \A i \in 1 .. y : s[i] # Separator
  BY PrefixPieces
<1> HIDE DEF p, s, h
<1>4. /\ Len(h) = x + y
      /\ \A i \in 1 .. x + y : h[i] = IF i <= x THEN p[i] ELSE s[i - x]
  BY <1>2, ConcatProperties
<1> HIDE DEF x, y
<1>5. h[1] = p[1] /\ h[2] = p[2] /\ h[4] = p[4] /\ h[5] = p[5]
  BY <1>1, <1>4
<1>6. y > 0 => h[x + 5] = s[5] /\ h[x + 6] = s[6]
  <2> SUFFICES ASSUME y > 0 PROVE h[x + 5] = s[5] /\ h[x + 6] = s[6]
    OBVIOUS
  <2>1. /\ x + 5 \in 1 .. x + y /\ ~ (x + 5 <= x) /\ (x + 5) - x = 5
        /\ x + 6 \in 1 .. x + y /\ ~ (x + 6 <= x) /\ (x + 6) - x = 6
    BY <1>1
  <2> QED
    BY <1>4, <2>1
<1>7. ASSUME NEW i \in 1 .. x + y PROVE h[i] # Separator
  <2>1. CASE i <= x
    <3>1. i \in 1 .. x
      BY <1>1, <2>1
    <3> QED
      BY <1>3, <1>4, <2>1, <3>1
  <2>2. CASE ~ (i <= x)
    <3>1. i - x \in 1 .. y
      BY <1>1, <2>2
    <3> QED
      BY <1>3, <1>4, <2>2, <3>1
  <2> QED
    BY <2>1, <2>2
<1> QED
  BY <1>1, <1>3, <1>4, <1>5, <1>6, <1>7 DEF p, s, h, x, y, PlacesOfPrefix

\* Two prefixes of one length differ at two places at least.
LEMMA PrefixesFarApart ==
    ASSUME NEW t \in Types, NEW n \in Networks, NEW u \in Types, NEW m \in Networks,
           NEW i, AgreeOutside({i}, HRP_TABLE[<<t, n>>], HRP_TABLE[<<u, m>>])
    PROVE  t = u /\ n = m
<1> DEFINE h == HRP_TABLE[<<t, n>>]
           g == HRP_TABLE[<<u, m>>]
           x(k) == Len(TypePrefix[k])
           y(k) == Len(NetworkSuffix[k])
<1>1. /\ x(t) \in {7, 14} /\ y(n) \in {0, 8, 11} /\ Len(h) = x(t) + y(n)
      /\ h[4] = TypePrefix[t][4] /\ h[5] = TypePrefix[t][5]
      /\ y(n) > 0 => /\ h[x(t) + 5] = NetworkSuffix[n][5]
                     /\ h[x(t) + 6] = NetworkSuffix[n][6]
  <2>1. PlacesOfPrefix(t, n)
    BY PrefixPlaces
  <2> QED
    BY ONLY <2>1, Zenon DEF PlacesOfPrefix
<1>2. /\ x(u) \in {7, 14} /\ y(m) \in {0, 8, 11} /\ Len(g) = x(u) + y(m)
      /\ g[4] = TypePrefix[u][4] /\ g[5] = TypePrefix[u][5]
      /\ y(m) > 0 => /\ g[x(u) + 5] = NetworkSuffix[m][5]
                     /\ g[x(u) + 6] = NetworkSuffix[m][6]
  <2>1. PlacesOfPrefix(u, m)
    BY PrefixPlaces
  <2> QED
    BY ONLY <2>1, Zenon DEF PlacesOfPrefix
<1>3. /\ x("unshielded") = 7 /\ x("shielded") = 14 /\ x("dust") = 7
      /\ TypePrefix["unshielded"][4] = 97 /\ TypePrefix["dust"][4] = 100
      /\ TypePrefix["unshielded"][5] = 100 /\ TypePrefix["dust"][5] = 117
  BY PrefixParts, PrefixPieces
<1>4. /\ y("mainnet") = 0 /\ y("preprod") = 8 /\ y("preview") = 8 /\ y("undeployed") = 11
      /\ NetworkSuffix["preprod"][5] = 112 /\ NetworkSuffix["preview"][5] = 118
      /\ NetworkSuffix["preprod"][6] = 114 /\ NetworkSuffix["preview"][6] = 105
  BY PrefixParts, PrefixPieces
<1>5. Len(h) = Len(g) /\ \A j \in 1 .. Len(h) : j # i => h[j] = g[j]
  BY DEF AgreeOutside
<1> HIDE DEF h, g, x, y
<1>6. x(t) = x(u) /\ y(n) = y(m)
  <2> DEFINE x1 == x(t)
             x2 == x(u)
             y1 == y(n)
             y2 == y(m)
  <2>1. /\ x1 \in {7, 14} /\ x2 \in {7, 14} /\ y1 \in {0, 8, 11} /\ y2 \in {0, 8, 11}
        /\ x1 + y1 = x2 + y2
    BY <1>1, <1>2, <1>5
  <2> HIDE DEF x1, x2, y1, y2
  <2>2. x1 = x2 /\ y1 = y2
    BY <2>1
  <2> QED
    BY <2>2 DEF x1, x2, y1, y2
<1>7. t = u
  <2>1. h[4] = g[4] \/ h[5] = g[5]
    <3>1. 4 \in 1 .. Len(h) /\ 5 \in 1 .. Len(h)
      BY <1>1
    <3>2. 4 # i \/ 5 # i
      OBVIOUS
    <3> QED
      BY <1>5, <3>1, <3>2
  <2>2. TypePrefix[t][4] = TypePrefix[u][4] \/ TypePrefix[t][5] = TypePrefix[u][5]
    BY <1>1, <1>2, <2>1
  <2>3. t \in {"unshielded", "shielded", "dust"} /\ u \in {"unshielded", "shielded", "dust"}
    BY DEF Types
  <2> QED
    BY ONLY <1>3, <1>6, <2>2, <2>3
<1>8. n = m
  <2>1. ASSUME y(n) = 8
        PROVE  \/ NetworkSuffix[n][5] = NetworkSuffix[m][5]
               \/ NetworkSuffix[n][6] = NetworkSuffix[m][6]
    <3>1. x(t) + 5 \in 1 .. Len(h) /\ x(t) + 6 \in 1 .. Len(h) /\ x(t) + 5 # x(t) + 6
      BY <1>1, <2>1
    <3>2. x(t) + 5 # i \/ x(t) + 6 # i
      BY <3>1
    <3>3. h[x(t) + 5] = g[x(t) + 5] \/ h[x(t) + 6] = g[x(t) + 6]
      BY <1>5, <3>1, <3>2
    <3>4. y(n) > 0 /\ y(m) > 0
      BY <1>6, <2>1
    <3>5. /\ h[x(t) + 5] = NetworkSuffix[n][5] /\ h[x(t) + 6] = NetworkSuffix[n][6]
          /\ g[x(t) + 5] = NetworkSuffix[m][5] /\ g[x(t) + 6] = NetworkSuffix[m][6]
      BY <1>1, <1>2, <1>6, <3>4
    <3> QED
      BY <3>3, <3>5
  <2>2. /\ n \in {"mainnet", "preprod", "preview", "undeployed"}
        /\ m \in {"mainnet", "preprod", "preview", "undeployed"}
    BY DEF Networks
  <2> QED
    BY ONLY <1>4, <1>6, <2>1, <2>2
<1> QED
  BY <1>7, <1>8

\* The prefix of an address, its words with the checksum, and the place of the
\* separator.
Prefix(a) == HRP_TABLE[<<a.type, a.network>>]
DataWords(a) == LET d == PaddedGroups(a.payload) IN d \o CreateChecksum(Prefix(a), d)
Divide(a) == Len(Prefix(a)) + 1

\* Where the characters of encode_address's text come from.
PlacesOfText(a, e, h, w, p) ==
    /\ h \in Seq(Character) /\ p = Len(h) + 1 /\ p \in Nat /\ p > 7
    /\ h[1] = 109 /\ h[2] = 110
    /\ w \in Seq(Word) /\ Len(w) \in Nat /\ Len(w) >= 6
    /\ Polymod(HrpExpand(h) \o w) = BECH32M_CONST
    /\ e \in Seq(Nat) /\ Len(e) = p + Len(w)
    /\ \A i \in 1 .. p - 1 : e[i] = h[i] /\ e[i] # Separator
    /\ e[p] = Separator
    /\ \A k \in 1 .. Len(w) : e[p + k] = CHARSET[w[k] + 1] /\ e[p + k] # Separator

\* The characters of an address's text are its prefix's, the separator and
\* those of its words.
LEMMA AddressPlaces ==
    ASSUME NEW a \in Address
    PROVE  PlacesOfText(a, EncodeAddress(a), Prefix(a), DataWords(a), Divide(a))
<1> DEFINE h == Prefix(a)
           d == PaddedGroups(a.payload)
           w == DataWords(a)
           c == Written(w)
           sep == <<Separator>>
           f == h \o sep
           e == f \o c
<1>1. Small(h) /\ h \in Seq(Character) /\ d \in Seq(Word)
  BY AddressText DEF Prefix
<1>2. /\ EncodeAddress(a) = e /\ w \in Seq(Word) /\ Len(w) = Len(d) + 6
      /\ VerifyChecksum(h, w)
  BY <1>1, EncodedText DEF EncodeAddress, DataWords, Prefix
<1>3. PlacesOfPrefix(a.type, a.network)
  BY PrefixPlaces DEF Address
<1>4. /\ Len(h) \in Nat /\ Len(h) > 6 /\ h[1] = 109 /\ h[2] = 110
      /\ \A i \in 1 .. Len(h) : h[i] # Separator
  <2> DEFINE x == Len(TypePrefix[a.type])
             y == Len(NetworkSuffix[a.network])
  <2>1. /\ x \in {7, 14} /\ y \in {0, 8, 11} /\ Len(h) = x + y /\ h[1] = 109 /\ h[2] = 110
        /\ \A i \in 1 .. Len(h) : h[i] # Separator
    BY ONLY <1>3, Zenon DEF PlacesOfPrefix, Prefix
  <2> HIDE DEF x, y, h
  <2> QED
    BY <2>1
<1>5. Polymod(HrpExpand(h) \o w) = BECH32M_CONST
  BY <1>2 DEF VerifyChecksum
<1>6. Len(d) \in Nat
  BY <1>1
<1> HIDE DEF h, d, w
<1>7. Len(w) \in Nat /\ Len(w) >= 6
  BY <1>2, <1>6
<1>8. /\ c \in Seq(Nat) /\ Len(c) = Len(w)
      /\ \A k \in 1 .. Len(w) : c[k] = CHARSET[w[k] + 1] /\ c[k] # Separator
  <2>1. c \in Seq(Nat) /\ Len(c) = Len(w) /\ \A k \in DOMAIN c : c[k] # Separator
    BY <1>2, WrittenWords
  <2>2. DOMAIN w = 1 .. Len(w)
    BY <1>2
  <2>3. DOMAIN c = 1 .. Len(w) /\ \A k \in 1 .. Len(w) : c[k] = CHARSET[w[k] + 1]
    BY <2>2, Zenon DEF Written
  <2> QED
    BY <2>1, <2>3
<1>9. h \in Seq(Nat)
  BY <1>1, CharactersAreNumbers
<1>10. sep \in Seq(Nat) /\ Len(sep) = 1 /\ sep[1] = Separator
  BY DEF Separator
<1> HIDE DEF c, sep
<1> DEFINE n == Len(h)
           m == Len(w)
<1>11. n \in Nat /\ m \in Nat /\ n > 6
  BY <1>4, <1>7
<1>12. /\ f \in Seq(Nat) /\ Len(f) = n + 1
       /\ \A i \in 1 .. n + 1 : f[i] = IF i <= n THEN h[i] ELSE sep[i - n]
  <2>1. /\ f \in Seq(Nat) /\ Len(f) = n + Len(sep)
        /\ \A i \in 1 .. n + Len(sep) : f[i] = IF i <= n THEN h[i] ELSE sep[i - n]
    BY <1>9, <1>10, ConcatProperties
  <2> HIDE DEF f, n
  <2> QED
    BY <1>10, <2>1
<1> HIDE DEF f
<1>13. /\ e \in Seq(Nat) /\ Len(e) = n + 1 + m
       /\ \A i \in 1 .. n + 1 + m : e[i] = IF i <= n + 1 THEN f[i] ELSE c[i - (n + 1)]
  <2>1. /\ e \in Seq(Nat) /\ Len(e) = Len(f) + Len(c)
        /\ \A i \in 1 .. Len(f) + Len(c) : e[i] = IF i <= Len(f) THEN f[i] ELSE c[i - Len(f)]
    <3>1. f \in Seq(Nat) /\ c \in Seq(Nat)
      BY <1>8, <1>12
    <3> QED
      BY ONLY <3>1, ConcatProperties
  <2> HIDE DEF e, n, m
  <2> QED
    BY <1>8, <1>12, <2>1 DEF m
<1>14. \A i \in 1 .. n : e[i] = h[i] /\ e[i] # Separator
  <2>1. \A i \in 1 .. n : i \in 1 .. n + 1 /\ i \in 1 .. n + 1 + m /\ i <= n /\ i <= n + 1
    BY <1>11
  <2> HIDE DEF e
  <2>2. \A i \in 1 .. n : e[i] = f[i]
    BY ONLY <1>13, <2>1
  <2>3. \A i \in 1 .. n : f[i] = h[i]
    BY ONLY <1>12, <2>1
  <2> QED
    BY <1>4, <2>2, <2>3
<1>15. e[n + 1] = Separator
  <2>1. /\ n + 1 \in 1 .. n + 1 /\ n + 1 \in 1 .. n + 1 + m /\ ~ (n + 1 <= n) /\ n + 1 <= n + 1
        /\ (n + 1) - n = 1
    BY <1>11
  <2> HIDE DEF e, n, m
  <2> QED
    BY <1>10, <1>12, <1>13, <2>1
<1>16. \A k \in 1 .. m : e[(n + 1) + k] = CHARSET[w[k] + 1] /\ e[(n + 1) + k] # Separator
  <2> SUFFICES ASSUME NEW k \in 1 .. m
               PROVE  e[(n + 1) + k] = CHARSET[w[k] + 1] /\ e[(n + 1) + k] # Separator
    OBVIOUS
  <2> HIDE DEF e, n
  <2>1. k \in 1 .. Len(w)
    BY DEF m
  <2> HIDE DEF m
  <2>2. /\ (n + 1) + k \in 1 .. n + 1 + m /\ ~ ((n + 1) + k <= n + 1)
        /\ ((n + 1) + k) - (n + 1) = k
    BY <1>11
  <2>3. e[(n + 1) + k] = c[k]
    BY <1>13, <2>2
  <2> QED
    BY <1>8, <2>1, <2>3
<1>17. Divide(a) = n + 1 /\ n + 1 \in Nat /\ n + 1 > 7 /\ (n + 1) - 1 = n
  BY <1>11 DEF Divide, h
<1> HIDE DEF e, n, m
<1>18. PlacesOfText(a, e, h, w, n + 1)
  BY <1>1, <1>2, <1>4, <1>5, <1>7, <1>13, <1>14, <1>15, <1>16, <1>17 DEF PlacesOfText, n, m
<1> QED
  BY <1>2, <1>17, <1>18 DEF h, w

\* Characters stand for one word each.
LEMMA CharsetInjective ==
    ASSUME NEW d \in Word, NEW e \in Word, CHARSET[d + 1] = CHARSET[e + 1]
    PROVE  d = e
<1>1. Meaning[CHARSET[d + 1]] = d /\ Meaning[CHARSET[e + 1]] = e
  BY CharsetFacts
<1> QED
  BY <1>1

\* Two addresses' texts that differ in a window of six characters behind the
\* separator only do not differ.
LEMMA SameInWindow ==
    ASSUME NEW a \in Address, NEW b \in Address, NEW p \in Nat, p > Divide(a),
           AgreeOutside(p .. (p + 5), EncodeAddress(a), EncodeAddress(b))
    PROVE  EncodeAddress(a) = EncodeAddress(b)
<1> DEFINE e == EncodeAddress(a)
           f == EncodeAddress(b)
           h == Prefix(a)
           g == Prefix(b)
           w == DataWords(a)
           z == DataWords(b)
           k == Divide(a)
           l == Divide(b)
<1>1. PlacesOfText(a, e, h, w, k) /\ PlacesOfText(b, f, g, z, l)
  BY AddressPlaces
<1>2. Len(e) = Len(f) /\ p > k /\ \A i \in 1 .. Len(e) : i \notin p .. (p + 5) => e[i] = f[i]
  BY DEF AgreeOutside
<1> HIDE DEF e, f, h, g, w, z, k, l
<1>3. /\ h \in Seq(Character) /\ k = Len(h) + 1 /\ k \in Nat /\ k > 7
      /\ w \in Seq(Word) /\ Len(w) \in Nat /\ Len(w) >= 6
      /\ Polymod(HrpExpand(h) \o w) = BECH32M_CONST
      /\ e \in Seq(Nat) /\ Len(e) = k + Len(w)
      /\ \A i \in 1 .. k - 1 : e[i] = h[i] /\ e[i] # Separator
      /\ e[k] = Separator
      /\ \A i \in 1 .. Len(w) : e[k + i] = CHARSET[w[i] + 1] /\ e[k + i] # Separator
  BY ONLY <1>1 DEF PlacesOfText
<1>4. /\ g \in Seq(Character) /\ l = Len(g) + 1 /\ l \in Nat /\ l > 7
      /\ z \in Seq(Word) /\ Len(z) \in Nat /\ Len(z) >= 6
      /\ Polymod(HrpExpand(g) \o z) = BECH32M_CONST
      /\ f \in Seq(Nat) /\ Len(f) = l + Len(z)
      /\ \A i \in 1 .. l - 1 : f[i] = g[i] /\ f[i] # Separator
      /\ f[l] = Separator
      /\ \A i \in 1 .. Len(z) : f[l + i] = CHARSET[z[i] + 1] /\ f[l + i] # Separator
  BY ONLY <1>1 DEF PlacesOfText
<1>0. /\ k \in Nat /\ l \in Nat /\ k > 7 /\ l > 7 /\ Len(w) \in Nat /\ Len(z) \in Nat
      /\ Len(e) = k + Len(w) /\ Len(e) = l + Len(z) /\ Len(w) >= 6 /\ p > k
  BY <1>2, <1>3, <1>4
<1>5. \A i \in 1 .. k : i \in 1 .. Len(e) /\ i \notin p .. (p + 5)
  BY ONLY <1>0, p \in Nat
<1>6. \A i \in 1 .. k : e[i] = f[i]
  BY <1>2, <1>5
<1>7. k = l
  <2>1. ~ (k < l)
    <3> SUFFICES ASSUME k < l PROVE FALSE
      OBVIOUS
    <3>1. k \in 1 .. k /\ k \in 1 .. l - 1
      BY ONLY <1>0, k < l
    <3> QED
      BY <1>3, <1>4, <1>6, <3>1
  <2>2. ~ (l < k)
    <3> SUFFICES ASSUME l < k PROVE FALSE
      OBVIOUS
    <3>1. l \in 1 .. k /\ l \in 1 .. k - 1
      BY ONLY <1>0, l < k
    <3> QED
      BY <1>3, <1>4, <1>6, <3>1
  <2> QED
    BY <1>3, <1>4, <2>1, <2>2
<1>8. h = g
  <2>3. h \in Seq(Character) /\ g \in Seq(Character)
    BY <1>3, <1>4
  <2>1. Len(h) \in Nat /\ Len(g) \in Nat
    BY ONLY <2>3, LenProperties
  <2>2. Len(h) = Len(g) /\ \A i \in 1 .. Len(h) : i \in 1 .. k /\ i \in 1 .. k - 1
    <3>1. k = Len(h) + 1 /\ k = Len(g) + 1
      BY <1>3, <1>4, <1>7
    <3>2. \A x \in Nat : (x + 1) - 1 = x
      OBVIOUS
    <3>3. (Len(h) + 1) - 1 = Len(h) /\ (Len(g) + 1) - 1 = Len(g)
      BY ONLY <2>1, <3>2
    <3>4. Len(h) = k - 1 /\ Len(g) = k - 1
      BY ONLY <3>1, <3>3, Zenon
    <3>5. \A i \in 1 .. k - 1 : i \in 1 .. k
      BY ONLY <1>0
    <3> QED
      BY ONLY <3>4, <3>5
  <2>4. \A i \in 1 .. Len(h) : h[i] = g[i]
    BY <1>3, <1>4, <1>6, <1>7, <2>2
  <2> QED
    BY <2>2, <2>3, <2>4, SeqEqual
<1> DEFINE n == Len(w)
           q == IF p - k - 1 <= n - 6 THEN p - k - 1 ELSE n - 6
<1>9. Len(z) = n /\ n \in Nat /\ n >= 6
  BY ONLY <1>0, <1>7
<1>10. q \in Nat /\ q + 6 <= n
  BY ONLY <1>0, <1>9, p \in Nat
<1>11. ASSUME NEW i \in 1 .. n, i \notin (q + 1) .. (q + 6) PROVE w[i] = z[i]
  <2>1. k + i \notin p .. (p + 5)
    BY ONLY <1>0, <1>9, <1>11, p \in Nat
  <2> HIDE DEF n
  <2>2. k + i \in 1 .. Len(e) /\ i \in 1 .. Len(w) /\ i \in 1 .. Len(z)
    BY <1>3, <1>9 DEF n
  <2>3. e[k + i] = f[l + i]
    BY <1>2, <1>7, <2>1, <2>2
  <2>4. CHARSET[w[i] + 1] = CHARSET[z[i] + 1]
    BY <1>3, <1>4, <2>2, <2>3
  <2>5. w[i] \in Word /\ z[i] \in Word
    <3>1. w \in Seq(Word) /\ z \in Seq(Word)
      BY <1>3, <1>4
    <3> QED
      BY ONLY <2>2, <3>1
  <2> QED
    BY <2>4, <2>5, CharsetInjective
<1> HIDE DEF q
<1>12. w = z
  <2>1. HrpExpand(h) \in Seq(Word)
    BY <1>3, HrpExpandWords
  <2>2. Polymod(HrpExpand(h) \o w) = Polymod(HrpExpand(h) \o z)
    BY <1>3, <1>4, <1>8
  <2>3. Len(w) = Len(z) /\ q \in Nat /\ q + 6 <= Len(w)
    BY <1>9, <1>10
  <2>4. \A i \in 1 .. Len(w) : i \notin (q + 1) .. (q + 6) => w[i] = z[i]
    BY <1>11
  <2>5. w \in Seq(Word) /\ z \in Seq(Word)
    BY <1>3, <1>4
  <2> HIDE DEF n
  <2> QED
    BY <2>1, <2>2, <2>3, <2>4, <2>5, WordsInWindow
<1>13. \A i \in 1 .. Len(e) : e[i] = f[i]
  <2> SUFFICES ASSUME NEW i \in 1 .. Len(e) PROVE e[i] = f[i]
    OBVIOUS
  <2>1. CASE i <= k
    <3>1. i \in 1 .. k
      BY <1>3, <2>1
    <3> QED
      BY <1>6, <3>1
  <2>2. CASE ~ (i <= k)
    <3> DEFINE j == i - k
    <3>1. j \in 1 .. Len(w) /\ i = k + j
      BY ONLY <1>0, <2>2, i \in 1 .. Len(e)
    <3> HIDE DEF j
    <3> QED
      BY <1>3, <1>4, <1>7, <1>12, <3>1
  <2> QED
    BY <2>1, <2>2
<1>14. e = f
  BY <1>2, <1>3, <1>4, <1>13, SeqEqual
<1> QED
  BY <1>14 DEF e, f

\* The separators of two texts that differ at one place only: one is not before
\* the other.
LEMMA NotBefore ==
    ASSUME NEW a, NEW b, NEW e, NEW f, NEW h, NEW g, NEW w, NEW z, NEW k, NEW l, NEW i,
           PlacesOfText(a, e, h, w, k), PlacesOfText(b, f, g, z, l), AgreeOutside({i}, e, f)
    PROVE  ~ (k < l)
<1>1. /\ k \in Nat /\ k > 7 /\ Len(w) \in Nat /\ Len(e) = k + Len(w) /\ e[k] = Separator
      /\ \A j \in 1 .. Len(w) : e[k + j] # Separator
  BY DEF PlacesOfText
<1>2. /\ l \in Nat /\ Len(z) \in Nat /\ Len(f) = l + Len(z) /\ f[l] = Separator
      /\ \A j \in 1 .. l - 1 : f[j] # Separator
  BY DEF PlacesOfText
<1>3. Len(e) = Len(f) /\ \A j \in 1 .. Len(e) : j # i => e[j] = f[j]
  BY DEF AgreeOutside
<1> SUFFICES ASSUME k < l PROVE FALSE
  OBVIOUS
<1> DEFINE m == Len(w)
           n == Len(e)
           r == Len(z)
<1>4. m \in Nat /\ r \in Nat /\ n = k + m /\ n = l + r
  BY <1>1, <1>2, <1>3
<1> HIDE DEF m, n, r
<1>5. /\ k \in 1 .. l - 1 /\ k \in 1 .. n /\ l \in 1 .. n /\ l - k \in 1 .. m
      /\ k + (l - k) = l /\ k # l
  BY <1>1, <1>2, <1>4
<1>6. f[k] # Separator /\ e[l] # Separator
  <2>1. e[k + (l - k)] # Separator
    BY <1>1, <1>5 DEF m
  <2> QED
    BY <1>2, <1>5, <2>1
<1>7. k = i /\ l = i
  BY <1>1, <1>2, <1>3, <1>5, <1>6 DEF n
<1> QED
  BY <1>5, <1>7

\* Two addresses' texts that differ at one place only do not differ.
LEMMA SameButOne ==
    ASSUME NEW a \in Address, NEW b \in Address, NEW i,
           AgreeOutside({i}, EncodeAddress(a), EncodeAddress(b))
    PROVE  EncodeAddress(a) = EncodeAddress(b)
<1> DEFINE e == EncodeAddress(a)
           f == EncodeAddress(b)
           h == Prefix(a)
           g == Prefix(b)
           w == DataWords(a)
           z == DataWords(b)
           k == Divide(a)
           l == Divide(b)
<1>1. PlacesOfText(a, e, h, w, k) /\ PlacesOfText(b, f, g, z, l)
  BY AddressPlaces
<1>2. Len(e) = Len(f) /\ \A j \in 1 .. Len(e) : j # i => e[j] = f[j]
  BY DEF AgreeOutside
<1>3. ASSUME i \in Nat, i > k PROVE e = f
  <2>1. AgreeOutside(i .. (i + 5), e, f)
    <3>1. i \in i .. (i + 5)
      BY <1>3
    <3> QED
      BY <1>2, <3>1 DEF AgreeOutside
  <2> QED
    BY <1>3, <2>1, SameInWindow
<1> HIDE DEF e, f, w, z, k, l
<1>4. /\ h \in Seq(Character) /\ k = Len(h) + 1 /\ k \in Nat /\ k > 7
      /\ Len(w) \in Nat /\ e \in Seq(Nat) /\ Len(e) = k + Len(w)
      /\ (\A j \in 1 .. k - 1 : e[j] = h[j]) /\ e[k] = Separator
  BY ONLY <1>1 DEF PlacesOfText
<1>5. /\ g \in Seq(Character) /\ l = Len(g) + 1 /\ l \in Nat
      /\ f \in Seq(Nat)
      /\ (\A j \in 1 .. l - 1 : f[j] = g[j]) /\ f[l] = Separator
  BY ONLY <1>1 DEF PlacesOfText
<1>6. k = l
  <2>0. AgreeOutside({i}, e, f) /\ AgreeOutside({i}, f, e)
    BY <1>2 DEF AgreeOutside
  <2>1. ~ (k < l)
    BY <1>1, <2>0, NotBefore
  <2>3. ~ (l < k)
    BY <1>1, <2>0, NotBefore
  <2> QED
    BY ONLY <1>4, <1>5, <2>1, <2>3
<1>7. h = g
  <2> HIDE DEF h, g
  <2>1. Len(h) \in Nat /\ Len(g) \in Nat
    BY <1>4, <1>5, LenProperties
  <2>2. Len(h) = Len(g) /\ \A j \in 1 .. Len(h) : j \in 1 .. k - 1 /\ j \in 1 .. Len(e)
    BY ONLY <1>4, <1>5, <1>6, <2>1
  <2>3. \A j \in 1 .. Len(h) : j # i => h[j] = g[j]
    BY ONLY <1>2, <1>4, <1>5, <1>6, <2>2
  <2> DEFINE t == a.type
             n == a.network
             u == b.type
             m == b.network
  <2>4. t \in Types /\ n \in Networks /\ u \in Types /\ m \in Networks
    BY DEF Address
  <2>5. h = HRP_TABLE[<<t, n>>] /\ g = HRP_TABLE[<<u, m>>]
    BY DEF h, g, Prefix
  <2> HIDE DEF t, n, u, m
  <2>8. AgreeOutside({i}, h, g)
    BY <2>2, <2>3 DEF AgreeOutside
  <2>6. AgreeOutside({i}, HRP_TABLE[<<t, n>>], HRP_TABLE[<<u, m>>])
    BY <2>5, <2>8, Zenon
  <2>7. t = u /\ n = m
    BY <2>4, <2>6, PrefixesFarApart
  <2> QED
    BY <2>5, <2>7
<1> HIDE DEF h, g
<1>8. ASSUME ~ (i \in Nat /\ i > k) PROVE e = f
  <2>1. \A j \in 1 .. Len(e) : e[j] = f[j]
    <3> SUFFICES ASSUME NEW j \in 1 .. Len(e) PROVE e[j] = f[j]
      OBVIOUS
    <3>1. j \in Nat /\ (j \in 1 .. k - 1 \/ j = k \/ j > k)
      BY ONLY <1>4, j \in 1 .. Len(e)
    <3>2. CASE j \in 1 .. k - 1
      BY <1>4, <1>5, <1>6, <1>7, <3>2
    <3>3. CASE j = k
      BY <1>4, <1>5, <1>6, <3>3
    <3>4. CASE j > k
      <4>1. j # i
        BY <1>8, <3>1, <3>4
      <4> QED
        BY <1>2, <4>1
    <3> QED
      BY <3>1, <3>2, <3>3, <3>4
  <2> QED
    BY <1>2, <1>4, <1>5, <2>1, SeqEqual
<1>9. e = f
  BY <1>3, <1>8
<1> QED
  BY <1>9 DEF e, f

-----------------------------------------------------------------------------
(* Mistyped texts.                                                         *)

\* A text with capitals and small letters is not an address.
LEMMA NotMixed ==
    ASSUME NEW s, MixedCase(s)
    PROVE  ~ IsAddress(DecodeAddress(s))
<1> DEFINE bech == Lower(s)
           pos == SelectLastInSeq(bech, LAMBDA x : x = Separator)
           hrp == SubSeq(bech, 1, pos - 1)
           data == SubSeq(bech, pos + 1, Len(bech))
           data5 == [i \in DOMAIN data |-> Symbol[data[i]]]
           d == SubSeq(data5, 1, Len(data5) - ChecksumLength)
           r == Bech32mDecode(s)
           known == {k \in DOMAIN HRP_TABLE : HRP_TABLE[k] = r.hrp}
           info == CHOOSE k \in known : TRUE
           state == Groups(r.data5, 5, 8)
<1>1. r = IF \E i \in DOMAIN s : s[i] \notin 33 .. 126 THEN Failed("character")
          ELSE IF MixedCase(s) THEN Failed("case")
          ELSE IF pos < 2 \/ pos + ChecksumLength > Len(bech) THEN Failed("separator")
          ELSE IF ~ (ToSet(data) \subseteq DOMAIN Symbol) THEN Failed("data character")
          ELSE IF ~ VerifyChecksum(hrp, data5) THEN Failed("checksum")
          ELSE [hrp |-> hrp, data5 |-> d]
  BY DEF Bech32mDecode
<1>2. DecodeAddress(s) =
          IF "error" \in DOMAIN r THEN r
          ELSE IF known = {} THEN Failed("hrp")
          ELSE IF ~ PaddingOK(state) THEN Failed("padding")
          ELSE Decoded(info, state.ret)
  BY DEF DecodeAddress
<1>3. \A why : "error" \in DOMAIN Failed(why) /\ ~ IsAddress(Failed(why))
  BY DEF Failed, IsAddress
<1> HIDE DEF bech, pos, hrp, data, data5, d, r, known, info, state
<1>4. r = Failed("character") \/ r = Failed("case")
  BY <1>1, Zenon
<1> QED
  BY <1>2, <1>3, <1>4, Zenon

\* s is t, mistyped at the places I.
Mistaken(t, s, I) ==
    /\ AgreeOutside(I, s, t)
    /\ I # {} /\ I \subseteq 1 .. Len(s)
    /\ \A j \in I : s[j] # t[j]

\* One character, or some of six neighbouring ones behind the separator k.
Burst(I, k) == (\E i : I = {i}) \/ \E p \in Nat : p > k /\ I \subseteq p .. (p + 5)

\* A character that is not what was written but has its small letter has the
\* other case.
LEMMA OtherCase ==
    ASSUME NEW x \in Nat, NEW y \in Nat, y = IF IsUpper(x) THEN x + 32 ELSE x
    PROVE  /\ x # y => IsUpper(x)
           /\ x # (IF IsLower(y) THEN y - 32 ELSE y) => IsLower(x)
  BY DEF IsUpper, IsLower

\* The small letters of a mistyped text are those of the text elsewhere.
LEMMA MistakenSmall ==
    ASSUME NEW e, Small(e), NEW t \in {e, Upper(e)}, NEW s \in Seq(Nat), NEW I, Mistaken(t, s, I)
    PROVE  AgreeOutside(I, Lower(s), e)
<1>1. e \in Seq(Nat) /\ t \in Seq(Nat) /\ Lower(t) = e
  BY SmallFacts
<1>2. /\ Len(Lower(s)) = Len(s)
      /\ \A i \in 1 .. Len(s) : Lower(s)[i] = IF IsUpper(s[i]) THEN s[i] + 32 ELSE s[i]
  BY LowerUpper
<1>3. /\ Len(Lower(t)) = Len(t)
      /\ \A i \in 1 .. Len(t) : Lower(t)[i] = IF IsUpper(t[i]) THEN t[i] + 32 ELSE t[i]
  BY <1>1, LowerUpper
<1>4. Len(s) = Len(t) /\ \A j \in 1 .. Len(s) : j \notin I => s[j] = t[j]
  BY DEF Mistaken, AgreeOutside
<1> DEFINE l == Lower(s)
<1> HIDE DEF l
<1>5. Len(l) = Len(e) /\ Len(l) = Len(s)
  BY <1>1, <1>2, <1>3, <1>4 DEF l
<1>6. ASSUME NEW j \in 1 .. Len(s), j \notin I PROVE l[j] = e[j]
  <2>1. s[j] = t[j] /\ j \in 1 .. Len(t)
    BY <1>4, <1>6
  <2>2. l[j] = IF IsUpper(s[j]) THEN s[j] + 32 ELSE s[j]
    BY <1>2 DEF l
  <2>3. e[j] = IF IsUpper(t[j]) THEN t[j] + 32 ELSE t[j]
    BY <1>1, <1>3, <2>1
  <2> QED
    BY <2>1, <2>2, <2>3
<1> QED
  BY <1>5, <1>6 DEF AgreeOutside, l

\* One mistyped character, or a burst of them behind the separator, makes an
\* address's text an address of nobody.
LEMMA BurstIsNoAddress ==
    ASSUME NEW a \in Address, NEW t \in {EncodeAddress(a), Upper(EncodeAddress(a))},
           NEW s \in Seq(Nat), NEW I, Mistaken(t, s, I), Burst(I, Divide(a))
    PROVE  ~ IsAddress(DecodeAddress(s))
<1> SUFFICES ASSUME IsAddress(DecodeAddress(s)) PROVE FALSE
  OBVIOUS
<1> DEFINE e == EncodeAddress(a)
           b == DecodeAddress(s)
           f == EncodeAddress(b)
           k == Divide(a)
<1>1. b \in Address /\ f = Lower(s)
  BY EncodeDecode
<1>2. ~ MixedCase(s)
  BY NotMixed
<1>3. PlacesOfText(a, e, Prefix(a), DataWords(a), k)
  BY AddressPlaces
<1>4. Small(e) /\ t \in {e, Upper(e)}
  BY AddressText
<1>5. k \in Nat /\ k > 7 /\ Len(e) \in Nat /\ Len(e) > 7 /\ e \in Seq(Nat) /\ e[1] = 109 /\ e[2] = 110
  <2> HIDE DEF e, k
  <2> DEFINE h == Prefix(a)
             w == DataWords(a)
  <2>1. /\ k \in Nat /\ k > 7 /\ h[1] = 109 /\ h[2] = 110 /\ Len(w) \in Nat /\ e \in Seq(Nat)
        /\ Len(e) = k + Len(w) /\ \A i \in 1 .. k - 1 : e[i] = h[i]
    BY ONLY <1>3 DEF PlacesOfText
  <2> HIDE DEF h, w
  <2>2. 1 \in 1 .. k - 1 /\ 2 \in 1 .. k - 1 /\ Len(e) \in Nat /\ Len(e) > 7
    BY ONLY <2>1
  <2> QED
    BY <2>1, <2>2
<1> HIDE DEF e, k
<1>6. AgreeOutside(I, f, e)
  BY <1>1, <1>4, MistakenSmall
<1>7. I # {} /\ I \subseteq 1 .. Len(s) /\ (\A j \in I : s[j] # t[j]) /\ AgreeOutside(I, s, t)
  BY DEF Mistaken
<1>8. Burst(I, k)
  BY DEF k
<1>9. f = e
  <2>1. \A J : I \subseteq J => AgreeOutside(J, f, e)
    BY <1>6 DEF AgreeOutside
  <2>2. \A J : AgreeOutside(J, f, e) => AgreeOutside(J, e, f)
    BY DEF AgreeOutside
  <2>3. ASSUME NEW i, I = {i} PROVE f = e
    <3>1. AgreeOutside({i}, f, e)
      BY <2>1, <2>3
    <3> HIDE DEF b
    <3> QED
      BY <1>1, <3>1, SameButOne DEF e
  <2>4. ASSUME NEW p \in Nat, p > k, I \subseteq p .. (p + 5) PROVE f = e
    <3>1. AgreeOutside(p .. (p + 5), e, f)
      BY <2>1, <2>2, <2>4
    <3> HIDE DEF b
    <3> QED
      BY <1>1, <2>4, <3>1, SameInWindow DEF e, k
  <2> QED
    BY <1>8, <2>3, <2>4 DEF Burst
<1>10. 1 \notin I \/ 2 \notin I
  <2>1. CASE \E i : I = {i}
    BY <2>1
  <2>2. CASE \E p \in Nat : p > k /\ I \subseteq p .. (p + 5)
    BY <1>5, <2>2
  <2> QED
    BY <1>8, <2>1, <2>2 DEF Burst
<1> DEFINE n == Len(e)
           up(x) == IF IsLower(x) THEN x - 32 ELSE x
           low(x) == IF IsUpper(x) THEN x + 32 ELSE x
<1>11. n \in Nat /\ n > 7 /\ Len(s) = n /\ DOMAIN s = 1 .. n /\ DOMAIN e = 1 .. n
  <2>1. Len(Lower(s)) = Len(s)
    BY LowerUpper
  <2>2. DOMAIN s = 1 .. Len(s) /\ DOMAIN e = 1 .. n
    BY <1>5
  <2> QED
    BY <1>1, <1>5, <1>9, <2>1, <2>2
<1>12. \A i \in 1 .. n : e[i] \in Nat /\ s[i] \in Nat /\ e[i] = low(s[i])
  <2>1. \A i \in 1 .. Len(s) : Lower(s)[i] = low(s[i])
    BY LowerUpper
  <2>2. \A i \in 1 .. n : e[i] \in Nat
    BY <1>5
  <2>3. \A i \in 1 .. n : s[i] \in Nat
    BY <1>11
  <2> QED
    BY <1>1, <1>9, <1>11, <2>1, <2>2, <2>3
<1>13. \A i \in 1 .. n : t = Upper(e) => t[i] = up(e[i])
  <2>1. \A i \in 1 .. n : Upper(e)[i] = up(e[i])
    BY <1>5, LowerUpper
  <2> QED
    BY <2>1
<1>14. PICK j \in I : TRUE
  BY <1>7
<1>15. PICK i \in 1 .. 2 : i \notin I
  BY <1>10
<1>16. j \in 1 .. n /\ i \in 1 .. n /\ s[j] # t[j] /\ s[i] = t[i]
  <2>1. i \in 1 .. n /\ j \in 1 .. n
    BY <1>7, <1>11, <1>14, <1>15
  <2> QED
    BY <1>7, <1>11, <1>14, <1>15, <2>1 DEF AgreeOutside
<1>17. e[i] = 109 \/ e[i] = 110
  BY <1>5, <1>15
<1> HIDE DEF n
<1>18. CASE t = e
  <2>1. IsUpper(s[j])
    BY <1>12, <1>16, <1>18, OtherCase
  <2>2. IsLower(s[i])
    BY <1>16, <1>17, <1>18 DEF IsLower
  <2> QED
    BY <1>2, <1>11, <1>16, <2>1, <2>2 DEF MixedCase
<1>19. CASE t = Upper(e)
  <2>1. IsLower(s[j])
    <3>1. s[j] # up(e[j])
      BY <1>13, <1>16, <1>19
    <3> QED
      BY <1>12, <1>16, <3>1, OtherCase
  <2>2. IsUpper(s[i])
    <3>1. s[i] = up(e[i])
      BY <1>13, <1>16, <1>19
    <3> QED
      BY <1>17, <3>1 DEF IsLower, IsUpper
  <2> QED
    BY <1>2, <1>11, <1>16, <2>1, <2>2 DEF MixedCase
<1> QED
  BY <1>4, <1>18, <1>19

\* As long as nobody mistyped it there are no mistyped places; afterwards the
\* text is the address's own but for those places.
MistakeInv ==
    /\ how = "exact" => places = {}
    /\ how = "mistyped" =>
           \E t \in {EncodeAddress(address), Upper(EncodeAddress(address))} :
               Mistaken(t, text, places)

\* One more character is mistyped.
LEMMA OneMoreMistake ==
    ASSUME NEW t, NEW s \in Seq(Nat), NEW I, NEW i \in 1 .. Len(s), NEW x \in Nat,
           AgreeOutside(I, s, t), I \subseteq 1 .. Len(s), \A j \in I : s[j] # t[j],
           \A j \in I : i > j, s[i] # x
    PROVE  Mistaken(t, [s EXCEPT ![i] = x], I \cup {i})
<1> DEFINE r == [s EXCEPT ![i] = x]
           n == Len(s)
<1>1. n \in Nat /\ DOMAIN s = 1 .. n /\ s \in [1 .. n -> Nat]
  BY LenProperties
<1>2. i \in 1 .. n /\ I \subseteq 1 .. n
  OBVIOUS
<1>3. n = Len(t) /\ \A j \in 1 .. n : j \notin I => s[j] = t[j]
  BY DEF AgreeOutside
<1> HIDE DEF n
<1>4. r \in [1 .. n -> Nat] /\ r[i] = x /\ \A j \in 1 .. n : j # i => r[j] = s[j]
  BY <1>1, <1>2
<1> HIDE DEF r
<1>5. r \in Seq(Nat) /\ Len(r) = n
  BY <1>1, <1>4, FunctionSeq
<1>6. i \notin I
  BY <1>2
<1>7. r[i] # t[i]
  BY <1>2, <1>3, <1>4, <1>6
<1>8. \A j \in I : r[j] # t[j]
  BY <1>2, <1>4, <1>6
<1>9. AgreeOutside(I \cup {i}, r, t)
  BY <1>3, <1>4, <1>5 DEF AgreeOutside
<1> QED
  BY <1>2, <1>5, <1>7, <1>8, <1>9 DEF Mistaken, r

\* Mistakes are made from the left to the right, each in a place of its own.
LEMMA MistakeInvHolds == Spec => [](AddressInv /\ MistakeInv)
<1>1. Init => MistakeInv
  BY DEF Init, MistakeInv
<1>2. AddressInv /\ MistakeInv /\ [Next]_vars => MistakeInv'
  <2> SUFFICES ASSUME AddressInv, MistakeInv, [Next]_vars PROVE MistakeInv'
    OBVIOUS
  <2>1. CASE Capitalise
    BY <2>1 DEF Capitalise, MistakeInv
  <2>2. CASE Mistype
    <3> DEFINE texts == {EncodeAddress(address), Upper(EncodeAddress(address))}
    <3>1. PICK i \in DOMAIN text, x \in Typed :
              /\ \A j \in places : i > j
              /\ text[i] # x
              /\ text' = [text EXCEPT ![i] = x]
              /\ places' = places \cup {i}
      BY <2>2 DEF Mistype
    <3>2. how' = "mistyped" /\ address' = address /\ how \in {"exact", "mistyped"}
      BY <2>2 DEF Mistype
    <3>3. text \in Seq(Nat) /\ i \in 1 .. Len(text) /\ x \in Nat
      BY AddressAssumption DEF AddressInv
    <3>4. texts' = texts
      BY <3>2
    <3>5. PICK t \in texts : /\ AgreeOutside(places, text, t)
                             /\ places \subseteq 1 .. Len(text)
                             /\ \A j \in places : text[j] # t[j]
      <4>1. CASE how = "exact"
        BY <4>1 DEF AddressInv, MistakeInv, AgreeOutside
      <4>2. CASE how = "mistyped"
        BY <4>2 DEF MistakeInv, Mistaken
      <4> QED
        BY <3>2, <4>1, <4>2
    <3> HIDE DEF texts
    <3>6. Mistaken(t, text', places')
      BY <3>1, <3>3, <3>5, OneMoreMistake
    <3>7. \E u \in texts' : Mistaken(u, text', places')
      BY <3>4, <3>5, <3>6
    <3> QED
      BY <3>2, <3>7 DEF MistakeInv, texts
  <2>3. CASE Slip
    BY <2>3 DEF Slip, MistakeInv
  <2>4. CASE PadOtherwise
    BY <2>4 DEF PadOtherwise, MistakeInv
  <2>5. CASE Decode
    BY <2>5 DEF Decode, MistakeInv
  <2>6. CASE UNCHANGED vars
    BY <2>6 DEF vars, MistakeInv
  <2> QED
    BY <2>1, <2>2, <2>3, <2>4, <2>5, <2>6 DEF Next
<1> QED
  BY <1>1, <1>2, AddressInvHolds, PTL DEF Spec

\* An address with one character mistyped, anywhere, or with any of six
\* neighbouring characters behind the separator mistyped, is not read as an
\* address, whatever the length of its payload.
BurstsDetected ==
    how = "mistyped" /\ result # <<>> /\ Burst(places, Divide(address)) => ~ IsAddress(result)

\* Of mistakes the code is sure to find these two kinds: the checksum's six words
\* take in a burst whole, and one character elsewhere is in the prefix or the
\* separator, where prefixes differ in two places at least.
THEOREM BurstsAreDetected == Spec => []BurstsDetected
<1>1. AddressInv /\ MistakeInv => BurstsDetected
  <2> SUFFICES ASSUME AddressInv, MistakeInv, how = "mistyped", result # <<>>,
                      Burst(places, Divide(address))
               PROVE  ~ IsAddress(result)
    BY DEF BurstsDetected
  <2>1. PICK t \in {EncodeAddress(address), Upper(EncodeAddress(address))} :
            Mistaken(t, text, places)
    BY DEF MistakeInv
  <2>2. address \in Address /\ text \in Seq(Nat) /\ result = DecodeAddress(text)
    BY DEF AddressInv
  <2>3. ~ IsAddress(DecodeAddress(text))
    BY <2>1, <2>2, BurstIsNoAddress
  <2> QED
    BY <2>2, <2>3
<1> QED
  BY <1>1, MistakeInvHolds, PTL

-----------------------------------------------------------------------------
(* Texts with a q too many or too few.                                     *)

\* Additions of words that are needed.
LEMMA SomeSums ==
    /\ Xor[0][21] = 21 /\ Xor[15][21] = 26 /\ Xor[0][26] = 26 /\ Xor[29][26] = 7
    /\ Xor[28][7] = 27
<1>1. /\ Bits(0) = <<0, 0, 0, 0, 0>> /\ Bits(21) = <<1, 0, 1, 0, 1>> /\ Bits(15) = <<1, 1, 1, 1, 0>>
      /\ Bits(26) = <<0, 1, 0, 1, 1>> /\ Bits(29) = <<1, 0, 1, 1, 1>> /\ Bits(7) = <<1, 1, 1, 0, 0>>
      /\ Bits(28) = <<0, 0, 1, 1, 1>> /\ Bits(27) = <<1, 1, 0, 1, 1>>
  BY SMT DEF Bits
<1>2. /\ 0 \in Word /\ 21 \in Word /\ 15 \in Word /\ 26 \in Word /\ 29 \in Word /\ 7 \in Word
      /\ 28 \in Word /\ 27 \in Word
  BY DEF Word
<1>3. ASSUME NEW p \in Word, NEW q \in Word, NEW r \in Word,
             /\ Bits(r)[1] = (Bits(p)[1] + Bits(q)[1]) % 2
             /\ Bits(r)[2] = (Bits(p)[2] + Bits(q)[2]) % 2
             /\ Bits(r)[3] = (Bits(p)[3] + Bits(q)[3]) % 2
             /\ Bits(r)[4] = (Bits(p)[4] + Bits(q)[4]) % 2
             /\ Bits(r)[5] = (Bits(p)[5] + Bits(q)[5]) % 2
      PROVE  Xor[p][q] = r
  <2>1. Xor[p][q] \in Word /\ \A i \in 1 .. 5 : Bits(Xor[p][q])[i] = (Bits(p)[i] + Bits(q)[i]) % 2
    BY XorBits
  <2>2. \A i \in 1 .. 5 : i = 1 \/ i = 2 \/ i = 3 \/ i = 4 \/ i = 5
    OBVIOUS
  <2>3. \A i \in 1 .. 5 : Bits(r)[i] = (Bits(p)[i] + Bits(q)[i]) % 2
    BY ONLY <1>3, <2>2, Zenon
  <2>4. \A i \in 1 .. 5 : Bits(Xor[p][q])[i] = Bits(r)[i]
    BY <2>1, <2>3
  <2> QED
    BY <2>1, <2>4, SameBits
<1>4. Xor[0][21] = 21
  BY <1>1, <1>2, <1>3
<1>5. Xor[15][21] = 26
  BY <1>1, <1>2, <1>3
<1>6. Xor[0][26] = 26
  BY <1>1, <1>2, <1>3
<1>7. Xor[29][26] = 7
  BY <1>1, <1>2, <1>3
<1>8. Xor[28][7] = 27
  BY <1>1, <1>2, <1>3
<1> QED
  BY <1>4, <1>5, <1>6, <1>7, <1>8

\* What is XORed into a register whose highest word is that of the constant.
LEMMA GeneratorOfConstant == GeneratorSum[21][1] = 7
<1> DEFINE t(i) == IF Bits(21)[i] = 1 THEN GENERATOR[i] ELSE Words(0)
           r4 == XorAll(t(4), t(5))
           r3 == XorAll(t(3), r4)
           r2 == XorAll(t(2), r3)
           r1 == XorAll(t(1), r2)
<1>1. 21 \in Word
  BY DEF Word
<1>2. GeneratorSum[21] = r1
  BY <1>1 DEF GeneratorSum
<1>3. Bits(21) = <<1, 0, 1, 0, 1>>
  BY SMT DEF Bits
<1>4. t(1) = GENERATOR[1] /\ t(2) = Words(0) /\ t(3) = GENERATOR[3] /\ t(4) = Words(0) /\ t(5) = GENERATOR[5]
  <2> HIDE DEF t
  <2>1. \A i : t(i) = IF Bits(21)[i] = 1 THEN GENERATOR[i] ELSE Words(0)
    BY DEF t
  <2>2. /\ Bits(21)[1] = 1 /\ Bits(21)[2] = 0 /\ Bits(21)[3] = 1 /\ Bits(21)[4] = 0
        /\ Bits(21)[5] = 1
    BY <1>3
  <2>3. 0 # 1
    OBVIOUS
  <2> QED
    BY ONLY <2>1, <2>2, <2>3
<1>5. GENERATOR[1][1] = 29 /\ GENERATOR[3][1] = 15 /\ GENERATOR[5][1] = 21 /\ Words(0)[1] = 0
  BY SMT DEF GENERATOR, Words
<1>6. GENERATOR[1] \in Register /\ GENERATOR[3] \in Register /\ GENERATOR[5] \in Register /\ Words(0) \in Register
  <2>1. /\ GENERATOR[1] = Words(996825010) /\ GENERATOR[3] = Words(513874426)
        /\ GENERATOR[5] = Words(705979059)
    BY SMT DEF GENERATOR
  <2>2. 996825010 \in Nat /\ 513874426 \in Nat /\ 705979059 \in Nat /\ 0 \in Nat
    BY SMT
  <2> QED
    BY SMT, <2>1, <2>2, WordsRegister
<1>7. /\ t(1) \in Register /\ t(2) \in Register /\ t(3) \in Register /\ t(4) \in Register
      /\ t(5) \in Register
      /\ t(1)[1] = 29 /\ t(2)[1] = 0 /\ t(3)[1] = 15 /\ t(4)[1] = 0 /\ t(5)[1] = 21
  BY ONLY <1>4, <1>5, <1>6
<1> HIDE DEF t
<1>8. r4 \in Register /\ r4[1] = 21
  BY <1>7, XorAllRegister, SomeSums
<1> HIDE DEF r4
<1>9. r3 \in Register /\ r3[1] = 26
  BY <1>7, <1>8, XorAllRegister, SomeSums
<1> HIDE DEF r3
<1>10. r2 \in Register /\ r2[1] = 26
  BY <1>7, <1>9, XorAllRegister, SomeSums
<1> HIDE DEF r2
<1>11. r1[1] = 7
  BY <1>7, <1>10, XorAllRegister, SomeSums
<1> QED
  BY <1>2, <1>11

\* No register is left as it is by a 0 and made the constant by a 1.  For the
\* constant of BIP-173 there is one: all zeros.
LEMMA NoFixedRegister ==
    ASSUME NEW z \in Register, Feed[z][0] = z, Feed[z][1] = BECH32M_CONST
    PROVE  FALSE
<1> DEFINE g == GeneratorSum[z[1]]
           c == BECH32M_CONST
<1>1. 0 \in Word /\ 1 \in Word
  BY DEF Word
<1>2. \A i \in 1 .. 5 : Feed[z][0][i] = Xor[z[i + 1]][g[i]]
  BY <1>1, FeedWords
<1>3. \A i \in 1 .. 5 : Feed[z][1][i] = Xor[z[i + 1]][g[i]]
  BY <1>1, FeedWords
<1>4. c[1] = 21 /\ c[2] = 28
  BY SMT DEF BECH32M_CONST, Words
<1> HIDE DEF g, c
<1>5. \A i \in 1 .. 5 : z[i] = c[i]
  BY <1>2, <1>3 DEF c
<1>6. 1 \in 1 .. 5 /\ 2 \in 1 .. 5 /\ 1 + 1 = 2
  OBVIOUS
<1>7. z[1] = 21 /\ z[2] = 28
  BY ONLY <1>4, <1>5, <1>6
<1>8. g[1] = 7
  BY <1>7, GeneratorOfConstant DEF g
<1>9. z[1] = Xor[28][7]
  BY <1>2, <1>6, <1>7, <1>8
<1>10. z[1] = 27
  BY <1>9, SomeSums
<1> QED
  BY <1>7, <1>10

\* The second text has a q (113) more than the first, before the final p (112).
OneMoreQ(e, f) ==
    /\ Len(f) = Len(e) + 1
    /\ \A i \in 1 .. Len(e) - 1 : f[i] = e[i]
    /\ e[Len(e)] = 112 /\ f[Len(e)] = 113 /\ f[Len(e) + 1] = 112

\* p stands for 1 and q for 0.
LEMMA MeaningOfPQ ==
    ASSUME NEW d \in Word
    PROVE  /\ CHARSET[d + 1] = 112 => d = 1
           /\ CHARSET[d + 1] = 113 => d = 0
<1>1. CHARSET[0 + 1] = 113 /\ CHARSET[1 + 1] = 112
  BY SMT DEF CHARSET
<1>2. 0 \in Word /\ 1 \in Word
  BY DEF Word
<1>3. ASSUME CHARSET[d + 1] = 112 PROVE d = 1
  <2>1. CHARSET[d + 1] = CHARSET[1 + 1]
    BY <1>1, <1>3
  <2> QED
    BY <1>2, <2>1, CharsetInjective
<1>4. ASSUME CHARSET[d + 1] = 113 PROVE d = 0
  <2>1. CHARSET[d + 1] = CHARSET[0 + 1]
    BY <1>1, <1>4
  <2> QED
    BY <1>2, <2>1, CharsetInjective
<1> QED
  BY <1>3, <1>4

\* Of two sequences of words that end in 1, the same but for a 0 before the
\* last word, one at most has the constant of BIP-350.
LEMMA ZeroBeforeOne ==
    ASSUME NEW v \in Seq(Word), NEW w \in Seq(Word), NEW z \in Seq(Word), NEW m \in Nat, m > 0,
           Len(w) = m, Len(z) = m + 1, \A i \in 1 .. m - 1 : w[i] = z[i],
           w[m] = 1, z[m] = 0, z[m + 1] = 1,
           Polymod(v \o w) = BECH32M_CONST, Polymod(v \o z) = BECH32M_CONST
    PROVE  FALSE
<1>1. 0 \in Word /\ 1 \in Word
  BY DEF Word
<1>2. PICK u \in Seq(Word) : w = Append(u, 1)
  <2>1. w # <<>>
    OBVIOUS
  <2>2. PICK f \in Seq(Word), y \in Word : w = Append(f, y)
    BY <2>1, SequenceEmptyOrAppend
  <2>3. Len(w) = Len(f) + 1 /\ Append(f, y)[Len(f) + 1] = y
    BY <2>2, AppendProperties
  <2>4. Len(f) \in Nat
    OBVIOUS
  <2>5. m = Len(f) + 1
    BY <2>3, <2>4
  <2>6. y = 1
    BY <2>2, <2>3, <2>5
  <2> QED
    BY <2>2, <2>6
<1>3. PICK s \in Seq(Word) : z = Append(Append(s, 0), 1)
  <2>1. z # <<>>
    OBVIOUS
  <2>2. PICK f \in Seq(Word), y \in Word : z = Append(f, y)
    BY <2>1, SequenceEmptyOrAppend
  <2>3. /\ Len(z) = Len(f) + 1 /\ Append(f, y)[Len(f) + 1] = y
        /\ \A i \in 1 .. Len(f) : Append(f, y)[i] = f[i]
    BY <2>2, AppendProperties
  <2>4. Len(f) \in Nat
    OBVIOUS
  <2>5. m = Len(f)
    BY <2>3, <2>4
  <2>6. y = 1 /\ f[m] = 0
    <3>1. m \in 1 .. Len(f)
      BY <2>5
    <3> QED
      BY <2>2, <2>3, <2>5, <3>1
  <2>7. f # <<>>
    BY <2>5
  <2>8. PICK g \in Seq(Word), x \in Word : f = Append(g, x)
    BY <2>7, SequenceEmptyOrAppend
  <2>9. Len(f) = Len(g) + 1 /\ Append(g, x)[Len(g) + 1] = x
    BY <2>8, AppendProperties
  <2>10. x = 0
    BY <2>5, <2>6, <2>8, <2>9
  <2> QED
    BY <2>2, <2>6, <2>8, <2>10
<1>4. u = s
  <2>1. Append(s, 0) \in Seq(Word)
    BY <1>1
  <2>2. /\ Len(w) = Len(u) + 1 /\ \A i \in 1 .. Len(u) : w[i] = u[i]
    BY <1>1, <1>2, AppendProperties
  <2>3. /\ Len(z) = Len(Append(s, 0)) + 1
        /\ \A i \in 1 .. Len(Append(s, 0)) : z[i] = Append(s, 0)[i]
    BY <1>1, <1>3, <2>1, AppendProperties
  <2>4. /\ Len(Append(s, 0)) = Len(s) + 1 /\ \A i \in 1 .. Len(s) : Append(s, 0)[i] = s[i]
    BY <1>1, AppendProperties
  <2>5. Len(u) \in Nat /\ Len(s) \in Nat
    OBVIOUS
  <2>6. Len(u) = m - 1 /\ Len(s) = m - 1
    BY <2>2, <2>3, <2>4, <2>5
  <2>7. ASSUME NEW i \in 1 .. Len(u) PROVE u[i] = s[i]
    <3>1. i \in 1 .. m - 1 /\ i \in 1 .. Len(s) /\ i \in 1 .. Len(Append(s, 0))
      BY <2>4, <2>5, <2>6
    <3>2. w[i] = u[i] /\ z[i] = Append(s, 0)[i] /\ Append(s, 0)[i] = s[i] /\ w[i] = z[i]
      BY <2>2, <2>3, <2>4, <3>1
    <3> QED
      BY <3>2
  <2> QED
    BY <2>6, <2>7, SeqEqual
<1> DEFINE y == v \o u
           r == Polymod(y)
<1>5. y \in Seq(Word) /\ Append(y, 0) \in Seq(Word)
  BY <1>1
<1>6. v \o w = Append(y, 1) /\ v \o z = Append(Append(y, 0), 1)
  <2>1. \A f \in Seq(Word), x \in Word : v \o Append(f, x) = Append(v \o f, x)
    OBVIOUS
  <2>2. Append(u, 0) \in Seq(Word)
    BY <1>1
  <2>3. w = Append(u, 1) /\ z = Append(Append(u, 0), 1)
    BY <1>2, <1>3, <1>4
  <2> QED
    BY <1>1, <2>1, <2>2, <2>3, Zenon
<1> HIDE DEF y
<1>7. r \in Register /\ Polymod(Append(y, 0)) = Feed[r][0] /\ Polymod(Append(y, 1)) = Feed[r][1]
  BY <1>1, <1>5, PolymodAppend
<1>8. /\ Polymod(Append(y, 0)) \in Register
      /\ Polymod(Append(Append(y, 0), 1)) = Feed[Polymod(Append(y, 0))][1]
  BY <1>1, <1>5, PolymodAppend
<1> HIDE DEF r
<1>9. Feed[r][0] \in Register /\ Feed[r][1] = BECH32M_CONST /\ Feed[Feed[r][0]][1] = BECH32M_CONST
  BY <1>6, <1>7, <1>8
<1>10. Feed[r][0] = r
  BY <1>1, <1>7, <1>9, FeedCancels
<1> QED
  BY <1>7, <1>9, <1>10, NoFixedRegister

\* No address's text is another's with a q more before the final p.
LEMMA NoneHasOneMore ==
    ASSUME NEW a \in Address, NEW b \in Address, OneMoreQ(EncodeAddress(a), EncodeAddress(b))
    PROVE  FALSE
<1> DEFINE e == EncodeAddress(a)
           f == EncodeAddress(b)
           h == Prefix(a)
           g == Prefix(b)
           w == DataWords(a)
           z == DataWords(b)
           k == Divide(a)
           l == Divide(b)
<1>1. PlacesOfText(a, e, h, w, k) /\ PlacesOfText(b, f, g, z, l)
  BY AddressPlaces
<1>2. /\ Len(f) = Len(e) + 1
      /\ \A i \in 1 .. Len(e) - 1 : f[i] = e[i]
      /\ e[Len(e)] = 112 /\ f[Len(e)] = 113 /\ f[Len(e) + 1] = 112
  BY DEF OneMoreQ
<1> HIDE DEF e, f, h, g, w, z, k, l
<1>3. /\ h \in Seq(Character) /\ k = Len(h) + 1 /\ k \in Nat /\ k > 7
      /\ w \in Seq(Word) /\ Len(w) \in Nat /\ Len(w) >= 6
      /\ Polymod(HrpExpand(h) \o w) = BECH32M_CONST
      /\ Len(e) = k + Len(w)
      /\ \A i \in 1 .. k - 1 : e[i] = h[i] /\ e[i] # Separator
      /\ e[k] = Separator
      /\ \A i \in 1 .. Len(w) : e[k + i] = CHARSET[w[i] + 1] /\ e[k + i] # Separator
  BY ONLY <1>1 DEF PlacesOfText
<1>4. /\ g \in Seq(Character) /\ l = Len(g) + 1 /\ l \in Nat /\ l > 7
      /\ z \in Seq(Word) /\ Len(z) \in Nat /\ Len(z) >= 6
      /\ Polymod(HrpExpand(g) \o z) = BECH32M_CONST
      /\ Len(f) = l + Len(z)
      /\ \A i \in 1 .. l - 1 : f[i] = g[i] /\ f[i] # Separator
      /\ f[l] = Separator
      /\ \A i \in 1 .. Len(z) : f[l + i] = CHARSET[z[i] + 1] /\ f[l + i] # Separator
  BY ONLY <1>1 DEF PlacesOfText
<1> DEFINE m == Len(w)
           n == Len(e)
<1>5. k \in Nat /\ l \in Nat /\ k > 7 /\ l > 7 /\ m \in Nat /\ m >= 6 /\ n = k + m /\ n + 1 = l + Len(z)
      /\ Len(z) \in Nat /\ Len(z) >= 6
  BY <1>2, <1>3, <1>4
<1> HIDE DEF m, n
<1>6. \A i \in 1 .. n - 1 : f[i] = e[i]
  BY <1>2 DEF n
<1>7. k = l
  <2>1. ~ (k < l)
    <3> SUFFICES ASSUME k < l PROVE FALSE
      OBVIOUS
    <3>1. k \in 1 .. n - 1 /\ k \in 1 .. l - 1
      BY ONLY <1>5, k < l
    <3> QED
      BY <1>3, <1>4, <1>6, <3>1
  <2>2. ~ (l < k)
    <3> SUFFICES ASSUME l < k PROVE FALSE
      OBVIOUS
    <3>1. l \in 1 .. n - 1 /\ l \in 1 .. k - 1
      BY ONLY <1>5, l < k
    <3> QED
      BY <1>3, <1>4, <1>6, <3>1
  <2> QED
    BY <1>5, <2>1, <2>2
<1>8. h = g
  <2>1. h \in Seq(Character) /\ g \in Seq(Character)
    BY <1>3, <1>4
  <2>2. Len(h) \in Nat /\ Len(g) \in Nat
    BY ONLY <2>1, LenProperties
  <2>3. k = Len(h) + 1 /\ l = Len(g) + 1
    BY <1>3, <1>4
  <2>4. Len(h) = Len(g) /\ \A i \in 1 .. Len(h) : i \in 1 .. n - 1 /\ i \in 1 .. k - 1
    <3>1. Len(h) = k - 1 /\ Len(g) = k - 1
      <4>1. \A x \in Nat : (x + 1) - 1 = x
        OBVIOUS
      <4>2. (Len(h) + 1) - 1 = Len(h) /\ (Len(g) + 1) - 1 = Len(g)
        BY ONLY <2>2, <4>1
      <4> QED
        BY ONLY <1>7, <2>3, <4>2, Zenon
    <3>2. \A i \in 1 .. k - 1 : i \in 1 .. n - 1
      BY ONLY <1>5
    <3> QED
      BY ONLY <3>1, <3>2
  <2>5. \A i \in 1 .. Len(h) : h[i] = g[i]
    BY <1>3, <1>4, <1>6, <1>7, <2>4
  <2> QED
    BY <2>1, <2>4, <2>5, SeqEqual
<1>9. Len(z) = m + 1 /\ m > 0
  BY ONLY <1>5, <1>7
<1>10. \A i \in 1 .. m : e[k + i] = CHARSET[w[i] + 1] /\ w[i] \in Word
  BY <1>3 DEF m
<1>11. \A i \in 1 .. m + 1 : f[k + i] = CHARSET[z[i] + 1] /\ z[i] \in Word
  <2>1. \A i \in 1 .. Len(z) : f[l + i] = CHARSET[z[i] + 1] /\ z[i] \in Word
    BY <1>4
  <2> QED
    BY <1>7, <1>9, <2>1
<1>12. \A i \in 1 .. m - 1 : w[i] = z[i]
  <2> SUFFICES ASSUME NEW i \in 1 .. m - 1 PROVE w[i] = z[i]
    OBVIOUS
  <2>1. i \in 1 .. m /\ i \in 1 .. m + 1 /\ k + i \in 1 .. n - 1
    BY ONLY <1>5
  <2>2. CHARSET[w[i] + 1] = CHARSET[z[i] + 1]
    BY <1>6, <1>10, <1>11, <2>1
  <2>3. w[i] \in Word /\ z[i] \in Word
    BY <1>10, <1>11, <2>1
  <2> QED
    BY <2>2, <2>3, CharsetInjective
<1>13. w[m] = 1 /\ z[m] = 0 /\ z[m + 1] = 1
  <2>1. m \in 1 .. m /\ m \in 1 .. m + 1 /\ m + 1 \in 1 .. m + 1 /\ n = k + m /\ n + 1 = k + (m + 1)
    BY ONLY <1>5
  <2>2. e[n] = 112 /\ f[n] = 113 /\ f[n + 1] = 112
    BY <1>2 DEF n
  <2>3. e[k + m] = 112 /\ f[k + m] = 113 /\ f[k + (m + 1)] = 112
    BY ONLY <2>1, <2>2
  <2>4. CHARSET[w[m] + 1] = 112 /\ CHARSET[z[m] + 1] = 113 /\ CHARSET[z[m + 1] + 1] = 112
    BY ONLY <1>10, <1>11, <2>1, <2>3
  <2>5. w[m] \in Word /\ z[m] \in Word /\ z[m + 1] \in Word
    BY <1>10, <1>11, <2>1
  <2> QED
    BY <2>4, <2>5, MeaningOfPQ
<1>14. HrpExpand(h) \in Seq(Word)
  BY <1>3, HrpExpandWords
<1>15. Len(w) = m /\ w \in Seq(Word) /\ z \in Seq(Word)
  BY <1>3, <1>4 DEF m
<1>16. Polymod(HrpExpand(h) \o w) = BECH32M_CONST /\ Polymod(HrpExpand(h) \o z) = BECH32M_CONST
  BY <1>3, <1>4, <1>8
<1> DEFINE v == HrpExpand(h)
<1> HIDE DEF v
<1>17. v \in Seq(Word) /\ Polymod(v \o w) = BECH32M_CONST /\ Polymod(v \o z) = BECH32M_CONST
  BY <1>14, <1>16 DEF v
<1>18. m \in Nat
  BY <1>5
<1> QED
  BY <1>9, <1>12, <1>13, <1>15, <1>17, <1>18, ZeroBeforeOne

\* A piece of a text, character by character.
LEMMA PieceOfNumbers ==
    ASSUME NEW s \in Seq(Nat), NEW l \in Nat, NEW r \in Nat, l <= r, r <= Len(s)
    PROVE  /\ SubSeq(s, l + 1, r) \in Seq(Nat)
           /\ Len(SubSeq(s, l + 1, r)) = r - l
           /\ \A i \in 1 .. r - l : SubSeq(s, l + 1, r)[i] = s[l + i]
<1> DEFINE t == SubSeq(s, l + 1, r)
           n == Len(s)
<1>1. n \in Nat /\ r <= n /\ \A i \in 1 .. n : s[i] \in Nat
  OBVIOUS
<1> HIDE DEF n
<1>2. l + 1 \in Int /\ r \in Int /\ \A i \in (l + 1) .. r : s[i] \in Nat
  <2>1. \A i \in (l + 1) .. r : i \in 1 .. n
    BY <1>1
  <2> QED
    BY <1>1, <2>1
<1>3. /\ t \in Seq(Nat)
      /\ Len(t) = IF l + 1 <= r THEN r - (l + 1) + 1 ELSE 0
      /\ \A i \in 1 .. r - (l + 1) + 1 : t[i] = s[(l + 1) + i - 1]
  BY <1>2, SubSeqProperties
<1> HIDE DEF t
<1>4. Len(t) = r - l
  BY <1>3
<1>5. \A i \in 1 .. r - l : i \in 1 .. r - (l + 1) + 1 /\ (l + 1) + i - 1 = l + i
  OBVIOUS
<1>6. \A i \in 1 .. r - l : t[i] = s[l + i]
  BY <1>3, <1>5
<1> QED
  BY <1>3, <1>4, <1>6 DEF t

\* Where the characters are when one is inserted before the last.
LEMMA InsertedBeforeLast ==
    ASSUME NEW s \in Seq(Nat), NEW n \in Nat, n = Len(s), n > 1, NEW x \in Nat
    PROVE  /\ Len(InsertAt(s, n, x)) = n + 1
           /\ \A i \in 1 .. n - 1 : InsertAt(s, n, x)[i] = s[i]
           /\ InsertAt(s, n, x)[n] = x
           /\ InsertAt(s, n, x)[n + 1] = s[n]
<1> DEFINE a == SubSeq(s, 1, n - 1)
           b == SubSeq(s, n, n)
           q == <<x>>
           c == a \o q
           f == c \o b
<1>1. InsertAt(s, n, x) = f
  BY DEF InsertAt
<1>2. a \in Seq(Nat) /\ Len(a) = n - 1 /\ \A i \in 1 .. n - 1 : a[i] = s[i]
  <2>1. 0 \in Nat /\ n - 1 \in Nat /\ 0 <= n - 1 /\ n - 1 <= Len(s)
    OBVIOUS
  <2>2. /\ SubSeq(s, 0 + 1, n - 1) \in Seq(Nat)
        /\ Len(SubSeq(s, 0 + 1, n - 1)) = (n - 1) - 0
        /\ \A i \in 1 .. (n - 1) - 0 : SubSeq(s, 0 + 1, n - 1)[i] = s[0 + i]
    BY <2>1, PieceOfNumbers
  <2>3. 0 + 1 = 1 /\ (n - 1) - 0 = n - 1 /\ \A i \in 1 .. n - 1 : 0 + i = i
    OBVIOUS
  <2> QED
    BY <2>2, <2>3
<1>3. b \in Seq(Nat) /\ Len(b) = 1 /\ b[1] = s[n]
  <2>1. n - 1 \in Nat /\ n - 1 <= n /\ n <= Len(s) /\ (n - 1) + 1 = n /\ n - (n - 1) = 1 /\ 1 \in 1 .. 1
    OBVIOUS
  <2>2. /\ SubSeq(s, (n - 1) + 1, n) \in Seq(Nat)
        /\ Len(SubSeq(s, (n - 1) + 1, n)) = n - (n - 1)
        /\ \A i \in 1 .. n - (n - 1) : SubSeq(s, (n - 1) + 1, n)[i] = s[(n - 1) + i]
    BY <2>1, PieceOfNumbers
  <2> QED
    BY <2>1, <2>2
<1>4. q \in Seq(Nat) /\ Len(q) = 1 /\ q[1] = x
  OBVIOUS
<1> HIDE DEF a, b, q
<1>5. /\ c \in Seq(Nat) /\ Len(c) = n
      /\ \A i \in 1 .. n : c[i] = IF i <= n - 1 THEN a[i] ELSE q[i - (n - 1)]
  <2>1. /\ c \in Seq(Nat) /\ Len(c) = Len(a) + Len(q)
        /\ \A i \in 1 .. Len(a) + Len(q) : c[i] = IF i <= Len(a) THEN a[i] ELSE q[i - Len(a)]
    BY <1>2, <1>4, ConcatProperties
  <2> HIDE DEF c
  <2>2. Len(a) + Len(q) = n
    BY <1>2, <1>4
  <2> QED
    BY <1>2, <2>1, <2>2
<1> HIDE DEF c
<1>6. /\ f \in Seq(Nat) /\ Len(f) = n + 1
      /\ \A i \in 1 .. n + 1 : f[i] = IF i <= n THEN c[i] ELSE b[i - n]
  <2>1. /\ f \in Seq(Nat) /\ Len(f) = Len(c) + Len(b)
        /\ \A i \in 1 .. Len(c) + Len(b) : f[i] = IF i <= Len(c) THEN c[i] ELSE b[i - Len(c)]
    BY <1>3, <1>5, ConcatProperties
  <2> HIDE DEF f
  <2>2. Len(c) + Len(b) = n + 1
    BY <1>3, <1>5
  <2> QED
    BY <1>5, <2>1, <2>2
<1> HIDE DEF f
<1>7. \A i \in 1 .. n - 1 : f[i] = s[i]
  <2>1. \A i \in 1 .. n - 1 : i \in 1 .. n /\ i \in 1 .. n + 1 /\ i <= n /\ i <= n - 1
    OBVIOUS
  <2>2. \A i \in 1 .. n - 1 : f[i] = c[i] /\ c[i] = a[i]
    BY ONLY <1>5, <1>6, <2>1
  <2> QED
    BY <1>2, <2>2
<1>8. f[n] = x
  <2>1. n \in 1 .. n /\ n \in 1 .. n + 1 /\ n <= n /\ ~ (n <= n - 1) /\ n - (n - 1) = 1
    OBVIOUS
  <2> QED
    BY <1>4, <1>5, <1>6, <2>1
<1>9. f[n + 1] = s[n]
  <2>1. n + 1 \in 1 .. n + 1 /\ ~ (n + 1 <= n) /\ (n + 1) - n = 1
    OBVIOUS
  <2> QED
    BY <1>3, <1>6, <2>1
<1> QED
  BY <1>1, <1>6, <1>7, <1>8, <1>9

\* Where the characters are when the last but one is left out.
LEMMA LeftOutBeforeLast ==
    ASSUME NEW s \in Seq(Nat), NEW n \in Nat, n = Len(s), n > 1
    PROVE  /\ Len(RemoveAt(s, n - 1)) = n - 1
           /\ \A i \in 1 .. n - 2 : RemoveAt(s, n - 1)[i] = s[i]
           /\ RemoveAt(s, n - 1)[n - 1] = s[n]
<1> DEFINE a == SubSeq(s, 1, n - 2)
           b == SubSeq(s, n, n)
           f == a \o b
<1>1. RemoveAt(s, n - 1) = f
  <2>1. (n - 1) + 1 = n /\ (n - 1) - 1 = n - 2
    OBVIOUS
  <2> QED
    BY <2>1 DEF RemoveAt
<1>2. a \in Seq(Nat) /\ Len(a) = n - 2 /\ \A i \in 1 .. n - 2 : a[i] = s[i]
  <2>1. 0 \in Nat /\ n - 2 \in Nat /\ 0 <= n - 2 /\ n - 2 <= Len(s)
    OBVIOUS
  <2>2. /\ SubSeq(s, 0 + 1, n - 2) \in Seq(Nat)
        /\ Len(SubSeq(s, 0 + 1, n - 2)) = (n - 2) - 0
        /\ \A i \in 1 .. (n - 2) - 0 : SubSeq(s, 0 + 1, n - 2)[i] = s[0 + i]
    BY <2>1, PieceOfNumbers
  <2>3. 0 + 1 = 1 /\ (n - 2) - 0 = n - 2 /\ \A i \in 1 .. n - 2 : 0 + i = i
    OBVIOUS
  <2> QED
    BY <2>2, <2>3
<1>3. b \in Seq(Nat) /\ Len(b) = 1 /\ b[1] = s[n]
  <2>1. n - 1 \in Nat /\ n - 1 <= n /\ n <= Len(s) /\ (n - 1) + 1 = n /\ n - (n - 1) = 1 /\ 1 \in 1 .. 1
    OBVIOUS
  <2>2. /\ SubSeq(s, (n - 1) + 1, n) \in Seq(Nat)
        /\ Len(SubSeq(s, (n - 1) + 1, n)) = n - (n - 1)
        /\ \A i \in 1 .. n - (n - 1) : SubSeq(s, (n - 1) + 1, n)[i] = s[(n - 1) + i]
    BY <2>1, PieceOfNumbers
  <2> QED
    BY <2>1, <2>2
<1> HIDE DEF a, b
<1>4. /\ f \in Seq(Nat) /\ Len(f) = n - 1
      /\ \A i \in 1 .. n - 1 : f[i] = IF i <= n - 2 THEN a[i] ELSE b[i - (n - 2)]
  <2>1. /\ f \in Seq(Nat) /\ Len(f) = Len(a) + Len(b)
        /\ \A i \in 1 .. Len(a) + Len(b) : f[i] = IF i <= Len(a) THEN a[i] ELSE b[i - Len(a)]
    BY <1>2, <1>3, ConcatProperties
  <2> HIDE DEF f
  <2>2. Len(a) + Len(b) = n - 1
    BY <1>2, <1>3
  <2> QED
    BY <1>2, <2>1, <2>2
<1> HIDE DEF f
<1>5. \A i \in 1 .. n - 2 : f[i] = s[i]
  <2>1. \A i \in 1 .. n - 2 : i \in 1 .. n - 1 /\ i <= n - 2
    OBVIOUS
  <2> QED
    BY <1>2, <1>4, <2>1
<1>6. f[n - 1] = s[n]
  <2>1. n - 1 \in 1 .. n - 1 /\ ~ (n - 1 <= n - 2) /\ (n - 1) - (n - 2) = 1
    OBVIOUS
  <2> QED
    BY <1>3, <1>4, <2>1
<1> QED
  BY <1>1, <1>4, <1>5, <1>6

\* One slip, of a text that ends in p.
LEMMA OneSlip ==
    ASSUME NEW s \in Seq(Nat), NEW t, Len(s) > 1, Last(s) = 112,
           \/ t = InsertAt(s, Len(s), 113)
           \/ s[Len(s) - 1] = 113 /\ t = RemoveAt(s, Len(s) - 1)
    PROVE  OneMoreQ(s, t) \/ OneMoreQ(t, s)
<1> DEFINE n == Len(s)
<1>1. n \in Nat /\ n > 1
  OBVIOUS
<1>2. n = Len(s)
  OBVIOUS
<1>3. s[n] = 112
  BY DEF Last
<1> HIDE DEF n
<1>4. 113 \in Nat
  OBVIOUS
<1>5. ASSUME t = InsertAt(s, n, 113) PROVE OneMoreQ(s, t)
  <2>1. /\ Len(t) = n + 1 /\ (\A i \in 1 .. n - 1 : t[i] = s[i])
        /\ t[n] = 113 /\ t[n + 1] = s[n]
    <3>1. /\ Len(InsertAt(s, n, 113)) = n + 1
          /\ \A i \in 1 .. n - 1 : InsertAt(s, n, 113)[i] = s[i]
          /\ InsertAt(s, n, 113)[n] = 113
          /\ InsertAt(s, n, 113)[n + 1] = s[n]
      BY <1>1, <1>2, <1>4, InsertedBeforeLast
    <3> QED
      BY ONLY <1>5, <3>1, Zenon
  <2> QED
    BY <1>2, <1>3, <2>1, Zenon DEF OneMoreQ
<1>6. ASSUME s[n - 1] = 113, t = RemoveAt(s, n - 1) PROVE OneMoreQ(t, s)
  <2>1. /\ Len(t) = n - 1 /\ (\A i \in 1 .. n - 2 : t[i] = s[i]) /\ t[n - 1] = s[n]
    BY <1>1, <1>2, <1>6, LeftOutBeforeLast
  <2>2. n - 1 \in Nat /\ (n - 1) + 1 = n /\ (n - 1) - 1 = n - 2
    BY <1>1
  <2>3. /\ Len(s) = Len(t) + 1 /\ Len(t) - 1 = n - 2 /\ Len(t) = n - 1 /\ Len(t) + 1 = n
    BY <1>2, <2>1, <2>2, Zenon
  <2> QED
    BY ONLY <1>3, <1>6, <2>1, <2>3, ZenonT(60) DEF OneMoreQ
<1> QED
  BY <1>5, <1>6 DEF n

\* The small letters of a text with one slip have that slip as well.
LEMMA SlipSmall ==
    ASSUME NEW e, Small(e), NEW t \in Seq(Nat), Len(e) > 1
    PROVE  /\ OneMoreQ(e, t) => OneMoreQ(e, Lower(t))
           /\ OneMoreQ(t, e) => OneMoreQ(Lower(t), e)
<1> DEFINE low(x) == IF IsUpper(x) THEN x + 32 ELSE x
           l == Lower(t)
           n == Len(e)
           m == Len(t)
<1>1. e \in Seq(Nat) /\ Lower(e) = e
  BY SmallFacts
<1>2. \A i \in 1 .. n : e[i] = low(e[i])
  BY <1>1, LowerUpper
<1>3. Len(l) = m /\ \A i \in 1 .. m : l[i] = low(t[i])
  BY LowerUpper
<1>4. n \in Nat /\ m \in Nat /\ n > 1
  BY <1>1
<1>5. low(112) = 112 /\ low(113) = 113
  BY SMT DEF IsUpper
<1> HIDE DEF l
<1>6. ASSUME OneMoreQ(e, t) PROVE OneMoreQ(e, l)
  <2>1. /\ m = n + 1 /\ (\A i \in 1 .. n - 1 : t[i] = e[i])
        /\ e[n] = 112 /\ t[n] = 113 /\ t[n + 1] = 112
    BY <1>6, Zenon DEF OneMoreQ
  <2> HIDE DEF n, m
  <2>2. n \in 1 .. m /\ n + 1 \in 1 .. m /\ \A i \in 1 .. n - 1 : i \in 1 .. m /\ i \in 1 .. n
    BY <1>4, <2>1
  <2>3. \A i \in 1 .. n - 1 : l[i] = e[i]
    BY ONLY <1>2, <1>3, <2>1, <2>2
  <2>4. l[n] = 113 /\ l[n + 1] = 112
    BY ONLY <1>3, <1>5, <2>1, <2>2
  <2> QED
    BY ONLY <1>3, <2>1, <2>3, <2>4, ZenonT(60) DEF OneMoreQ, n, m
<1>7. ASSUME OneMoreQ(t, e) PROVE OneMoreQ(l, e)
  <2>1. /\ n = m + 1 /\ (\A i \in 1 .. m - 1 : e[i] = t[i])
        /\ t[m] = 112 /\ e[m] = 113 /\ e[m + 1] = 112
    BY <1>7, Zenon DEF OneMoreQ
  <2> HIDE DEF n, m
  <2>2. m \in 1 .. m /\ \A i \in 1 .. m - 1 : i \in 1 .. m /\ i \in 1 .. n
    BY <1>4, <2>1
  <2>3. ASSUME NEW i \in 1 .. m - 1 PROVE e[i] = l[i]
    <3>1. e[i] = t[i] /\ l[i] = low(t[i]) /\ e[i] = low(e[i])
      BY ONLY <1>2, <1>3, <2>1, <2>2
    <3> QED
      BY ONLY <3>1
  <2>4. l[m] = 112
    BY ONLY <1>3, <1>5, <2>1, <2>2
  <2> QED
    BY ONLY <1>3, <2>1, <2>3, <2>4, ZenonT(60) DEF OneMoreQ, n, m
<1> QED
  BY <1>6, <1>7 DEF l

\* A text in capitals does not end in p.
LEMMA CapitalsLast ==
    ASSUME NEW e \in Seq(Nat), Len(e) > 0, NEW t \in {e, Upper(e)}, Last(t) = 112
    PROVE  t = e
<1> SUFFICES ASSUME t = Upper(e) PROVE FALSE
  OBVIOUS
<1> DEFINE n == Len(e)
           u == Upper(e)
<1>1. n \in Nat /\ n > 0 /\ n \in 1 .. n /\ e[n] \in Nat
  OBVIOUS
<1>2. Len(u) = n /\ u[n] = IF IsLower(e[n]) THEN e[n] - 32 ELSE e[n]
  BY <1>1, LowerUpper
<1>3. u[n] = 112
  BY <1>2 DEF Last
<1> DEFINE x == e[n]
<1>4. x \in Nat /\ 112 = IF IsLower(x) THEN x - 32 ELSE x
  BY <1>1, <1>2, <1>3
<1> HIDE DEF x
<1> QED
  BY ONLY <1>4 DEF IsLower

\* A text encode_address writes has more than one character.
LEMMA AddressLonger ==
    ASSUME NEW a \in Address
    PROVE  EncodeAddress(a) \in Seq(Nat) /\ Len(EncodeAddress(a)) > 1
<1> DEFINE e == EncodeAddress(a)
           w == DataWords(a)
           k == Divide(a)
           h == Prefix(a)
<1>1. PlacesOfText(a, e, h, w, k)
  BY AddressPlaces
<1> HIDE DEF e, w, k, h
<1>2. k \in Nat /\ k > 7 /\ Len(w) \in Nat /\ e \in Seq(Nat) /\ Len(e) = k + Len(w)
  BY ONLY <1>1 DEF PlacesOfText
<1> QED
  BY <1>2 DEF e

\* Of a text with one slip, the address's own has a q more or less.
SlipInv ==
    how = "slipped" =>
        \/ 2 \in places
        \/ /\ places = {1}
           /\ \/ OneMoreQ(EncodeAddress(address), text)
              \/ OneMoreQ(text, EncodeAddress(address))

\* It holds: the first slip is of the text as it was encoded, as one in
\* capitals does not end in p; the second is numbered 2.
LEMMA SlipInvHolds == Spec => [](AddressInv /\ MistakeInv /\ SlipInv)
<1>1. Init => SlipInv
  BY DEF Init, SlipInv
<1>2. AddressInv /\ MistakeInv /\ SlipInv /\ [Next]_vars => SlipInv'
  <2> SUFFICES ASSUME AddressInv, MistakeInv, SlipInv, [Next]_vars PROVE SlipInv'
    OBVIOUS
  <2>1. CASE Capitalise
    BY <2>1 DEF Capitalise, SlipInv
  <2>2. CASE Mistype
    BY <2>2 DEF Mistype, SlipInv
  <2>3. CASE Slip
    <3>1. /\ address' = address /\ how \in {"exact", "slipped"} /\ Last(text) = 112
          /\ places' = places \cup {Cardinality(places) + 1}
          /\ \/ text' = InsertAt(text, Len(text), 113)
             \/ text[Len(text) - 1] = 113 /\ text' = RemoveAt(text, Len(text) - 1)
      BY <2>3 DEF Slip
    <3>2. CASE how = "exact"
      <4> DEFINE e == EncodeAddress(address)
      <4>1. places = {}
        BY <3>2 DEF MistakeInv
      <4>2. places' = {1}
        BY <3>1, <4>1, FS_EmptySet
      <4>3. text \in {e, Upper(e)} /\ address \in Address /\ text \in Seq(Nat)
        BY <3>2 DEF AddressInv
      <4>4. e \in Seq(Nat) /\ Len(e) > 1
        BY <4>3, AddressLonger
      <4>5. Len(e) > 0
        BY <4>4
      <4>6. e' = e
        BY <3>1
      <4> HIDE DEF e
      <4>7. text = e
        BY <3>1, <4>3, <4>4, <4>5, CapitalsLast
      <4> DEFINE t == text'
      <4>8. /\ Last(e) = 112
            /\ \/ t = InsertAt(e, Len(e), 113)
               \/ e[Len(e) - 1] = 113 /\ t = RemoveAt(e, Len(e) - 1)
        BY <3>1, <4>7
      <4> HIDE DEF t
      <4>9. OneMoreQ(e, t) \/ OneMoreQ(t, e)
        BY <4>4, <4>8, OneSlip
      <4>10. OneMoreQ(e', text') \/ OneMoreQ(text', e')
        BY <4>6, <4>9 DEF t
      <4> QED
        BY <4>2, <4>10 DEF SlipInv, e
    <3>3. CASE how = "slipped"
      <4>1. 2 \in places \/ places = {1}
        BY <3>3 DEF SlipInv
      <4>2. Cardinality({1}) = 1
        BY FS_Singleton
      <4>3. 2 \in places'
        <5>1. CASE 2 \in places
          BY <3>1, <5>1
        <5>2. CASE places = {1}
          <6>1. Cardinality(places) + 1 = 2
            BY <4>2, <5>2
          <6> QED
            BY <3>1, <6>1
        <5> QED
          BY <4>1, <5>1, <5>2
      <4> QED
        BY <4>3 DEF SlipInv
    <3> QED
      BY <3>1, <3>2, <3>3
  <2>4. CASE PadOtherwise
    BY <2>4 DEF PadOtherwise, SlipInv
  <2>5. CASE Decode
    BY <2>5 DEF Decode, SlipInv
  <2>6. CASE UNCHANGED vars
    BY <2>6 DEF vars, SlipInv
  <2> QED
    BY <2>1, <2>2, <2>3, <2>4, <2>5, <2>6 DEF Next
<1> QED
  BY <1>1, <1>2, MistakeInvHolds, PTL DEF Spec

\* An address with one q inserted or left out before its final p is not read as
\* an address, whatever the length of its payload.
OneSlipDetected ==
    how = "slipped" /\ places = {1} /\ result # <<>> => ~ IsAddress(result)

\* What Bech32 missed, and its constant was changed for: one q too many or too
\* few before a final p is an address of nobody.
THEOREM OneSlipIsDetected == Spec => []OneSlipDetected
<1>1. AddressInv /\ SlipInv => OneSlipDetected
  <2> SUFFICES ASSUME AddressInv, SlipInv, how = "slipped", places = {1}, result # <<>>,
                      IsAddress(result)
               PROVE  FALSE
    BY DEF OneSlipDetected
  <2> DEFINE e == EncodeAddress(address)
             b == DecodeAddress(text)
  <2>1. address \in Address /\ text \in Seq(Nat) /\ result = b
    BY DEF AddressInv
  <2>2. b \in Address /\ EncodeAddress(b) = Lower(text)
    BY <2>1, EncodeDecode
  <2>3. OneMoreQ(e, text) \/ OneMoreQ(text, e)
    <3>1. 2 \notin {1}
      OBVIOUS
    <3> QED
      BY <3>1 DEF SlipInv
  <2>4. Small(e) /\ Len(e) > 1
    BY <2>1, AddressText, AddressLonger
  <2> HIDE DEF e, b
  <2>5. OneMoreQ(e, Lower(text)) \/ OneMoreQ(Lower(text), e)
    BY <2>1, <2>3, <2>4, SlipSmall
  <2>6. OneMoreQ(e, EncodeAddress(b)) \/ OneMoreQ(EncodeAddress(b), e)
    BY <2>2, <2>5
  <2> QED
    BY <2>1, <2>2, <2>6, NoneHasOneMore DEF e
<1> QED
  BY <1>1, SlipInvHolds, PTL

=============================================================================
