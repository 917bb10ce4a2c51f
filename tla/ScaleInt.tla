------------------------------- MODULE ScaleInt -------------------------------
(***************************************************************************)
(* encode_scale_int: the SCALE compact integer, and its decoder.           *)
(***************************************************************************)
EXTENDS Integers, Sequences

Byte == 0 .. 255

\* The base-256 digits of a number, the lowest first, none for 0.
LittleEndian[n \in Nat] ==
    IF n = 0 THEN <<>> ELSE <<n % 256>> \o LittleEndian[n \div 256]

\* Up to 2^30 the two low bits of the first byte tell the width, the value is
\* in the others and in the bytes that follow.
EncodeSmall(val) ==
    IF val < 64 THEN <<4 * val>>
    ELSE IF val < 16384 THEN <<4 * (val % 64) + 1, val \div 64>>
    ELSE <<4 * (val % 64) + 2, (val \div 64) % 256, (val \div 16384) % 256,
           val \div 4194304>>

\* From there on the first byte has the number of digits, less 4.
EncodeScaleInt(val) ==
    IF val < 1073741824
    THEN EncodeSmall(val)
    ELSE LET out == LittleEndian[val]
         IN  <<4 * (Len(out) - 4) + 3>> \o out

----------------------------------------------------------------------------
(* The reference: SCALE's decoder.                                         *)

DecodeFails == [ok |-> FALSE, value |-> 0, size |-> 0]

\* The value of the first n digits of s after its first byte.
DigitsValue(s, n) ==
    LET upto[i \in 0 .. n] == IF i = 0 THEN 0 ELSE s[n + 2 - i] + 256 * upto[i - 1]
    IN  upto[n]

DecodedValue(s) ==
    LET mode == s[1] % 4
    IN  IF mode = 0 THEN s[1] \div 4
        ELSE IF mode = 1 THEN s[1] \div 4 + 64 * s[2]
        ELSE IF mode = 2 THEN s[1] \div 4 + 64 * s[2] + 16384 * s[3] + 4194304 * s[4]
        ELSE DigitsValue(s, s[1] \div 4 + 4)

\* Bytes a compact integer takes, by its first one.
CompactSize(first) ==
    IF first % 4 = 0 THEN 1
    ELSE IF first % 4 = 1 THEN 2
    ELSE IF first % 4 = 2 THEN 4
    ELSE first \div 4 + 5

DecodeScaleInt(s) ==
    IF /\ s # <<>>
       /\ s[1] \in Byte
       /\ CompactSize(s[1]) <= Len(s)
       /\ \A i \in 2 .. CompactSize(s[1]) : s[i] \in Byte
    THEN [ok |-> TRUE, value |-> DecodedValue(s), size |-> CompactSize(s[1])]
    ELSE DecodeFails
=============================================================================
