----------------------------- MODULE ScaleDecoder -----------------------------
(***************************************************************************)
(* The reference of ScaleEncoding: a type is its reader, the function from *)
(* a sequence to the value at its front and what is left.  A value is a    *)
(* tree.  A field of fixed width is one opaque element above 255.          *)
(***************************************************************************)
EXTENDS ScaleInt

Input == Seq(Nat)

Unreadable == [ok |-> FALSE, value |-> <<>>, rest |-> <<>>]
Reading(value, rest) == [ok |-> TRUE, value |-> value, rest |-> rest]
Drop(s, n) == SubSeq(s, n + 1, Len(s))

\* One value after the other, each of its type.
ReadAll(types, s) ==
    LET upto[i \in 0 .. Len(types)] ==
            IF i = 0 THEN Reading(<<>>, s)
            ELSE LET before == upto[i - 1]
                     one == types[i][before.rest]
                 IN  IF before.ok /\ one.ok
                     THEN Reading(Append(before.value, one.value), one.rest)
                     ELSE Unreadable
    IN  upto[Len(types)]

\* One element.
Fixed == [s \in Input |-> IF s = <<>> THEN Unreadable ELSE Reading(<<s[1]>>, Tail(s))]

\* A compact integer.
Compact ==
    [s \in Input |->
        LET n == DecodeScaleInt(s)
        IN  IF n.ok THEN Reading(<<n.value>>, Drop(s, n.size)) ELSE Unreadable]

\* Vec<u8>, String.
Blob ==
    [s \in Input |->
        LET n == DecodeScaleInt(s)
            body == Drop(s, n.size)
        IN  IF n.ok /\ n.value <= Len(body)
            THEN Reading(SubSeq(body, 1, n.value), Drop(body, n.value)) ELSE Unreadable]

Struct(types) == [s \in Input |-> ReadAll(types, s)]

Vec(type) ==
    [s \in Input |->
        LET n == DecodeScaleInt(s)
        IN  IF n.ok THEN ReadAll([i \in 1 .. n.value |-> type], Drop(s, n.size)) ELSE Unreadable]

\* A Vec with a type per element.
Tuple(types) ==
    [s \in Input |->
        LET n == DecodeScaleInt(s)
        IN  IF n.ok /\ n.value = Len(types) THEN ReadAll(types, Drop(s, n.size)) ELSE Unreadable]

Option(type) ==
    [s \in Input |->
        IF s = <<>> THEN Unreadable
        ELSE IF s[1] = 0 THEN Reading(<<>>, Tail(s))
        ELSE IF s[1] = 1 THEN ReadAll(<<type>>, Tail(s)) ELSE Unreadable]

Enum(types) ==
    [s \in Input |->
        IF s # <<>> /\ s[1] + 1 \in DOMAIN types
        THEN ReadAll(<<Fixed, types[s[1] + 1]>>, s) ELSE Unreadable]
=============================================================================
