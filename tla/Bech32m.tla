------------------------------- MODULE Bech32m -------------------------------
(***************************************************************************)
(* Bech32m addresses: what decode_address makes of a text that was         *)
(* encode_address's, or that, capitalised, mistyped, written with a q too  *)
(* many or too few, or padded in another way.  A text is the sequence of   *)
(* its characters' codes (ord); the 30 bits of the checksum are six words  *)
(* of five bits, the highest first.                                        *)
(***************************************************************************)
EXTENDS Integers, SequencesExt

CONSTANTS
    Addresses,  \* [type, network, payload] that are encoded
    Typed,      \* characters typed by mistake
    MaxErrors,  \* bound on the mistyped characters of a text
    MaxSlips    \* bound on the q's too many or too few

Octet == 0 .. 255
Types == {"unshielded", "shielded", "dust"}
Networks == {"mainnet", "preprod", "preview", "undeployed"}

ASSUME AddressAssumption ==
    /\ Addresses \subseteq [type : Types, network : Networks, payload : Seq(Octet)]
    /\ Typed \subseteq Nat

Word == 0 .. 31
Words(n) ==
    <<(n \div 33554432) % 32, (n \div 1048576) % 32, (n \div 32768) % 32,
      (n \div 1024) % 32, (n \div 32) % 32, n % 32>>

\* Faulty: the constant of BIP-173, Bech32.
BECH32_CONST == Words(1)

\* The constant of BIP-350.
BECH32M_CONST == Words(734539939)

GENERATOR ==
    <<Words(996825010), Words(642813549), Words(513874426), Words(1027748829), Words(705979059)>>

ChecksumLength == 6

----------------------------------------------------------------------------
(* Characters.                                                             *)

\* "qpzry9x8gf2tvdw0s3jn54khce6mua7l"
CHARSET == <<113, 112, 122, 114, 121, 57, 120, 56, 103, 102, 50, 116, 118, 100, 119, 48,
             115, 51, 106, 110, 53, 52, 107, 104, 99, 101, 54, 109, 117, 97, 55, 108>>

Separator == 49
IsLower(x) == x \in 97 .. 122
IsUpper(x) == x \in 65 .. 90
Upper(text) == [i \in DOMAIN text |-> IF IsLower(text[i]) THEN text[i] - 32 ELSE text[i]]
Lower(text) == [i \in DOMAIN text |-> IF IsUpper(text[i]) THEN text[i] + 32 ELSE text[i]]

Symbol == [x \in Range(CHARSET) |-> CHOOSE d \in Word : CHARSET[d + 1] = x]

----------------------------------------------------------------------------
(* The checksum.                                                           *)

Bits(n) == <<n % 2, (n \div 2) % 2, (n \div 4) % 2, (n \div 8) % 2, (n \div 16) % 2>>

Xor == [a \in Word |-> [b \in Word |->
    LET bit == [i \in 1 .. 5 |-> (Bits(a)[i] + Bits(b)[i]) % 2]
    IN  bit[1] + 2 * bit[2] + 4 * bit[3] + 8 * bit[4] + 16 * bit[5]]]

XorAll(x, y) == [i \in 1 .. ChecksumLength |-> Xor[x[i]][y[i]]]

\* What the inner loop of the polymod XORs into chk.
GeneratorSum == [top \in Word |->
    LET term(i) == IF Bits(top)[i] = 1 THEN GENERATOR[i] ELSE Words(0)
    IN  XorAll(term(1), XorAll(term(2), XorAll(term(3), XorAll(term(4), term(5)))))]

\* One value enters chk from below, the highest word leaves it.
Feed == [chk \in Seq(Word) |-> [v \in Word |->
    XorAll(Append(Tail(chk), v), GeneratorSum[Head(chk)])]]

Polymod(values) ==
    LET chk[i \in 0 .. Len(values)] ==
            IF i = 0 THEN Words(1) ELSE Feed[chk[i - 1]][values[i]]
    IN  chk[Len(values)]

HrpExpand(hrp) ==
    [i \in DOMAIN hrp |-> hrp[i] \div 32] \o <<0>> \o [i \in DOMAIN hrp |-> hrp[i] % 32]

CreateChecksum(hrp, data) ==
    XorAll(Polymod(HrpExpand(hrp) \o data \o Words(0)), BECH32M_CONST)

VerifyChecksum(hrp, data) == Polymod(HrpExpand(hrp) \o data) = BECH32M_CONST

----------------------------------------------------------------------------
(* Groups of bits.                                                         *)

\* 1 << n, for the widths there are.
Shift(n) == <<1, 2, 4, 8, 16, 32, 64, 128, 256, 512, 1024, 2048, 4096>>[n + 1]

Regrouping == [acc : Nat, bits : Nat, ret : Seq(Nat)]

\* One value enters acc; every full group of tobits leaves it.
Accumulate(frombits, tobits) == [state \in Regrouping |-> [v \in Nat |->
    LET acc == (state.acc * Shift(frombits) + v) % Shift(frombits + tobits - 1)
        bits == state.bits + frombits
    IN  [acc |-> acc,
         bits |-> bits % tobits,
         ret |-> state.ret \o [k \in 1 .. bits \div tobits |->
                                  (acc \div Shift(bits - k * tobits)) % Shift(tobits)]]]]

Groups(data, frombits, tobits) ==
    LET state[i \in 0 .. Len(data)] ==
            IF i = 0 THEN [acc |-> 0, bits |-> 0, ret |-> <<>>]
            ELSE Accumulate(frombits, tobits)[state[i - 1]][data[i]]
    IN  state[Len(data)]

\* Faulty: the bits that are left are not written.
PaddedGroupsCut(data) == Groups(data, 8, 5).ret

\* _convertbits(data, 8, 5): the last group is filled up with zeros.
PaddedGroups(data) ==
    LET state == Groups(data, 8, 5)
    IN  IF state.bits = 0
        THEN state.ret
        ELSE Append(state.ret, (state.acc * Shift(5 - state.bits)) % 32)

\* Faulty: whatever is left over is ignored.
PaddingOKAlways(state) == TRUE

\* _convertbits(data, 5, 8, pad=False): less than a group, and zeros, are left.
PaddingOK(state) == state.bits < 5 /\ (state.acc * Shift(8 - state.bits)) % 256 = 0

----------------------------------------------------------------------------
(* Addresses.                                                              *)

\* "mn_addr", "mn_shield-addr" and "mn_dust", followed by nothing, "_preprod",
\* "_preview" or "_undeployed".
TypePrefix ==
    [unshielded |-> <<109, 110, 95, 97, 100, 100, 114>>,
     shielded |-> <<109, 110, 95, 115, 104, 105, 101, 108, 100, 45, 97, 100, 100, 114>>,
     dust |-> <<109, 110, 95, 100, 117, 115, 116>>]

NetworkSuffix ==
    [mainnet |-> <<>>,
     preprod |-> <<95, 112, 114, 101, 112, 114, 111, 100>>,
     preview |-> <<95, 112, 114, 101, 118, 105, 101, 119>>,
     undeployed |-> <<95, 117, 110, 100, 101, 112, 108, 111, 121, 101, 100>>]

HRP_TABLE ==
    [k \in Types \X Networks |-> TypePrefix[k[1]] \o NetworkSuffix[k[2]]]

Bech32mEncode(hrp, data5) ==
    LET data == data5 \o CreateChecksum(hrp, data5)
    IN  hrp \o <<Separator>> \o [i \in DOMAIN data |-> CHARSET[data[i] + 1]]

EncodeAddress(address) ==
    Bech32mEncode(HRP_TABLE[<<address.type, address.network>>], PaddedGroups(address.payload))

Failed(why) == [error |-> why]
IsAddress(r) == "payload" \in DOMAIN r

\* Both cases in one text; digits and marks have none.
MixedCase(text) == (\E i \in DOMAIN text : IsUpper(text[i])) /\ \E i \in DOMAIN text : IsLower(text[i])

\* hrp and data5, after the checks of bech32m_decode in its order.
Bech32mDecode(text) ==
    LET bech == Lower(text)
        pos == SelectLastInSeq(bech, LAMBDA x : x = Separator)
        hrp == SubSeq(bech, 1, pos - 1)
        data == SubSeq(bech, pos + 1, Len(bech))
        data5 == [i \in DOMAIN data |-> Symbol[data[i]]]
    IN  IF \E i \in DOMAIN text : text[i] \notin 33 .. 126 THEN Failed("character")
        ELSE IF MixedCase(text) THEN Failed("case")
        ELSE IF pos < 2 \/ pos + ChecksumLength > Len(bech) THEN Failed("separator")
        ELSE IF ~ (ToSet(data) \subseteq DOMAIN Symbol) THEN Failed("data character")
        ELSE IF ~ VerifyChecksum(hrp, data5) THEN Failed("checksum")
        ELSE [hrp |-> hrp, data5 |-> SubSeq(data5, 1, Len(data5) - ChecksumLength)]

Decoded(info, payload) == [type |-> info[1], network |-> info[2], payload |-> payload]

DecodeAddress(text) ==
    LET decoded == Bech32mDecode(text)
        known == {k \in DOMAIN HRP_TABLE : HRP_TABLE[k] = decoded.hrp}
        info == CHOOSE k \in known : TRUE
        state == Groups(decoded.data5, 5, 8)
    IN  IF "error" \in DOMAIN decoded THEN decoded
        ELSE IF known = {} THEN Failed("hrp")
        ELSE IF ~ PaddingOK(state) THEN Failed("padding")
        ELSE Decoded(info, state.ret)

----------------------------------------------------------------------------
VARIABLES
    address,  \* the address that was encoded
    text,     \* what is written of it
    how,      \* "exact", "mistyped", "slipped" or "padded"
    places,   \* the mistyped positions, or the slips made
    result    \* <<>> or what decode_address returned or raised

vars == <<address, text, how, places, result>>

Init ==
    /\ address \in Addresses
    /\ text = EncodeAddress(address)
    /\ how = "exact"
    /\ places = {}
    /\ result = <<>>

\* All capitals, as in a QR code.
Capitalise ==
    /\ result = <<>> /\ how = "exact"
    /\ text' = Upper(text)
    /\ UNCHANGED <<address, how, places, result>>

\* Another character at a position behind those mistyped before.
Mistype ==
    /\ result = <<>> /\ how \in {"exact", "mistyped"}
    /\ \E i \in DOMAIN text, x \in Typed :
        /\ \A j \in places : i > j
        /\ text[i] # x
        /\ text' = [text EXCEPT ![i] = x]
        /\ places' = places \cup {i}
    /\ Cardinality(places') <= MaxErrors
    /\ how' = "mistyped"
    /\ UNCHANGED <<address, result>>

\* A q before a final p is written twice or left out.
Slip ==
    /\ result = <<>> /\ how \in {"exact", "slipped"}
    /\ Cardinality(places) < MaxSlips
    /\ Last(text) = 112
    /\ \/ text' = InsertAt(text, Len(text), 113)
       \/ /\ text[Len(text) - 1] = 113
          /\ text' = RemoveAt(text, Len(text) - 1)
    /\ text' # EncodeAddress(address)
    /\ places' = places \cup {Cardinality(places) + 1}
    /\ how' = "slipped"
    /\ UNCHANGED <<address, result>>

\* An encoder that ends the same payload with other groups.
PadOtherwise ==
    /\ result = <<>> /\ how = "exact"
    /\ LET data5 == PaddedGroups(address.payload)
           hrp == HRP_TABLE[<<address.type, address.network>>]
       IN  \/ data5 # <<>> /\ \E last \in 0 .. 31 :
                text' = Bech32mEncode(hrp, [data5 EXCEPT ![Len(data5)] = last])
           \/ \E more \in {0, 1} : text' = Bech32mEncode(hrp, Append(data5, more))
    /\ how' = "padded"
    /\ UNCHANGED <<address, places, result>>

Decode ==
    /\ result = <<>>
    /\ result' = DecodeAddress(text)
    /\ UNCHANGED <<address, text, how, places>>

Next == Capitalise \/ Mistype \/ Slip \/ PadOtherwise \/ Decode

Spec == Init /\ [][Next]_vars

----------------------------------------------------------------------------
(* Properties.                                                             *)

TypeOK ==
    /\ address.type \in Types /\ address.network \in Networks
    /\ \A x \in ToSet(address.payload) : x \in Octet
    /\ \A x \in ToSet(text) : x \in 33 .. 126
    /\ how \in {"exact", "mistyped", "slipped", "padded"}
    /\ places \subseteq 1 .. Len(text)
    /\ \/ result = <<>>
       \/ DOMAIN result = {"error"}
       \/ /\ result.type \in Types /\ result.network \in Networks
          /\ \A x \in ToSet(result.payload) : x \in Octet

\* An address, in small letters or capitals, decodes to its own type, network
\* and payload, whatever the payload's length leaves to be padded.
RoundTrip == how = "exact" /\ result # <<>> => result = address

\* A text with mistyped characters, the prefix and the separator included, or
\* with q's inserted or left out before a final p, is an address of nobody.
\* The change of constant is for the q's: BIP-173 would accept them.
ErrorsDetected ==
    how \in {"mistyped", "slipped"} /\ result # <<>> => ~ IsAddress(result)

\* Every text that decodes is the one encode_address writes for the result:
\* two texts never stand for one owner.
Canonical == result # <<>> /\ IsAddress(result) => EncodeAddress(result) = Lower(text)

\* tx/builder.py:154 "Decode recipient address to get 32-byte public
\* key/address": the recipient of an unshielded transfer has 32 bytes.
RecipientHas32Bytes ==
    result # <<>> /\ IsAddress(result) => Len(result.payload) = 32
=============================================================================
