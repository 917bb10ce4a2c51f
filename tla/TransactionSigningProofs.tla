----------------------- MODULE TransactionSigningProofs -----------------------
(***************************************************************************)
(* What _serialize_transaction does to a dict, for every dict and every    *)
(* interleaving of submissions and balancing: what is sent again is the    *)
(* transaction that was sent before, and it is signed, once per offer,     *)
(* over what is sent, and in the guaranteed part by the owner's wallet.    *)
(***************************************************************************)
EXTENDS TransactionSigning, FiniteSetTheorems, SequenceTheorems, TLAPS

\* A list of intents.
IntentList(its) ==
    /\ \E S : its \in Seq(S)
    /\ \A i \in 1 .. Len(its) : IsIntent(its[i])

\* What one sent intent must be, for a dict that asks for signatures.
WellSigned(intent) ==
    /\ \A field \in Offers(intent) :
        /\ Len(intent[field].signatures) = 1
        /\ Bare(intent[field].signatures[1].payload.intent) = Bare(intent)
    /\ intent.guaranteed # NoOffer =>
        intent.guaranteed.signatures[1].key = WalletOf(intent.guaranteed.owner)

\* What the node can make of an intent is what its signatures are over.
Recomputable(intent) ==
    \A field \in Offers(intent) :
        intent[field].signatures[1].payload.intent = Recomputed(intent, field)

\* The later list is the earlier one, balanced, signed and added to.
Continues(earlier, later) ==
    /\ Len(earlier) <= Len(later)
    /\ \A i \in DOMAIN earlier : i \in DOMAIN later /\ Alike(earlier[i], later[i])

\* The inductive invariant: the dict keeps its shape, each transaction that was
\* sent was signed throughout when it was sent, and the dict continues it; from
\* the first one on there is randomness, which keeps the commitments.
SigningInv ==
    /\ IntentList(intents)
    /\ randomness \in Nat /\ fee \in Nat
    /\ requires_unshielded_signature \in BOOLEAN
    /\ attempts \in 0 .. MaxAttempts
    /\ \E S : sent \in Seq(S)
    /\ Len(sent) <= attempts
    /\ requires_unshielded_signature =>
        \A n \in DOMAIN sent : \A i \in DOMAIN sent[n].intents :
            /\ WellSigned(sent[n].intents[i])
            /\ sent[n].unsigned => Recomputable(sent[n].intents[i])
    /\ sent # <<>> => randomness # 0
    /\ \A n \in DOMAIN sent : Continues(sent[n].intents, intents)
    /\ ResentAlike

-----------------------------------------------------------------------------
(* Intents *)

LEMMA IntentFields ==
    ASSUME NEW x, IsIntent(x)
    PROVE  /\ DOMAIN x = {"segment", "guaranteed", "fallible", "binding_commitment"}
           /\ x["guaranteed"] = x.guaranteed /\ x["fallible"] = x.fallible
  BY DEF IsIntent

LEMMA OfferIsOffer ==
    ASSUME NEW o, IsOffer(o)
    PROVE  /\ o # NoOffer /\ DOMAIN o = {"owner", "balance", "signatures"}
           /\ Len(o.signatures) \in 0 .. 1
<1>1. DOMAIN o = {"owner", "balance", "signatures"}
  BY DEF IsOffer
<1>2. DOMAIN NoOffer = {"offer"}
  BY DEF NoOffer
<1>3. "owner" # "offer"
  OBVIOUS
<1>4. Len(o.signatures) \in 0 .. 1
  BY DEF IsOffer
<1> QED
  BY <1>1, <1>2, <1>3, <1>4

\* An offer without its signatures.
Strip(q) == IF q = NoOffer THEN q ELSE [q EXCEPT !.signatures = <<>>]

LEMMA BareParts ==
    ASSUME NEW z, IsIntent(z)
    PROVE  Bare(z) = [segment |-> z.segment, guaranteed |-> Strip(z.guaranteed),
                      fallible |-> Strip(z.fallible),
                      binding_commitment |-> z.binding_commitment]
<1>1. z = [segment |-> z.segment, guaranteed |-> z.guaranteed, fallible |-> z.fallible,
           binding_commitment |-> z.binding_commitment]
  BY DEF IsIntent
<1>2. Bare(z) = [z EXCEPT !.guaranteed = Strip(z.guaranteed), !.fallible = Strip(z.fallible)]
  BY <1>1 DEF Bare, Strip
<1> QED
  BY <1>1, <1>2

\* An offer without signatures has none to take off.
LEMMA StripUnsigned ==
    ASSUME NEW q, q = NoOffer \/ (IsOffer(q) /\ q.signatures = <<>>)
    PROVE  Strip(q) = q
<1>1. CASE q = NoOffer
  BY <1>1 DEF Strip
<1>2. CASE IsOffer(q) /\ q.signatures = <<>>
  <2>1. q = [owner |-> q.owner, balance |-> q.balance, signatures |-> q.signatures]
    BY <1>2 DEF IsOffer
  <2>2. [q EXCEPT !.signatures = <<>>] = q
    BY <1>2, <2>1
  <2> QED
    BY <2>2 DEF Strip
<1> QED
  BY <1>1, <1>2

\* Intents that agree without their signatures are alike, and being alike
\* carries over.
LEMMA AlikeBare ==
    ASSUME NEW x, NEW y, Bare(y) = Bare(x), y.segment = x.segment,
           y.binding_commitment = x.binding_commitment
    PROVE  Alike(x, y)
  BY DEF Alike

LEMMA AlikeCarries ==
    ASSUME NEW x, NEW y, NEW z, Alike(x, y), Alike(y, z)
    PROVE  Alike(x, z)
  BY DEF Alike

LEMMA ContinuesCarries ==
    ASSUME NEW a, NEW b, NEW c, Continues(a, b), Continues(b, c)
    PROVE  Continues(a, c)
<1>1. ASSUME NEW i \in DOMAIN a PROVE i \in DOMAIN c /\ Alike(a[i], c[i])
  <2>1. i \in DOMAIN b /\ Alike(a[i], b[i])
    BY DEF Continues
  <2>2. i \in DOMAIN c /\ Alike(b[i], c[i])
    BY <2>1 DEF Continues
  <2> QED
    BY <2>1, <2>2, AlikeCarries
<1>2. Len(a) <= Len(c)
  BY DEF Continues
<1> QED
  BY <1>1, <1>2 DEF Continues

\* A list of as many things as there are intents is a sequence.
LEMMA ListBuilt ==
    ASSUME NEW n \in Nat, NEW f, f = [i \in 1 .. n |-> f[i]]
    PROVE  Len(f) = n /\ \E S : f \in Seq(S)
<1> DEFINE S == {f[i] : i \in 1 .. n}
<1>1. f \in [1 .. n -> S]
  OBVIOUS
<1>2. f \in Seq(S)
  BY <1>1
<1>3. Len(f) = n
  BY <1>1, <1>2
<1> QED
  BY <1>2, <1>3

\* The signature of an offer replaces those it has, and nothing else.
LEMMA SignedEffect ==
    ASSUME NEW x, IsIntent(x), NEW field \in {"guaranteed", "fallible"}, NEW signer,
           NEW y, y = Signed(x, field, signer)
    PROVE  /\ IsIntent(y) /\ Bare(y) = Bare(x)
           /\ y.segment = x.segment /\ y.binding_commitment = x.binding_commitment
           /\ \A other \in {"guaranteed", "fallible"} \ {field} : y[other] = x[other]
           /\ x[field] = NoOffer => y[field] = NoOffer
           /\ x[field] # NoOffer =>
                 /\ y[field] # NoOffer
                 /\ y[field].signatures = <<[key |-> signer, payload |-> SigningPayload(x)]>>
                 /\ y[field].owner = x[field].owner
           /\ field = "fallible" /\ x[field] # NoOffer /\ x[field].signatures = <<>> =>
                 Recomputed(y, field) = x
<1> DEFINE sig == <<[key |-> signer, payload |-> SigningPayload(x)]>>
<1>1. CASE x[field] = NoOffer
  BY <1>1 DEF Signed
<1>2. CASE x[field] # NoOffer
  <2> DEFINE o == x[field]
             p == [o EXCEPT !.signatures = sig]
  <2>1. IsOffer(o)
    BY <1>2 DEF IsIntent
  <2>2. y = [x EXCEPT ![field] = p]
    BY <1>2 DEF Signed
  <2>3. Len(sig) = 1
    OBVIOUS
  <2>4. p = [owner |-> o.owner, balance |-> o.balance, signatures |-> sig]
    <3> HIDE DEF o, sig
    <3> QED
      BY <2>1 DEF IsOffer
  <2>5. IsOffer(p) /\ p # NoOffer
    <3>1. IsOffer(p)
      <4> HIDE DEF o, sig, p
      <4> QED
        BY <2>3, <2>4 DEF IsOffer
    <3> QED
      BY <3>1, OfferIsOffer
  <2>6. /\ y[field] = p
        /\ \A g \in {"segment", "guaranteed", "fallible", "binding_commitment"} \ {field} :
              y[g] = x[g]
        /\ DOMAIN y = {"segment", "guaranteed", "fallible", "binding_commitment"}
    <3> HIDE DEF p
    <3> QED
      BY <2>2, IntentFields
  <2>7. y = [segment |-> y.segment, guaranteed |-> y.guaranteed, fallible |-> y.fallible,
             binding_commitment |-> y.binding_commitment]
    <3>1. x = [segment |-> x.segment, guaranteed |-> x.guaranteed, fallible |-> x.fallible,
               binding_commitment |-> x.binding_commitment]
      BY DEF IsIntent
    <3> HIDE DEF p
    <3>2. CASE field = "guaranteed"
      BY <2>2, <3>1, <3>2
    <3>3. CASE field = "fallible"
      BY <2>2, <3>1, <3>3
    <3> QED
      BY <3>2, <3>3
  <2>8. IsIntent(y)
    <3> HIDE DEF p
    <3> QED
      BY <2>5, <2>6, <2>7 DEF IsIntent
  <2>9. Bare(y) = Bare(x)
    <3>1. [p EXCEPT !.signatures = <<>>] = [o EXCEPT !.signatures = <<>>]
      OBVIOUS
    <3>2. ASSUME NEW z, IsIntent(z)
          PROVE  Bare(z) = [segment |-> z.segment, guaranteed |-> Strip(z.guaranteed),
                            fallible |-> Strip(z.fallible),
                            binding_commitment |-> z.binding_commitment]
      BY <3>2, BareParts
    <3>3. Strip(p) = Strip(o)
      <4> HIDE DEF p, o
      <4> QED
        BY <1>2, <2>5, <3>1 DEF o, Strip
    <3> HIDE DEF p
    <3>4. CASE field = "guaranteed"
      BY <2>6, <2>8, <3>2, <3>3, <3>4
    <3>5. CASE field = "fallible"
      BY <2>6, <2>8, <3>2, <3>3, <3>5
    <3> QED
      BY <3>4, <3>5
  <2>10. p.signatures = sig /\ p.owner = o.owner
    <3> HIDE DEF p, o, sig
    <3> QED
      BY <2>4
  <2>11. ASSUME field = "fallible", o.signatures = <<>>
         PROVE  Recomputed(y, field) = x
    <3>1. [y EXCEPT !.fallible.signatures = <<>>]
            = [y EXCEPT !.fallible = [p EXCEPT !.signatures = <<>>]]
      <4> HIDE DEF p, o
      <4> QED
        BY <2>6, <2>11
    <3>2. [p EXCEPT !.signatures = <<>>] = o
      <4> HIDE DEF o, sig
      <4>1. o = [owner |-> o.owner, balance |-> o.balance, signatures |-> <<>>]
        BY <2>1, <2>11 DEF IsOffer
      <4> HIDE DEF p
      <4>2. [p EXCEPT !.signatures = <<>>]
              = [owner |-> o.owner, balance |-> o.balance, signatures |-> <<>>]
        BY <2>4
      <4> QED
        BY <4>1, <4>2
    <3>3. x = [segment |-> x.segment, guaranteed |-> x.guaranteed, fallible |-> o,
               binding_commitment |-> x.binding_commitment]
      <4>1. x = [segment |-> x.segment, guaranteed |-> x.guaranteed, fallible |-> x.fallible,
                 binding_commitment |-> x.binding_commitment]
        BY DEF IsIntent
      <4> QED
        BY <2>11, <4>1, IntentFields
    <3> HIDE DEF p, o
    <3>4. [y EXCEPT !.fallible = o] = x
      <4>1. y = [x EXCEPT !.fallible = p]
        BY <2>2, <2>11
      <4> DEFINE g == x.guaranteed
                 t == x.segment
                 c == x.binding_commitment
      <4>2. x = [segment |-> t, guaranteed |-> g, fallible |-> o, binding_commitment |-> c]
        BY <3>3
      <4> HIDE DEF g, t, c
      <4>3. y = [segment |-> t, guaranteed |-> g, fallible |-> p, binding_commitment |-> c]
        BY <4>1, <4>2
      <4> QED
        BY <4>2, <4>3
    <3>5. Recomputed(y, field) = [y EXCEPT !.fallible.signatures = <<>>]
      BY <2>11 DEF Recomputed
    <3> QED
      BY <3>1, <3>2, <3>4, <3>5
  <2> HIDE DEF p
  <2> QED
    BY <1>2, <2>5, <2>6, <2>8, <2>9, <2>10, <2>11
<1> QED
  BY <1>1, <1>2

\* An intent that has both its offers signed is well signed, when the signer
\* is the wallet of its guaranteed offer.
LEMMA SignIntentEffect ==
    ASSUME NEW its, NEW i \in 1 .. Len(its), Len(its) \in Nat, IsIntent(its[i]),
           NEW y, y = SignIntent(its, i)
    PROVE  /\ IsIntent(y) /\ WellSigned(y) /\ Alike(its[i], y)
           /\ (\A field \in Offers(its[i]) : its[i][field].signatures = <<>>)
                => Recomputable(y)
<1> DEFINE x == its[i]
           s == Signer(its, i)
           x1 == Signed(x, "guaranteed", s)
           sig(z) == <<[key |-> s, payload |-> SigningPayload(z)]>>
<1>1. /\ IsIntent(x1) /\ Bare(x1) = Bare(x)
      /\ x1.binding_commitment = x.binding_commitment /\ x1.segment = x.segment
      /\ x1["fallible"] = x["fallible"]
      /\ x["guaranteed"] = NoOffer => x1["guaranteed"] = NoOffer
      /\ x["guaranteed"] # NoOffer => /\ x1["guaranteed"].signatures = sig(x)
                                      /\ x1["guaranteed"].owner = x["guaranteed"].owner
  <2> HIDE DEF x, s
  <2> QED
    BY SignedEffect DEF x
<1>2. /\ IsIntent(y) /\ Bare(y) = Bare(x1)
      /\ y.binding_commitment = x1.binding_commitment /\ y.segment = x1.segment
      /\ y["guaranteed"] = x1["guaranteed"]
      /\ x1["fallible"] = NoOffer => y["fallible"] = NoOffer
      /\ x1["fallible"] # NoOffer =>
            /\ y["fallible"].signatures = sig(x1)
            /\ x1["fallible"].signatures = <<>> => Recomputed(y, "fallible") = x1
  <2>1. y = Signed(x1, "fallible", s)
    BY DEF SignIntent
  <2> HIDE DEF x1, s
  <2> QED
    BY <1>1, <2>1, SignedEffect
<1>3. \A z : sig(z)[1].payload.intent = z /\ sig(z)[1].key = s /\ Len(sig(z)) = 1
  BY DEF SigningPayload
<1>4. x["guaranteed"] # NoOffer => s = WalletOf(x.guaranteed.owner)
  <2> SUFFICES ASSUME x["guaranteed"] # NoOffer PROVE s = WalletOf(x.guaranteed.owner)
    OBVIOUS
  <2> DEFINE G == {j \in 1 .. i : its[j].guaranteed # NoOffer}
  <2>1. x.guaranteed # NoOffer
    BY IntentFields
  <2>2. i \in G /\ \A j \in G : j \in Int /\ i >= j
    BY <2>1
  <2>3. Max(G) = i
    <3> HIDE DEF G
    <3>1. \A k \in G : (\A j \in G : k >= j) => k = i
      BY <2>2
    <3> QED
      BY <2>2, <3>1 DEF Max
  <2>4. s = WalletOf(its[Max(G)].guaranteed.owner)
    BY <2>2 DEF Signer
  <2> HIDE DEF G
  <2> QED
    BY <2>3, <2>4
<1>5. /\ x["guaranteed"] = x.guaranteed
      /\ y["guaranteed"] = y.guaranteed /\ y["fallible"] = y.fallible
  <2> HIDE DEF x
  <2> QED
    BY <1>2, IntentFields DEF x
<1> HIDE DEF x, x1, s, sig
<1>6. WellSigned(y)
  <2>1. ASSUME y["guaranteed"] # NoOffer
        PROVE  /\ y["guaranteed"].signatures = sig(x)
               /\ y.guaranteed.signatures[1].key = WalletOf(y.guaranteed.owner)
    BY <1>1, <1>2, <1>3, <1>4, <1>5, <2>1
  <2>2. ASSUME y["fallible"] # NoOffer PROVE y["fallible"].signatures = sig(x1)
    BY <1>2, <2>2
  <2>3. ASSUME NEW field \in Offers(y)
        PROVE  /\ Len(y[field].signatures) = 1
               /\ Bare(y[field].signatures[1].payload.intent) = Bare(y)
    <3>1. y[field] # NoOffer /\ field \in {"guaranteed", "fallible"}
      BY <2>3 DEF Offers
    <3>2. y[field].signatures = sig(x) \/ y[field].signatures = sig(x1)
      BY <2>1, <2>2, <3>1
    <3> QED
      BY <1>1, <1>2, <1>3, <3>2
  <2> QED
    BY <1>5, <2>1, <2>3 DEF WellSigned
<1>7. Alike(x, y)
  BY <1>1, <1>2, AlikeBare
<1>8. ASSUME \A field \in Offers(x) : x[field].signatures = <<>>
      PROVE  Recomputable(y)
  <2>1. Bare(x) = x
    <3>1. x.guaranteed = NoOffer \/ (IsOffer(x.guaranteed) /\ x.guaranteed.signatures = <<>>)
      BY <1>8, IntentFields DEF x, IsIntent, Offers
    <3>2. x.fallible = NoOffer \/ (IsOffer(x.fallible) /\ x.fallible.signatures = <<>>)
      BY <1>8, IntentFields DEF x, IsIntent, Offers
    <3>3. Strip(x.guaranteed) = x.guaranteed /\ Strip(x.fallible) = x.fallible
      BY <3>1, <3>2, StripUnsigned
    <3>4. IsIntent(x)
      BY DEF x
    <3>5. x = [segment |-> x.segment, guaranteed |-> x.guaranteed, fallible |-> x.fallible,
               binding_commitment |-> x.binding_commitment]
      BY <3>4 DEF IsIntent
    <3> QED
      BY <3>3, <3>4, <3>5, BareParts
  <2>2. ASSUME y["guaranteed"] # NoOffer
        PROVE  y["guaranteed"].signatures[1].payload.intent = Recomputed(y, "guaranteed")
    <3>1. y["guaranteed"].signatures = sig(x)
      BY <1>1, <1>2, <2>2
    <3>2. Recomputed(y, "guaranteed") = Bare(y)
      BY DEF Recomputed
    <3> QED
      BY <1>1, <1>2, <1>3, <2>1, <3>1, <3>2
  <2>3. ASSUME y["fallible"] # NoOffer
        PROVE  y["fallible"].signatures[1].payload.intent = Recomputed(y, "fallible")
    <3>1. x1["fallible"] # NoOffer /\ y["fallible"].signatures = sig(x1)
      BY <1>2, <2>3
    <3>2. x1["fallible"].signatures = <<>>
      BY <1>1, <1>8, <3>1 DEF Offers
    <3> QED
      BY <1>2, <1>3, <3>1, <3>2
  <2> QED
    BY <2>2, <2>3 DEF Recomputable, Offers
<1> QED
  BY <1>2, <1>6, <1>7, <1>8 DEF x

-----------------------------------------------------------------------------
(* Lists of intents *)

\* The binding changes commitments only, and only while there is no
\* randomness.
LEMMA BoundEffect ==
    ASSUME IntentList(intents), NEW fresh, NEW bound, bound = Bound(fresh)
    PROVE  /\ IntentList(bound) /\ Len(bound) = Len(intents)
           /\ randomness # 0 => bound = intents
<1>1. CASE randomness # 0
  BY <1>1 DEF Bound
<1>2. CASE randomness = 0
  <2> DEFINE c == [randomness |-> fresh, value |-> fee]
             e(i) == IF intents[i].segment = 0
                     THEN [intents[i] EXCEPT !.binding_commitment = c]
                     ELSE intents[i]
  <2>1. bound = [i \in 1 .. Len(intents) |-> e(i)]
    BY <1>2 DEF Bound, Positions
  <2>2. Len(intents) \in Nat
    BY DEF IntentList
  <2>3. ASSUME NEW i \in 1 .. Len(intents) PROVE IsIntent(e(i))
    <3>1. IsIntent(intents[i])
      BY DEF IntentList
    <3> HIDE DEF c
    <3> QED
      BY <3>1 DEF IsIntent
  <2> HIDE DEF e
  <2>4. bound = [i \in 1 .. Len(intents) |-> bound[i]]
    BY <2>1
  <2>5. Len(bound) = Len(intents) /\ \E S : bound \in Seq(S)
    BY <2>2, <2>4, ListBuilt
  <2>6. \A i \in 1 .. Len(bound) : IsIntent(bound[i])
    BY <2>1, <2>3, <2>5
  <2> QED
    BY <1>2, <2>5, <2>6 DEF IntentList
<1> QED
  BY <1>1, <1>2

\* The loop signs intents where they stand, and changes nothing else of them.
LEMMA SignAllEffect ==
    ASSUME NEW its, IntentList(its), Len(its) = Len(intents), NEW all, all = SignAll(its)
    PROVE  /\ IntentList(all) /\ Len(all) = Len(its)
           /\ \A i \in 1 .. Len(its) :
                 /\ Alike(its[i], all[i])
                 /\ i \in SignedPositions(its) =>
                       WellSigned(all[i]) /\ (Unsigned(its) => Recomputable(all[i]))
<1>1. Len(its) \in Nat
  BY DEF IntentList
<1> DEFINE e(i) == IF i \in SignedPositions(its) THEN SignIntent(its, i) ELSE its[i]
<1>2. all = [i \in 1 .. Len(its) |-> e(i)]
  BY DEF SignAll, Positions
<1>3. ASSUME NEW i \in 1 .. Len(its)
      PROVE  /\ IsIntent(e(i)) /\ Alike(its[i], e(i))
             /\ i \in SignedPositions(its) =>
                   WellSigned(e(i)) /\ (Unsigned(its) => Recomputable(e(i)))
  <2>1. IsIntent(its[i]) /\ i \in DOMAIN its
    BY DEF IntentList
  <2>2. Unsigned(its) => \A field \in Offers(its[i]) : its[i][field].signatures = <<>>
    BY <2>1 DEF Unsigned
  <2>3. Alike(its[i], its[i])
    BY AlikeBare
  <2> QED
    BY <1>1, <2>1, <2>2, <2>3, SignIntentEffect
<1> HIDE DEF e
<1>4. all = [i \in 1 .. Len(its) |-> all[i]]
  BY <1>2
<1>5. Len(all) = Len(its) /\ \E S : all \in Seq(S)
  BY <1>1, <1>4, ListBuilt
<1>6. \A i \in 1 .. Len(its) : all[i] = e(i)
  BY <1>2
<1> QED
  BY <1>3, <1>5, <1>6 DEF IntentList

\* Balancing rewrites the guaranteed offer of an intent "0", which it may have
\* to append; all else stays.
LEMMA BalanceEffect ==
    ASSUME IntentList(intents), BalanceTransaction
    PROVE  IntentList(intents') /\ Continues(intents, intents')
<1> DEFINE its == IF \E i \in Positions : intents[i].segment = 0
                  THEN intents ELSE Append(intents, EmptyIntent)
<1>1. PICK i \in 1 .. Len(its), b \in Balances :
         its[i].segment = 0 /\ intents' = [its EXCEPT ![i] = WithBalance(its[i], b)]
  BY DEF BalanceTransaction
<1>2. Len(intents) \in Nat
  BY DEF IntentList
<1>3. /\ IntentList(its) /\ Len(its) \in Nat /\ Len(intents) <= Len(its)
      /\ \A j \in 1 .. Len(intents) : its[j] = intents[j]
  <2>1. CASE its = intents
    BY <1>2, <2>1
  <2>2. CASE its = Append(intents, EmptyIntent)
    <3>1. IsIntent(EmptyIntent)
      BY DEF EmptyIntent, IsIntent
    <3>2. PICK S : intents \in Seq(S)
      BY DEF IntentList
    <3> DEFINE T == S \cup {EmptyIntent}
    <3>3. intents \in Seq(T) /\ EmptyIntent \in T
      BY <3>2
    <3> HIDE DEF T, its
    <3>4. /\ its \in Seq(T) /\ Len(its) = Len(intents) + 1 /\ its[Len(its)] = EmptyIntent
          /\ \A j \in 1 .. Len(intents) : its[j] = intents[j]
      BY <2>2, <3>3, AppendProperties
    <3>5. \A j \in 1 .. Len(its) : j \in 1 .. Len(intents) \/ j = Len(its)
      BY <1>2, <3>4
    <3> QED
      BY <1>2, <3>1, <3>4, <3>5 DEF IntentList
  <2> QED
    BY <2>1, <2>2
<1> HIDE DEF its
<1>4. /\ IsIntent(WithBalance(its[i], b))
      /\ Alike(its[i], WithBalance(its[i], b))
  <2> DEFINE x == its[i]
             o == [owner |-> IF OwnOffer(x).owner = "none" /\ b > OwnOffer(x).balance
                             THEN "unshielded" ELSE OwnOffer(x).owner,
                   balance |-> b,
                   signatures |-> OwnOffer(x).signatures]
  <2>1. IsIntent(x)
    BY <1>1, <1>3 DEF IntentList
  <2>2. WithBalance(x, b) = [x EXCEPT !.guaranteed = o]
    BY DEF WithBalance
  <2>3. IsOffer(o)
    <3>1. Len(OwnOffer(x).signatures) \in 0 .. 1
      BY <2>1 DEF OwnOffer, IsIntent, IsOffer
    <3> QED
      BY <3>1 DEF IsOffer
  <2> HIDE DEF o, x
  <2>4. IsIntent([x EXCEPT !.guaranteed = o])
        /\ [x EXCEPT !.guaranteed = o].binding_commitment = x.binding_commitment
        /\ [x EXCEPT !.guaranteed = o].segment = x.segment
        /\ [x EXCEPT !.guaranteed = o].fallible = x.fallible
    BY <2>1, <2>3 DEF IsIntent
  <2>5. Bare([x EXCEPT !.guaranteed = o]).fallible = Bare(x).fallible
    <3> DEFINE z == [x EXCEPT !.guaranteed = o]
    <3>1. IsIntent(z) /\ z.fallible = x.fallible
      BY <2>4
    <3> HIDE DEF z
    <3>2. Bare(z).fallible = Strip(z.fallible) /\ Bare(x).fallible = Strip(x.fallible)
      BY <2>1, <3>1, BareParts
    <3> QED
      BY <3>1, <3>2 DEF z
  <2>6. x.segment = 0
    BY <1>1 DEF x
  <2>7. Alike(x, [x EXCEPT !.guaranteed = o])
    BY <2>4, <2>5, <2>6 DEF Alike
  <2> QED
    BY <2>2, <2>4, <2>7 DEF x
<1> DEFINE w == WithBalance(its[i], b)
<1>5. /\ Len(intents') = Len(its) /\ \E S : intents' \in Seq(S)
      /\ \A j \in 1 .. Len(its) : intents'[j] = IF j = i THEN w ELSE its[j]
  <2>1. PICK S : its \in Seq(S)
    BY <1>3 DEF IntentList
  <2> DEFINE T == S \cup {w}
  <2>2. its \in Seq(T) /\ w \in T
    BY <2>1
  <2> HIDE DEF T, w
  <2>3. intents' = [its EXCEPT ![i] = w]
    BY <1>1 DEF w
  <2>4. intents' \in Seq(T) /\ Len(intents') = Len(its)
        /\ \A j \in 1 .. Len(its) : intents'[j] = IF j = i THEN w ELSE its[j]
    BY <1>1, <2>2, <2>3, ExceptSeq
  <2> QED
    BY <2>4
<1>6. IntentList(intents')
  BY <1>3, <1>4, <1>5 DEF IntentList
<1>7. ASSUME NEW j \in DOMAIN intents
      PROVE  j \in DOMAIN intents' /\ Alike(intents[j], intents'[j])
  <2>1. j \in 1 .. Len(intents) /\ DOMAIN intents' = 1 .. Len(its)
    BY <1>5 DEF IntentList
  <2>2. j \in 1 .. Len(its) /\ its[j] = intents[j]
    BY <1>2, <1>3, <2>1
  <2>3. Alike(its[j], its[j])
    BY AlikeBare
  <2> QED
    BY <1>4, <1>5, <2>1, <2>2, <2>3 DEF w
<1> HIDE DEF w
<1> QED
  BY <1>2, <1>3, <1>5, <1>6, <1>7 DEF Continues

-----------------------------------------------------------------------------
(* Steps *)

LEMMA InitSigning == Init => SigningInv
<1> SUFFICES ASSUME Init PROVE SigningInv
  OBVIOUS
<1>1. PICK d \in Dicts : /\ intents = d.intents /\ randomness = d.randomness /\ fee = d.fee
                         /\ requires_unshielded_signature = d.signed
  BY DEF Init
<1>2. /\ d.intents \in Seq({d.intents[i] : i \in DOMAIN d.intents})
      /\ \A i \in DOMAIN d.intents : IsIntent(d.intents[i])
      /\ d.randomness \in Nat /\ d.fee \in Nat /\ d.signed \in BOOLEAN /\ MaxAttempts \in Nat
  BY SigningAssumption
<1>3. DOMAIN d.intents = 1 .. Len(d.intents)
  BY <1>2
<1>4. IntentList(intents)
  BY <1>1, <1>2, <1>3 DEF IntentList
<1>5. attempts = 0 /\ sent = <<>> /\ sent \in Seq({}) /\ Len(sent) = 0 /\ DOMAIN sent = {}
  BY DEF Init
<1> QED
  BY <1>1, <1>2, <1>4, <1>5 DEF SigningInv, ResentAlike

\* A submission: what is sent has been signed throughout, and continues what
\* was sent before.
LEMMA SubmitSigning ==
    ASSUME SigningInv, Submit
    PROVE  SigningInv'
<1> DEFINE bound == Bound(attempts')
           entry == [intents |-> intents', attempt |-> attempts', unsigned |-> Unsigned(bound)]
<1>1. /\ attempts < MaxAttempts /\ attempts' = attempts + 1
      /\ randomness' = IF randomness = 0 THEN attempts' ELSE randomness
      /\ intents' = SignAll(bound)
      /\ sent' = IF Serializable(bound) THEN Append(sent, entry) ELSE sent
      /\ UNCHANGED <<fee, requires_unshielded_signature>>
  BY DEF Submit
<1>2. MaxAttempts \in Nat /\ attempts \in 0 .. MaxAttempts /\ IntentList(intents)
      /\ randomness \in Nat
  BY SigningAssumption DEF SigningInv
<1>3. /\ IntentList(bound) /\ Len(bound) = Len(intents)
      /\ randomness # 0 => bound = intents
  BY <1>2, BoundEffect
<1>4. entry.intents = intents' /\ entry.unsigned = Unsigned(bound)
  OBVIOUS
<1> HIDE DEF bound, entry
<1>5. /\ IntentList(intents') /\ Len(intents') = Len(bound)
      /\ \A i \in 1 .. Len(bound) :
            /\ Alike(bound[i], intents'[i])
            /\ i \in SignedPositions(bound) =>
                  WellSigned(intents'[i]) /\ (Unsigned(bound) => Recomputable(intents'[i]))
  BY <1>1, <1>3, SignAllEffect
<1>6. /\ attempts' \in 0 .. MaxAttempts /\ randomness' \in Nat
      /\ randomness' # 0 /\ fee' \in Nat /\ requires_unshielded_signature' \in BOOLEAN
  BY <1>1, <1>2 DEF SigningInv
<1>7. /\ Len(intents) \in Nat /\ DOMAIN intents = 1 .. Len(intents)
      /\ DOMAIN intents' = 1 .. Len(intents)
  BY <1>2, <1>3, <1>5 DEF IntentList
<1>8. PICK S : sent \in Seq(S)
  BY DEF SigningInv
<1>9. ASSUME NEW n \in DOMAIN sent PROVE Continues(sent[n].intents, intents')
  <2>1. sent # <<>>
    BY <1>8
  <2>2. bound = intents
    BY <1>3, <2>1 DEF SigningInv
  <2>3. Continues(sent[n].intents, intents)
    BY DEF SigningInv
  <2>4. Continues(intents, intents')
    BY <1>3, <1>5, <1>7, <2>2 DEF Continues
  <2> QED
    BY <2>3, <2>4, ContinuesCarries
<1>10. CASE ~Serializable(bound)
  <2>1. sent' = sent /\ Len(sent') <= attempts'
    BY <1>1, <1>2, <1>8, <1>10 DEF SigningInv
  <2> QED
    BY <1>1, <1>5, <1>6, <1>8, <1>9, <2>1 DEF SigningInv, ResentAlike
<1>11. CASE Serializable(bound)
  <2> DEFINE T == S \cup {entry}
  <2>1. sent \in Seq(T) /\ entry \in T
    BY <1>8
  <2>2. sent' = Append(sent, entry)
    BY <1>1, <1>11
  <2> HIDE DEF T
  <2>3. /\ sent' \in Seq(T) /\ Len(sent) \in Nat /\ Len(sent') = Len(sent) + 1
        /\ sent'[Len(sent) + 1] = entry
        /\ \A n \in 1 .. Len(sent) : sent'[n] = sent[n]
    BY <2>1, <2>2, AppendProperties
  <2>4. /\ DOMAIN sent = 1 .. Len(sent) /\ DOMAIN sent' = 1 .. (Len(sent) + 1)
        /\ \A n \in DOMAIN sent' : n \in DOMAIN sent \/ n = Len(sent) + 1
    BY <2>1, <2>3
  <2>5. requires_unshielded_signature =>
          \A i \in DOMAIN intents' :
            WellSigned(intents'[i]) /\ (Unsigned(bound) => Recomputable(intents'[i]))
    <3>1. requires_unshielded_signature => SignedPositions(bound) = 1 .. Len(bound)
      BY <1>3, <1>11 DEF Serializable, Positions
    <3> QED
      BY <1>3, <1>5, <1>7, <3>1
  <2>6. ASSUME requires_unshielded_signature', NEW n \in DOMAIN sent',
               NEW i \in DOMAIN sent'[n].intents
        PROVE  /\ WellSigned(sent'[n].intents[i])
               /\ sent'[n].unsigned => Recomputable(sent'[n].intents[i])
    <3>1. CASE n \in DOMAIN sent
      <4>1. sent'[n] = sent[n] /\ requires_unshielded_signature
        BY <1>1, <2>3, <2>4, <2>6, <3>1
      <4> QED
        BY <2>6, <3>1, <4>1 DEF SigningInv
    <3>2. CASE n = Len(sent) + 1
      <4>1. sent'[n] = entry /\ requires_unshielded_signature
        BY <1>1, <2>3, <2>6, <3>2
      <4> QED
        BY <1>4, <2>5, <2>6, <4>1
    <3> QED
      BY <2>4, <3>1, <3>2
  <2>7. ASSUME NEW n \in DOMAIN sent' PROVE Continues(sent'[n].intents, intents')
    <3>1. CASE n \in DOMAIN sent
      BY <1>9, <2>3, <2>4, <3>1
    <3>2. CASE n = Len(sent) + 1
      <4>1. sent'[n].intents = intents'
        BY <1>4, <2>3, <3>2
      <4>2. \A i \in DOMAIN intents' : Alike(intents'[i], intents'[i])
        BY AlikeBare
      <4>3. Len(intents') <= Len(intents')
        BY <1>3, <1>5, <1>7
      <4> QED
        BY <4>1, <4>2, <4>3 DEF Continues
    <3> QED
      BY <2>4, <3>1, <3>2
  <2>8. ASSUME NEW m \in DOMAIN sent', NEW n \in DOMAIN sent', m < n
        PROVE  /\ Len(sent'[m].intents) <= Len(sent'[n].intents)
               /\ \A i \in DOMAIN sent'[m].intents :
                     Alike(sent'[m].intents[i], sent'[n].intents[i])
    <3>1. m \in DOMAIN sent /\ sent'[m] = sent[m]
      BY <2>3, <2>4, <2>8
    <3>2. CASE n \in DOMAIN sent
      <4>1. sent'[n] = sent[n]
        BY <2>3, <2>4, <3>2
      <4> QED
        BY <2>8, <3>1, <3>2, <4>1 DEF SigningInv, ResentAlike
    <3>3. CASE n = Len(sent) + 1
      <4>1. sent'[n].intents = intents'
        BY <1>4, <2>3, <3>3
      <4> QED
        BY <1>9, <3>1, <4>1 DEF Continues
    <3> QED
      BY <2>4, <3>2, <3>3
  <2>9. Len(sent') <= attempts'
    BY <1>1, <1>2, <2>3 DEF SigningInv
  <2>10. ResentAlike'
    BY <2>8 DEF ResentAlike
  <2> QED
    BY <1>5, <1>6, <2>3, <2>6, <2>7, <2>9, <2>10 DEF SigningInv
<1> QED
  BY <1>10, <1>11

LEMMA NextSigning ==
    ASSUME SigningInv, [Next]_vars
    PROVE  SigningInv'
<1>1. CASE UNCHANGED vars
  BY <1>1 DEF SigningInv, IntentList, ResentAlike, vars
<1>2. CASE BalanceTransaction
  <2>1. IntentList(intents') /\ Continues(intents, intents')
    BY <1>2, BalanceEffect DEF SigningInv
  <2>2. UNCHANGED <<randomness, fee, requires_unshielded_signature, attempts, sent>>
    BY <1>2 DEF BalanceTransaction
  <2>3. ASSUME NEW n \in DOMAIN sent PROVE Continues(sent[n].intents, intents')
    <3>1. Continues(sent[n].intents, intents)
      BY DEF SigningInv
    <3> QED
      BY <2>1, <3>1, ContinuesCarries
  <2> QED
    BY <2>1, <2>2, <2>3 DEF SigningInv, ResentAlike
<1> QED
  BY <1>1, <1>2, SubmitSigning DEF Next

\* The inductive invariant holds of every dict (_serialize_transaction and
\* balance_transaction).
THEOREM SigningInvariant == Spec => []SigningInv
<1> QED
  BY InitSigning, NextSigning, PTL DEF Spec

-----------------------------------------------------------------------------
(* Results *)

\* The dict keeps its shape, with at most one signature in an offer.
THEOREM SigningTypes == Spec => []TypeOK
<1>1. SigningInv => TypeOK
  <2> SUFFICES ASSUME SigningInv PROVE TypeOK
    OBVIOUS
  <2>1. ASSUME NEW i \in Positions
        PROVE  /\ DOMAIN intents[i] = {"segment", "guaranteed", "fallible", "binding_commitment"}
               /\ \A field \in Offers(intents[i]) : Len(intents[i][field].signatures) <= 1
    <3>1. IsIntent(intents[i])
      BY DEF SigningInv, IntentList, Positions
    <3>2. ASSUME NEW field \in Offers(intents[i])
          PROVE  Len(intents[i][field].signatures) <= 1
      <4>1. IsOffer(intents[i][field])
        BY <3>1, <3>2, IntentFields DEF Offers, IsIntent
      <4>2. Len(intents[i][field].signatures) \in 0 .. 1
        BY <4>1, OfferIsOffer
      <4>3. \A n \in 0 .. 1 : n <= 1
        OBVIOUS
      <4> QED
        BY <4>2, <4>3, Zenon
    <3> QED
      BY <3>1, <3>2, IntentFields
  <2> QED
    BY <2>1 DEF TypeOK, SigningInv
<1> QED
  BY <1>1, SigningInvariant, PTL

\* Whatever was balanced, signed or broken off before, what is sent of a dict
\* that asks for signatures has one per offer, made over the intent that is
\* sent but for its signatures; and where the dict came unsigned, over what the
\* node can make again of the intent (_serialize_transaction).
THEOREM SignedAsSent == Spec => []SignaturesCoverSent
<1>1. SigningInv => SignaturesCoverSent
  BY DEF SigningInv, WellSigned, Recomputable, SignaturesCoverSent
<1> QED
  BY <1>1, SigningInvariant, PTL

\* The guaranteed offer is signed by the wallet that owns its first input: the
\* local variable `signer` is assigned anew wherever there is such an offer
\* (_serialize_transaction).
THEOREM OwnerSigns == Spec => []GuaranteedSignedByOwner
<1>1. SigningInv => GuaranteedSignedByOwner
  BY DEF SigningInv, WellSigned, GuaranteedSignedByOwner
<1> QED
  BY <1>1, SigningInvariant, PTL

\* A dict that is submitted again is the transaction it was, with its binding:
\* what changed is its signatures and the guaranteed offers of segment 0
\* (_serialize_transaction, balance_transaction).
THEOREM ResentIsAlike == Spec => []ResentAlike
<1>1. SigningInv => ResentAlike
  BY DEF SigningInv
<1> QED
  BY <1>1, SigningInvariant, PTL
=============================================================================
