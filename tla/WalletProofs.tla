----------------------------- MODULE WalletProofs -----------------------------
(***************************************************************************)
(* The wallet's own state.  Synchronisation, for any number of calls and   *)
(* coins: a session is left open only where the close was lost, and coins  *)
(* are returned only from a whole subscription, none unspent missing.  The *)
(* keystore, for any number of processes: what is loaded was saved, and is *)
(* no older than the last save that returned.  The keys: one path, one     *)
(* key.  The tree of commitments, at any depth: its root and its proofs    *)
(* are those of the complete tree.  The sponge, for messages of any        *)
(* length: what it absorbs is not lost.                                    *)
(***************************************************************************)
EXTENDS WalletSync, Keystore, KeyDerivation, ZswapState, Poseidon,
        OperatorProofs, SequenceTheorems

-----------------------------------------------------------------------------
(* Synchronisation *)

Payment == [found : SUBSET Coins, spent : SUBSET Coins]

\* The transactions pay different coins.
HistoryInv ==
    /\ history \in Seq(Payment)
    /\ \A i, j \in 1 .. Len(history) :
          i # j => history[i].found \cap history[j].found = {}

\* What the position of a call says of its session and its result.
ProgressOK(c) ==
    /\ pc[c] \in {"idle", "balance", "open"} => session[c] = "none"
    /\ pc[c] # "done" => outcome[c] = "none"
    /\ pc[c] = "close" => pending[c] # "none"
    /\ pc[c] = "done" /\ session[c] = "open" =>
          pending[c] # "none" /\ outcome[c] \in {"close error", "cancelled"}
    /\ outcome[c] = "ok" => pending[c] = "ok" /\ session[c] = "closed"

\* The coins a call has collected are those of the events it has read.
CollectedOK(c) ==
    /\ read[c] \in 0 .. Len(history)
    /\ coins[c] \in Seq(Coins)
    /\ ToSet(coins[c]) = UNION {history[i].found : i \in 1 .. read[c]}
    /\ IsInjective(coins[c])

Shape ==
    /\ DOMAIN pc = Calls
    /\ DOMAIN session = Calls
    /\ DOMAIN read = Calls
    /\ DOMAIN coins = Calls
    /\ DOMAIN pending = Calls
    /\ DOMAIN outcome = Calls

SyncInv ==
    /\ Shape
    /\ HistoryInv
    /\ \A c \in Calls : ProgressOK(c) /\ CollectedOK(c)

-----------------------------------------------------------------------------
\* A finite set listed once: SetToSeq.
LEMMA ListedOnce ==
    ASSUME NEW S, IsFiniteSet(S)
    PROVE  /\ SetToSeq(S) \in Seq(S)
           /\ IsInjective(SetToSeq(S))
           /\ ToSet(SetToSeq(S)) = S
<1> DEFINE n == Cardinality(S)
           f == SetToSeq(S)
<1>1. n \in Nat /\ ExistsBijection(1 .. n, S)
  BY FS_CardinalityType
<1>2. PICK g \in [1 .. n -> S] : IsInjective(g)
  BY <1>1 DEF ExistsBijection, Bijection, Injection
<1>3. f \in [1 .. n -> S] /\ IsInjective(f)
  BY <1>2 DEF SetToSeq
<1> HIDE DEF f
<1>4. f \in Surjection(1 .. n, S)
  <2>1. f \in Injection(1 .. n, S)
    BY <1>3 DEF Injection
  <2>2. Cardinality(1 .. n) = n
    BY <1>1, FS_Interval
  <2> QED
    BY <2>1, <2>2, FS_Injection
<1>5. f \in Seq(S)
  BY <1>1, <1>3, IsASeq
<1>6. ToSet(f) = S
  BY <1>3, <1>4 DEF ToSet, Surjection
<1> QED
  BY <1>3, <1>5, <1>6 DEF f

\* Two lists without repetitions and without a common element make one.
LEMMA InjectiveConcat ==
    ASSUME NEW S, NEW s \in Seq(S), NEW r \in Seq(S), IsInjective(s), IsInjective(r),
           ToSet(s) \cap ToSet(r) = {}
    PROVE  IsInjective(s \o r) /\ ToSet(s \o r) = ToSet(s) \cup ToSet(r)
<1> DEFINE m == Len(s)
           n == Len(r)
           q == s \o r
<1>1. /\ m \in Nat /\ n \in Nat /\ DOMAIN s = 1 .. m /\ DOMAIN r = 1 .. n
      /\ q \in Seq(S) /\ Len(q) = m + n /\ DOMAIN q = 1 .. (m + n)
  BY ConcatProperties
<1>2. \A i \in 1 .. (m + n) : q[i] = IF i <= m THEN s[i] ELSE r[i - m]
  OBVIOUS
<1> HIDE DEF q, m, n
<1>3. ASSUME NEW i \in 1 .. (m + n)
      PROVE  \/ i \in 1 .. m /\ q[i] = s[i]
             \/ i - m \in 1 .. n /\ q[i] = r[i - m]
  BY <1>1, <1>2
<1>4. ASSUME NEW i \in 1 .. (m + n), NEW j \in 1 .. (m + n), q[i] = q[j]
      PROVE  i = j
  <2>1. \A a \in 1 .. m, b \in 1 .. n : s[a] # r[b]
    BY <1>1 DEF ToSet
  <2>2. CASE i \in 1 .. m /\ q[i] = s[i] /\ j \in 1 .. m /\ q[j] = s[j]
    BY <1>1, <1>4, <2>2 DEF IsInjective
  <2>3. CASE i - m \in 1 .. n /\ q[i] = r[i - m] /\ j - m \in 1 .. n /\ q[j] = r[j - m]
    <3>1. i - m = j - m
      BY <1>1, <1>4, <2>3 DEF IsInjective
    <3> QED
      BY <1>1, <3>1
  <2> QED
    BY <1>3, <1>4, <2>1, <2>2, <2>3
<1>5. IsInjective(q)
  BY <1>1, <1>4 DEF IsInjective
<1>6. ToSet(q) \subseteq ToSet(s) \cup ToSet(r)
  BY <1>1, <1>3 DEF ToSet
<1>7. ToSet(s) \cup ToSet(r) \subseteq ToSet(q)
  <2>1. \A i \in 1 .. m : i \in 1 .. (m + n) /\ q[i] = s[i]
    BY <1>1, <1>2
  <2>2. \A i \in 1 .. n : /\ i + m \in 1 .. (m + n) /\ ~(i + m <= m)
                          /\ (i + m) - m = i
    BY <1>1
  <2>3. \A i \in 1 .. n : q[i + m] = r[i]
    <3> TAKE i \in 1 .. n
    <3>1. q[i + m] = r[(i + m) - m]
      BY <1>2, <2>2
    <3> QED
      BY <2>2, <3>1
  <2> QED
    <3>1. \A i \in 1 .. n : \E j \in 1 .. (m + n) : q[j] = r[i]
      BY <2>2, <2>3
    <3> QED
      BY <1>1, <2>1, <3>1 DEF ToSet
<1> QED
  BY <1>5, <1>6, <1>7 DEF q

-----------------------------------------------------------------------------
\* A step of one call that reads no event.
LEMMA OtherStep ==
    ASSUME SyncInv, NEW c \in Calls, Shape', ProgressOK(c)',
           \A d \in Calls \ {c} : /\ pc'[d] = pc[d] /\ session'[d] = session[d]
                                  /\ pending'[d] = pending[d] /\ outcome'[d] = outcome[d],
           UNCHANGED <<read, coins, history>>
    PROVE  SyncInv'
<1>1. \A d \in Calls : ProgressOK(d)'
  BY DEF SyncInv, ProgressOK
<1>2. HistoryInv' /\ \A d \in Calls : CollectedOK(d)'
  BY DEF SyncInv, HistoryInv, CollectedOK
<1> QED
  BY <1>1, <1>2 DEF SyncInv

\* An event adds the coins it found to those of the events before it.
LEMMA EventStep ==
    ASSUME SyncAssumption, SyncInv, NEW c \in Calls, EventReceived(c)
    PROVE  SyncInv'
<1> DEFINE k == read[c]
           found == history[k + 1].found
           more == SetToSeq(found)
<1>1. /\ k \in 0 .. Len(history) /\ k < Len(history) /\ Len(history) \in Nat
      /\ coins[c] \in Seq(Coins) /\ IsInjective(coins[c])
      /\ ToSet(coins[c]) = UNION {history[i].found : i \in 1 .. k}
      /\ read' = [read EXCEPT ![c] = k + 1]
      /\ coins' = [coins EXCEPT ![c] = coins[c] \o more]
      /\ UNCHANGED <<pc, pending, session, outcome, history>>
  BY DEF SyncInv, CollectedOK, HistoryInv, EventReceived
<1>2. k + 1 \in 1 .. Len(history) /\ k + 1 \in 0 .. Len(history)
  BY <1>1
<1>3. found \subseteq Coins
  <2>1. history[k + 1] \in Payment
    BY <1>2, ElementOfSeq DEF SyncInv, HistoryInv
  <2> QED
    BY <2>1 DEF Payment
<1>4. IsFiniteSet(found)
  BY <1>3, FS_Subset DEF SyncAssumption
<1> HIDE DEF found
<1>5. more \in Seq(found) /\ IsInjective(more) /\ ToSet(more) = found
  BY <1>4, ListedOnce
<1> HIDE DEF more
<1>6. more \in Seq(Coins)
  BY <1>3, <1>5, SeqMonotonic
<1>7. ToSet(coins[c]) \cap ToSet(more) = {}
  <2>1. \A i \in 1 .. k : i \in 1 .. Len(history) /\ i # k + 1
    BY <1>1
  <2>2. \A i \in 1 .. k : history[i].found \cap found = {}
    BY <1>2, <2>1 DEF SyncInv, HistoryInv, found
  <2> QED
    BY <1>1, <1>5, <2>2
<1>8. /\ IsInjective(coins[c] \o more)
      /\ ToSet(coins[c] \o more) = ToSet(coins[c]) \cup found
      /\ coins[c] \o more \in Seq(Coins)
  <2>1. IsInjective(coins[c]) /\ IsInjective(more) /\ coins[c] \in Seq(Coins)
    BY <1>1, <1>5
  <2>2. /\ IsInjective(coins[c] \o more)
        /\ ToSet(coins[c] \o more) = ToSet(coins[c]) \cup ToSet(more)
    BY <1>6, <1>7, <2>1, InjectiveConcat
  <2>3. coins[c] \o more \in Seq(Coins)
    BY <1>6, <2>1, ConcatProperties
  <2> QED
    BY <1>5, <2>2, <2>3
<1>9. UNION {history[i].found : i \in 1 .. (k + 1)} = ToSet(coins[c]) \cup found
  <2>1. \A i : i \in 1 .. (k + 1) <=> i \in 1 .. k \/ i = k + 1
    BY <1>1
  <2> QED
    BY <1>1, <2>1 DEF found
<1> HIDE DEF k
<1>10. read'[c] = k + 1 /\ coins'[c] = coins[c] \o more
  BY <1>1 DEF SyncInv, Shape
<1>11. CollectedOK(c)'
  BY <1>1, <1>2, <1>8, <1>9, <1>10 DEF CollectedOK
<1>12. \A d \in Calls \ {c} : CollectedOK(d)'
  BY <1>1 DEF SyncInv, CollectedOK
<1>13. Shape' /\ HistoryInv' /\ \A d \in Calls : ProgressOK(d)'
  BY <1>1 DEF SyncInv, Shape, HistoryInv, ProgressOK
<1> QED
  BY <1>11, <1>12, <1>13 DEF SyncInv

\* A transaction of the wallet pays coins that none before it has paid.
LEMMA TransactionStep ==
    ASSUME SyncInv, NewTransaction
    PROVE  SyncInv'
<1> DEFINE n == Len(history)
<1>1. PICK found \in SUBSET (Coins \ Known), spent \in SUBSET (Known \ Spent) :
          history' = Append(history, [found |-> found, spent |-> spent])
  BY DEF NewTransaction
<1>2. /\ history \in Seq(Payment) /\ n \in Nat
      /\ UNCHANGED <<pc, attempt, read, coins, pending, session, outcome>>
  BY DEF SyncInv, HistoryInv, NewTransaction, locals
<1>3. DOMAIN history = 1 .. n
  BY <1>2
<1>4. Known \subseteq Coins
  <2>1. \A i \in 1 .. n : history[i] \in Payment
    BY <1>2, ElementOfSeq
  <2>2. \A i \in 1 .. n : history[i].found \subseteq Coins
    BY <2>1 DEF Payment
  <2> QED
    BY <1>3, <2>2 DEF Known
<1>5. [found |-> found, spent |-> spent] \in Payment
  BY <1>4 DEF Payment
<1>6. /\ history' \in Seq(Payment)
      /\ Len(history') = n + 1
      /\ history'[n + 1].found = found
      /\ \A i \in 1 .. n : history'[i] = history[i]
  BY <1>1, <1>2, <1>5
<1>7. \A i \in 1 .. n : history[i].found \cap found = {}
  BY <1>3 DEF Known
<1>8. \A i \in 1 .. (n + 1) : i \in 1 .. n \/ i = n + 1
  BY <1>2
<1>9. HistoryInv'
  <2> SUFFICES ASSUME NEW i \in 1 .. (n + 1), NEW j \in 1 .. (n + 1), i # j
               PROVE  history'[i].found \cap history'[j].found = {}
    BY <1>6 DEF HistoryInv
  <2>1. CASE i \in 1 .. n /\ j \in 1 .. n
    BY <1>6, <2>1 DEF SyncInv, HistoryInv
  <2>2. CASE i \in 1 .. n /\ j = n + 1
    BY <1>6, <1>7, <2>2
  <2>3. CASE i = n + 1 /\ j \in 1 .. n
    BY <1>6, <1>7, <2>3
  <2> QED
    BY <1>8, <2>1, <2>2, <2>3
<1>10. ASSUME NEW c \in Calls PROVE CollectedOK(c)'
  <2>1. read[c] \in 0 .. n /\ read[c] \in 0 .. (n + 1)
    BY <1>2 DEF SyncInv, CollectedOK
  <2>2. \A i \in 1 .. read[c] : history'[i] = history[i]
    BY <1>6, <2>1
  <2> QED
    BY <1>2, <1>6, <2>1, <2>2 DEF SyncInv, CollectedOK
<1>11. Shape' /\ \A c \in Calls : ProgressOK(c)'
  BY <1>2 DEF SyncInv, Shape, ProgressOK
<1> QED
  BY <1>9, <1>10, <1>11 DEF SyncInv

\* So does every step of a call.
LEMMA CallStepInv ==
    ASSUME SyncAssumption, SyncInv, NEW c \in Calls, CallStep(c)
    PROVE  SyncInv'
<1>1. /\ Shape /\ ProgressOK(c)
      /\ "none" \notin Errors /\ "ok" \notin Errors
  BY DEF SyncInv, Errors
<1> DEFINE OnlyCall ==
        /\ Shape'
        /\ \A d \in Calls \ {c} : /\ pc'[d] = pc[d] /\ session'[d] = session[d]
                                  /\ pending'[d] = pending[d] /\ outcome'[d] = outcome[d]
        /\ UNCHANGED <<read, coins, history>>
<1>2. CASE SyncAll(c) \/ SyncShielded(c) \/ BalanceAnswered(c)
  <2>1. ProgressOK(c)' /\ OnlyCall
    BY <1>1, <1>2 DEF Shape, ProgressOK, SyncAll, SyncShielded, BalanceAnswered, Goto, locals
  <2> QED
    BY <2>1, OtherStep
<1>3. CASE BalanceFails(c) \/ Cancelled(c)
  <2>1. ProgressOK(c)' /\ OnlyCall
    BY <1>1, <1>3 DEF Shape, ProgressOK, BalanceFails, Cancelled, End, Goto, locals
  <2> QED
    BY <2>1, OtherStep
<1>4. CASE SessionOpened(c)
  <2>1. ProgressOK(c)' /\ OnlyCall
    BY <1>1, <1>4 DEF Shape, ProgressOK, SessionOpened, Goto, locals
  <2> QED
    BY <2>1, OtherStep
<1>5. ASSUME NEW why \in {"open error", "cancelled"}, OpenFails(c, why) PROVE SyncInv'
  <2>1. ProgressOK(c)' /\ OnlyCall
    BY <1>1, <1>5 DEF Shape, ProgressOK, OpenFails, End, Goto, locals
  <2> QED
    BY <2>1, OtherStep
<1>6. ASSUME NEW how \in {"ok", "stream error", "cancelled"}, StreamEnds(c, how)
      PROVE  SyncInv'
  <2>1. ProgressOK(c)' /\ OnlyCall
    BY <1>1, <1>6 DEF Shape, ProgressOK, StreamEnds, Goto
  <2> QED
    BY <2>1, OtherStep
<1>7. CASE SessionClosed(c)
  <2>1. ProgressOK(c)' /\ OnlyCall
    BY <1>1, <1>7 DEF Shape, ProgressOK, SessionClosed, End, Goto, locals
  <2> QED
    BY <2>1, OtherStep
<1>8. ASSUME NEW why \in {"close error", "cancelled"}, CloseFails(c, why) PROVE SyncInv'
  <2>1. ProgressOK(c)' /\ OnlyCall
    BY <1>1, <1>8 DEF Shape, ProgressOK, CloseFails, End, Goto, locals
  <2> QED
    BY <2>1, OtherStep
<1> QED
  BY <1>2, <1>3, <1>4, <1>5, <1>6, <1>7, <1>8, EventStep DEF CallStep

LEMMA InitSync == Init => SyncInv
<1> SUFFICES ASSUME Init PROVE SyncInv
  OBVIOUS
<1>1. Shape
  BY DEF Init, Shape
<1>2. history = <<>> /\ \A i : i \notin 1 .. Len(history)
  BY DEF Init
<1>3. HistoryInv
  BY <1>2 DEF HistoryInv
<1>4. \A c \in Calls : ProgressOK(c)
  BY DEF Init, ProgressOK
<1>5. ASSUME NEW c \in Calls PROVE CollectedOK(c)
  <2>1. read[c] = 0 /\ coins[c] = <<>>
    BY DEF Init
  <2>2. ToSet(<<>>) = {} /\ IsInjective(<<>>) /\ \A i : i \notin 1 .. 0
    BY DEF ToSet, IsInjective
  <2> QED
    BY <1>2, <2>1, <2>2 DEF CollectedOK
<1> QED
  BY <1>1, <1>3, <1>4, <1>5 DEF SyncInv

LEMMA NextSync == SyncAssumption /\ SyncInv /\ [Next]_vars => SyncInv'
<1> SUFFICES ASSUME SyncAssumption, SyncInv, [Next]_vars PROVE SyncInv'
  OBVIOUS
<1>1. CASE UNCHANGED vars
  BY <1>1, ZenonT(30) DEF SyncInv, Shape, HistoryInv, ProgressOK, CollectedOK, vars, locals
<1> QED
  BY <1>1, CallStepInv, TransactionStep DEF Next

\* The inductive invariant: a session is where its call is, and what a call
\* has collected is what the events it has read have found.
THEOREM SyncInvariant == Spec => []SyncInv
<1>1. SyncInv /\ [Next]_vars => SyncInv'
  BY SyncAssumption, NextSync
<1> QED
  BY <1>1, InitSync, PTL DEF Spec

\* However its stream ended, a call that ends with its session open had reached
\* the close, and lost the indexer there or was cancelled there (the finally of
\* sync_shielded).
THEOREM NoSessionLeaks == Spec => []SessionsClosed
<1>1. SyncInv => SessionsClosed
  BY DEF SyncInv, ProgressOK, SessionsClosed
<1> QED
  BY <1>1, SyncInvariant, PTL

\* Coins come only from a subscription that completed, with the session closed:
\* no unspent one that it found up to then is missing, and each is there once
\* (sync_coins, sync_shielded).
THEOREM CoinsAreComplete == Spec => []CoinsComplete
<1>1. SyncInv => CoinsComplete
  BY DEF SyncInv, ProgressOK, CollectedOK, CoinsComplete, FoundBy
<1> QED
  BY <1>1, SyncInvariant, PTL

-----------------------------------------------------------------------------
(* The keystore *)

\* What was encrypted, and under which password.
Entry == [secret : Secrets, password : Passwords]

Opened(p) == saving[p] = "opened"

\* What there is to say of the file: its second unit tells who wrote last, the
\* save that returned last or one that was cut since; a save that has met no
\* other writes into an empty file, and leaves its text there.
StoreInv ==
    /\ made \in Seq(Entry)
    /\ DOMAIN saving = Processes /\ DOMAIN keystore = Processes
    /\ \A p \in Processes : Opened(p) => keystore[p] \in 1 .. Len(made)
    /\ \E S : file \in Seq(S)
    /\ Len(file) >= 2 /\ file[2][1] = "ciphertext" => file[2][2] \in {latest} \cup cut
    /\ \A p \in Processes :
        alone /\ Opened(p) => file = <<>> /\ \A q \in Processes : Opened(q) => q = p
    /\ settled => /\ \A p \in Processes : ~Opened(p)
                  /\ latest \in 1 .. Len(made)
                  /\ file = Text(latest)
    /\ LoadedIsGenuine

\* A text and what it is made of.
LEMMA TextUnits ==
    ASSUME NEW n \in 1 .. Len(made), made \in Seq(Entry)
    PROVE  LET s == made[n].secret
               t == Text(n)
           IN  /\ s \in Nat \ {0}
               /\ \E S : t \in Seq(S) /\ Torn \in S
               /\ Len(t) = s + 4
               /\ t[1] = Opening /\ t[s + 2] = Nonce(n) /\ t[s + 3] = Salt(n) /\ t[s + 4] = Closing
               /\ \A i \in 2 .. s + 1 : t[i] = <<"ciphertext", n, i - 1>>
<1> DEFINE s == made[n].secret
           t == Text(n)
           c == Ciphertext(n)
           a == <<Opening>>
           z == <<Nonce(n), Salt(n), Closing>>
           S == {c[i] : i \in 1 .. s} \cup {Opening, Nonce(n), Salt(n), Closing, Torn}
<1>1. s \in Nat \ {0}
  <2>1. made[n] \in Entry
    BY ElementOfSeq
  <2> QED
    BY <2>1, KeystoreAssumption DEF Entry
<1>2. c \in Seq(S) /\ Len(c) = s /\ \A i \in 1 .. s : c[i] = <<"ciphertext", n, i>>
  <2>1. c = [i \in 1 .. s |-> <<"ciphertext", n, i>>]
    BY DEF Ciphertext
  <2> HIDE DEF c
  <2>2. c \in [1 .. s -> S]
    BY <2>1
  <2> HIDE DEF s, S
  <2>3. c \in Seq(S)
    BY <1>1, <2>2
  <2> QED
    BY <1>1, <2>1, <2>3
<1>3. /\ a \in Seq(S) /\ Len(a) = 1 /\ a[1] = Opening
      /\ z \in Seq(S) /\ Len(z) = 3
      /\ z[1] = Nonce(n) /\ z[2] = Salt(n) /\ z[3] = Closing
  <2>1. Opening \in S /\ Nonce(n) \in S /\ Salt(n) \in S /\ Closing \in S
    OBVIOUS
  <2> HIDE DEF S
  <2> QED
    BY <2>1
<1>4. t = (a \o c) \o z
  BY DEF Text
<1>5. Torn \in S
  OBVIOUS
<1> HIDE DEF c, a, z, t, s, S
<1>6. /\ a \o c \in Seq(S) /\ Len(a \o c) = 1 + s
      /\ \A i \in 1 .. 1 + s : (a \o c)[i] = IF i <= 1 THEN a[i] ELSE c[i - 1]
  <2>1. a \in Seq(S) /\ c \in Seq(S) /\ Len(a) = 1 /\ Len(c) = s
    BY <1>2, <1>3
  <2>2. /\ a \o c \in Seq(S) /\ Len(a \o c) = Len(a) + Len(c)
        /\ \A i \in 1 .. Len(a) + Len(c) :
              (a \o c)[i] = IF i <= Len(a) THEN a[i] ELSE c[i - Len(a)]
    BY <2>1, ConcatProperties
  <2> QED
    BY <2>1, <2>2
<1> DEFINE q == a \o c
<1>7. /\ t \in Seq(S) /\ Len(t) = (1 + s) + 3
      /\ \A i \in 1 .. (1 + s) + 3 :
            t[i] = IF i <= 1 + s THEN (a \o c)[i] ELSE z[i - (1 + s)]
  <2>1. q \in Seq(S) /\ z \in Seq(S) /\ Len(q) = 1 + s /\ Len(z) = 3 /\ t = q \o z
    BY <1>3, <1>4, <1>6
  <2> HIDE DEF q
  <2>2. /\ q \o z \in Seq(S) /\ Len(q \o z) = Len(q) + Len(z)
        /\ \A i \in 1 .. Len(q) + Len(z) :
              (q \o z)[i] = IF i <= Len(q) THEN q[i] ELSE z[i - Len(q)]
    BY <2>1, ConcatProperties
  <2>3. /\ t \in Seq(S) /\ Len(t) = (1 + s) + 3
        /\ \A i \in 1 .. (1 + s) + 3 :
              t[i] = IF i <= 1 + s THEN q[i] ELSE z[i - (1 + s)]
    BY <2>1, <2>2
  <2> QED
    BY <2>3 DEF q
<1> HIDE DEF q
<1>8. t[1] = Opening
  <2>1. 1 \in 1 .. (1 + s) + 3 /\ 1 <= 1 + s /\ 1 \in 1 .. 1 + s /\ 1 <= 1
    BY <1>1
  <2>2. t[1] = (a \o c)[1]
    BY <1>7, <2>1
  <2>3. (a \o c)[1] = a[1]
    BY <1>6, <2>1
  <2> QED
    BY <1>3, <2>2, <2>3
<1>9. ASSUME NEW i \in 2 .. s + 1 PROVE t[i] = <<"ciphertext", n, i - 1>>
  <2>1. i \in 1 .. 1 + s /\ i \in 1 .. (1 + s) + 3 /\ ~(i <= 1) /\ i - 1 \in 1 .. s
    BY <1>1
  <2> QED
    BY <1>2, <1>6, <1>7, <2>1
<1>10. t[s + 2] = z[1] /\ t[s + 3] = z[2] /\ t[s + 4] = z[3]
  <2>1. /\ s + 2 \in 1 .. (1 + s) + 3 /\ ~(s + 2 <= 1 + s) /\ (s + 2) - (1 + s) = 1
        /\ s + 3 \in 1 .. (1 + s) + 3 /\ ~(s + 3 <= 1 + s) /\ (s + 3) - (1 + s) = 2
        /\ s + 4 \in 1 .. (1 + s) + 3 /\ ~(s + 4 <= 1 + s) /\ (s + 4) - (1 + s) = 3
    BY <1>1
  <2> QED
    BY <1>7, <2>1
<1>11. Len(t) = s + 4
  BY <1>1, <1>7
<1> QED
  BY <1>1, <1>3, <1>5, <1>7, <1>8, <1>9, <1>10, <1>11 DEF t, s

\* Writing over the file changes it up to the end of what is written.
LEMMA OverUnits ==
    ASSUME NEW S, NEW t \in Seq(S), \E T : file \in Seq(T)
    PROVE  /\ \E T : Over(t) \in Seq(T)
           /\ Len(Over(t)) >= Len(t) /\ Len(Over(t)) >= Len(file)
           /\ Len(Over(t)) = Len(t) \/ Len(Over(t)) = Len(file)
           /\ \A i \in 1 .. Len(t) : Over(t)[i] = t[i]
           /\ \A i \in 1 .. Len(Over(t)) : i > Len(t) => Over(t)[i] = file[i]
           /\ file = <<>> => Over(t) = t
<1> DEFINE k == Len(t)
           m == Len(file)
           r == SubSeq(file, k + 1, m)
<1>1. PICK T : file \in Seq(T)
  OBVIOUS
<1> DEFINE U == S \cup T
<1>2. t \in Seq(U) /\ file \in Seq(U) /\ k \in Nat /\ m \in Nat
  BY <1>1
<1> HIDE DEF U
<1>3. /\ r \in Seq(U)
      /\ Len(r) = IF k + 1 <= m THEN m - k ELSE 0
      /\ \A i \in 1 .. m - k : r[i] = file[k + i]
  BY <1>2
<1>4. Over(t) = t \o r
  BY DEF Over
<1> HIDE DEF r, k, m
<1>5. /\ Over(t) \in Seq(U) /\ Len(Over(t)) = k + Len(r)
      /\ \A i \in 1 .. k + Len(r) : Over(t)[i] = IF i <= k THEN t[i] ELSE r[i - k]
  BY <1>2, <1>3, <1>4, ConcatProperties DEF k
<1>6. \A i \in 1 .. k : Over(t)[i] = t[i]
  BY <1>2, <1>3, <1>5
<1>7. ASSUME NEW i \in 1 .. Len(Over(t)), i > k PROVE Over(t)[i] = file[i]
  <2>1. i - k \in 1 .. m - k /\ k + (i - k) = i /\ ~(i <= k) /\ i \in 1 .. k + Len(r)
    BY <1>2, <1>3, <1>5, <1>7
  <2> QED
    BY <1>3, <1>5, <2>1
<1>8. Len(Over(t)) >= k /\ Len(Over(t)) >= m /\ (Len(Over(t)) = k \/ Len(Over(t)) = m)
  BY <1>2, <1>3, <1>5
<1>9. ASSUME file = <<>> PROVE Over(t) = t
  <2>1. m = 0
    BY <1>9 DEF m
  <2>2. Len(Over(t)) = k /\ \A i \in 1 .. k : Over(t)[i] = t[i]
    BY <1>2, <1>3, <1>5, <1>6, <2>1
  <2> QED
    BY <1>2, <1>5, <2>2, SeqEqual DEF k
<1> QED
  BY <1>5, <1>6, <1>7, <1>8, <1>9 DEF k, m

\* What load and decrypt return is an entry whose first unit of ciphertext is
\* the second unit of the file.
LEMMA ReadsWriter ==
    ASSUME made \in Seq(Entry), NEW password, Read(password)[1] = "data"
    PROVE  \E n \in DOMAIN made :
              /\ Read(password) = <<"data", made[n].secret>> /\ made[n].password = password
              /\ Len(file) >= 2 /\ file[2] = <<"ciphertext", n, 1>>
<1> DEFINE m == Len(file)
<1>1. file # NoFile /\ Parses /\ Read(password) = Decrypt(password)
  BY DEF Read
<1>2. PICK n \in Authentic(password) : Read(password) = <<"data", made[n].secret>>
  <2>1. Authentic(password) # {}
    <3> SUFFICES ASSUME Authentic(password) = {} PROVE FALSE
      OBVIOUS
    <3>1. Read(password) = <<"InvalidTag">>
      BY <1>1 DEF Decrypt
    <3> QED
      BY <3>1
  <2>2. Read(password)
          = <<"data", made[CHOOSE n \in Authentic(password) : TRUE].secret>>
    BY <1>1, <2>1 DEF Decrypt
  <2> QED
    BY <2>1, <2>2
<1>3. /\ n \in DOMAIN made
      /\ Key(password, file[m - 1]) = Key(made[n].password, Salt(n))
      /\ SubSeq(file, 2, m - 3) = Ciphertext(n)
  BY <1>2 DEF Authentic
<1>4. made[n].password = password
  BY <1>3 DEF Key
<1>5. Len(file) >= 5
  BY <1>1 DEF Parses
<1>6. file[2] = <<"ciphertext", n, 1>>
  <2>1. n \in 1 .. Len(made)
    BY <1>3
  <2>2. made[n].secret \in Nat \ {0}
    BY <2>1, TextUnits
  <2>3. Ciphertext(n)[1] = <<"ciphertext", n, 1>>
    BY <2>2 DEF Ciphertext
  <2>4. SubSeq(file, 2, m - 3)[1] = file[2]
    BY <1>5
  <2> QED
    BY <1>3, <2>3, <2>4
<1> QED
  BY <1>2, <1>3, <1>4, <1>5, <1>6

\* A text in the file is read back.
LEMMA TextIsRead ==
    ASSUME made \in Seq(Entry), NEW n \in 1 .. Len(made), file = Text(n)
    PROVE  Read(made[n].password) = <<"data", made[n].secret>>
<1> DEFINE s == made[n].secret
           m == Len(file)
           w == made[n].password
<1>1. /\ s \in Nat \ {0} /\ m = s + 4
      /\ file[1] = Opening /\ file[m - 2] = Nonce(n) /\ file[m - 1] = Salt(n) /\ file[m] = Closing
      /\ \A i \in 2 .. m - 3 : file[i] = <<"ciphertext", n, i - 1>>
  <2>1. /\ s \in Nat \ {0} /\ m = s + 4
        /\ file[1] = Opening /\ file[s + 2] = Nonce(n) /\ file[s + 3] = Salt(n)
        /\ file[s + 4] = Closing
        /\ \A i \in 2 .. s + 1 : file[i] = <<"ciphertext", n, i - 1>>
    BY TextUnits
  <2>2. m - 2 = s + 2 /\ m - 1 = s + 3 /\ m - 3 = s + 1
    BY <2>1
  <2> QED
    BY <2>1, <2>2
<1>2. PICK S : file \in Seq(S)
  BY TextUnits
<1> HIDE DEF s, m
<1>3. Parses
  <2>1. \A i \in 2 .. m - 3 : file[i][1] = "ciphertext"
    BY <1>1
  <2>2. file[m - 2][1] = "nonce" /\ file[m - 1][1] = "salt" /\ m >= 5
    BY <1>1 DEF Nonce, Salt
  <2> QED
    BY <1>1, <2>1, <2>2 DEF Parses, m
<1>4. file # NoFile
  <2>1. Len(NoFile) = 1
    BY DEF NoFile
  <2>2. m # 1 /\ m = Len(file)
    BY <1>1 DEF m
  <2> QED
    BY <2>1, <2>2
<1>5. SubSeq(file, 2, m - 3) = Ciphertext(n)
  <2> DEFINE u == SubSeq(file, 2, m - 3)
             c == Ciphertext(n)
  <2>1. u = [i \in 1 .. (m - 3) - 2 + 1 |-> file[i + 2 - 1]]
    BY <1>1, <1>2
  <2>2. (m - 3) - 2 + 1 = s
    BY <1>1
  <2>3. ASSUME NEW i \in 1 .. s PROVE file[i + 2 - 1] = <<"ciphertext", n, i>>
    <3>1. i + 2 - 1 \in 2 .. m - 3 /\ (i + 2 - 1) - 1 = i
      BY <1>1
    <3> QED
      BY <1>1, <3>1
  <2>4. c = [i \in 1 .. s |-> <<"ciphertext", n, i>>]
    BY DEF Ciphertext, s
  <2> HIDE DEF u, c
  <2>5. u = c
    BY <2>1, <2>2, <2>3, <2>4
  <2> QED
    BY <2>5 DEF u, c
<1>6. n \in Authentic(w)
  <2>1. n \in DOMAIN made
    OBVIOUS
  <2> QED
    BY <1>1, <1>5, <2>1 DEF Authentic, m
<1>7. ASSUME NEW k \in Authentic(w) PROVE k = n
  <2>1. file[m - 2] = Nonce(k)
    BY <1>7 DEF Authentic, m
  <2>2. Nonce(k) = Nonce(n)
    BY <1>1, <2>1
  <2> QED
    BY <2>2 DEF Nonce
<1> DEFINE e == CHOOSE k \in Authentic(w) : TRUE
<1>8. e = n
  BY <1>6, <1>7
<1>9. Decrypt(w) = <<"data", made[e].secret>>
  BY <1>6 DEF Decrypt
<1> HIDE DEF e
<1> QED
  BY <1>3, <1>4, <1>8, <1>9 DEF Read

LEMMA InitStore == KeystoreInit => StoreInv
<1> SUFFICES ASSUME KeystoreInit PROVE StoreInv
  OBVIOUS
<1>1. made = <<>> /\ made \in Seq(Entry)
  BY DEF KeystoreInit
<1>2. file \in Seq({<<"none", 0, 0>>}) /\ Len(file) = 1
  BY DEF KeystoreInit, NoFile
<1> QED
  BY <1>1, <1>2 DEF KeystoreInit, StoreInv, Opened, LoadedIsGenuine

\* Another keystore is made; the file is truncated.
LEMMA OpensStore ==
    ASSUME StoreInv, NEW p \in Processes, SaveOpens(p)
    PROVE  StoreInv'
<1> DEFINE n == Len(made)
<1>1. PICK secret \in Secrets, password \in Passwords :
          made' = Append(made, [secret |-> secret, password |-> password])
  BY DEF SaveOpens
<1> DEFINE e == [secret |-> secret, password |-> password]
<1>2. made \in Seq(Entry) /\ e \in Entry /\ made' = Append(made, e)
  BY <1>1 DEF StoreInv, Entry
<1> HIDE DEF e
<1>3. /\ made' \in Seq(Entry) /\ n \in Nat /\ Len(made') = n + 1
      /\ \A i \in 1 .. n : made'[i] = made[i]
  BY <1>2, AppendProperties
<1>4. /\ keystore' = [keystore EXCEPT ![p] = n + 1] /\ saving' = [saving EXCEPT ![p] = "opened"]
      /\ file' = <<>>
      /\ alone' = (\A q \in Processes : saving[q] = "idle")
      /\ settled' = FALSE
      /\ UNCHANGED <<loaded, latest, cut>>
  BY <1>3 DEF SaveOpens
<1> HIDE DEF n
<1>5. \A q \in Processes : Opened(q)' => keystore'[q] \in 1 .. Len(made')
  BY <1>3, <1>4 DEF StoreInv, Opened, n
<1>6. ASSUME NEW q \in Processes, alone', Opened(q)'
      PROVE  file' = <<>> /\ \A r \in Processes : Opened(r)' => r = q
  <2>1. \A r \in Processes : Opened(r)' => r = p
    BY <1>4, <1>6 DEF StoreInv, Opened
  <2> QED
    BY <1>4, <1>6, <2>1
<1>7. LoadedIsGenuine'
  <2>1. \A i \in DOMAIN made : i \in DOMAIN made' /\ made'[i] = made[i]
    BY <1>2, <1>3 DEF n
  <2> QED
    BY <1>4, <2>1 DEF StoreInv, LoadedIsGenuine
<1>8. /\ DOMAIN saving' = Processes /\ DOMAIN keystore' = Processes
      /\ file' \in Seq({}) /\ Len(file') = 0
  BY <1>4 DEF StoreInv
<1> QED
  BY <1>3, <1>4, <1>5, <1>6, <1>7, <1>8 DEF StoreInv

\* The text is written over what is in the file.
LEMMA WritesStore ==
    ASSUME StoreInv, NEW p \in Processes, SaveWrites(p)
    PROVE  StoreInv'
<1> DEFINE n == keystore[p]
           t == Text(n)
<1>1. /\ Opened(p) /\ saving' = [saving EXCEPT ![p] = "idle"]
      /\ file' = Over(t)
      /\ latest' = n /\ cut' = {} /\ settled' = alone
      /\ UNCHANGED <<made, keystore, loaded, alone>>
  BY DEF SaveWrites, Opened
<1>2. made \in Seq(Entry) /\ n \in 1 .. Len(made)
  BY <1>1 DEF StoreInv
<1>3. /\ made[n].secret \in Nat \ {0} /\ Len(t) = made[n].secret + 4
      /\ \E S : t \in Seq(S)
      /\ \A i \in 2 .. made[n].secret + 1 : t[i] = <<"ciphertext", n, i - 1>>
  BY <1>2, TextUnits
<1>4. 2 \in 1 .. Len(t) /\ t[2] = <<"ciphertext", n, 1>>
  <2>1. 2 \in 2 .. made[n].secret + 1 /\ 2 \in 1 .. Len(t) /\ 2 - 1 = 1
    BY <1>3
  <2> QED
    BY <1>3, <2>1
<1> HIDE DEF t
<1>5. /\ \E S : file' \in Seq(S)
      /\ file'[2] = <<"ciphertext", n, 1>>
      /\ file = <<>> => file' = t
  <2>1. \E T : file \in Seq(T)
    BY DEF StoreInv
  <2> QED
    BY <1>1, <1>3, <1>4, <2>1, OverUnits
<1>6. file'[2][2] \in {latest'} \cup cut'
  BY <1>1, <1>5
<1>7. \A q \in Processes : Opened(q)' <=> q # p /\ Opened(q)
  BY <1>1 DEF StoreInv, Opened
<1>8. alone => file = <<>> /\ \A q \in Processes : ~Opened(q)'
  BY <1>1, <1>7 DEF StoreInv
<1>9. \A q \in Processes : alone' /\ Opened(q)' =>
          file' = <<>> /\ \A r \in Processes : Opened(r)' => r = q
  BY <1>1, <1>8
<1>10. t = Text(latest)'
  BY <1>1 DEF t, Text, Ciphertext
<1>11. LoadedIsGenuine'
  BY <1>1 DEF StoreInv, LoadedIsGenuine
<1>12. DOMAIN saving' = Processes /\ \A q \in Processes : Opened(q)' => keystore'[q] \in 1 .. Len(made')
  BY <1>1, <1>7 DEF StoreInv
<1>13. settled' => /\ \A q \in Processes : ~Opened(q)'
                   /\ latest' \in 1 .. Len(made') /\ file' = Text(latest)'
  BY <1>1, <1>2, <1>5, <1>8, <1>10
<1> QED
  BY <1>1, <1>2, <1>5, <1>6, <1>9, <1>11, <1>12, <1>13 DEF StoreInv

\* A save is cut, with or without some of the text written.
LEMMA CutStore ==
    ASSUME StoreInv, NEW p \in Processes, SaveCut(p)
    PROVE  StoreInv'
<1> DEFINE n == keystore[p]
           t == Text(n)
<1>1. /\ Opened(p) /\ saving' = [saving EXCEPT ![p] = "idle"]
      /\ cut' = cut \cup {n}
      /\ UNCHANGED <<made, keystore, loaded, latest, alone, settled>>
  BY DEF SaveCut, Opened
<1>2. made \in Seq(Entry) /\ n \in 1 .. Len(made)
  BY <1>1 DEF StoreInv
<1>3. /\ made[n].secret \in Nat \ {0} /\ Len(t) = made[n].secret + 4
      /\ \E S : t \in Seq(S) /\ Torn \in S
      /\ \A i \in 2 .. made[n].secret + 1 : t[i] = <<"ciphertext", n, i - 1>>
  BY <1>2, TextUnits
<1>4. 2 \in 1 .. Len(t) /\ t[2] = <<"ciphertext", n, 1>>
  <2>1. 2 \in 2 .. made[n].secret + 1 /\ 2 \in 1 .. Len(t) /\ 2 - 1 = 1
    BY <1>3
  <2> QED
    BY <1>3, <2>1
<1>5. PICK k \in 0 .. Len(t) :
          \/ file' = Over(SubSeq(t, 1, k))
          \/ file' = Over(Append(SubSeq(t, 1, k), Torn))
  BY DEF SaveCut
<1>6. PICK S : t \in Seq(S) /\ Torn \in S
  BY <1>3
<1>7. \E T : file \in Seq(T)
  BY DEF StoreInv
<1> HIDE DEF t
<1> DEFINE u == SubSeq(t, 1, k)
           v == Append(u, Torn)
<1>8. u \in Seq(S) /\ Len(u) = k /\ \A i \in 1 .. k : u[i] = t[i]
  <2>1. k \in Nat /\ k <= Len(t) /\ Len(t) \in Nat
    BY <1>6
  <2> QED
    BY <1>6, <2>1
<1> HIDE DEF u
<1>9. /\ v \in Seq(S) /\ Len(v) = k + 1 /\ v[k + 1] = Torn
      /\ \A i \in 1 .. k : v[i] = t[i]
  BY <1>6, <1>8, AppendProperties
<1> HIDE DEF v
<1>10. PICK w : /\ w \in {u, v} /\ w \in Seq(S) /\ file' = Over(w)
                /\ Len(w) \in Nat
                /\ \A i \in 1 .. Len(w) : w[i] = t[i] \/ w[i] = Torn
  <2>1. CASE file' = Over(u)
    BY <1>8, <2>1
  <2>2. CASE file' = Over(v)
    <3>1. \A i \in 1 .. k + 1 : i \in 1 .. k \/ i = k + 1
      OBVIOUS
    <3> QED
      BY <1>9, <2>2, <3>1
  <2> QED
    BY <1>5, <2>1, <2>2 DEF u, v
<1>11. /\ \E T : file' \in Seq(T)
       /\ \A i \in 1 .. Len(w) : file'[i] = w[i]
       /\ \A i \in 1 .. Len(file') : i > Len(w) => file'[i] = file[i]
       /\ Len(file') = Len(w) \/ Len(file') = Len(file)
  BY <1>7, <1>10, OverUnits
<1>12. ASSUME Len(file') >= 2, file'[2][1] = "ciphertext"
       PROVE  file'[2][2] \in {latest} \cup cut'
  <2>1. CASE Len(w) >= 2
    <3>1. 2 \in 1 .. Len(w)
      BY <1>10, <2>1
    <3>2. Torn[1] # "ciphertext"
      BY DEF Torn
    <3>3. file'[2] = t[2]
      BY <1>10, <1>11, <1>12, <3>1, <3>2
    <3> QED
      BY <1>1, <1>4, <3>3
  <2>2. CASE ~(Len(w) >= 2)
    <3>1. Len(file') \in Nat
      BY <1>11
    <3>2. 2 \in 1 .. Len(file') /\ 2 > Len(w) /\ Len(file) >= 2
      BY <1>10, <1>11, <1>12, <2>2, <3>1
    <3>3. file'[2] = file[2]
      BY <1>11, <3>2
    <3> QED
      BY <1>1, <1>12, <3>2, <3>3 DEF StoreInv
  <2> QED
    BY <2>1, <2>2
<1>13. \A q \in Processes : Opened(q)' <=> q # p /\ Opened(q)
  BY <1>1 DEF StoreInv, Opened
<1>14. alone => \A q \in Processes : ~Opened(q)'
  BY <1>1, <1>13 DEF StoreInv
<1>15. ~settled
  BY <1>1 DEF StoreInv
<1>16. LoadedIsGenuine'
  BY <1>1 DEF StoreInv, LoadedIsGenuine
<1>17. DOMAIN saving' = Processes /\ \A q \in Processes : Opened(q)' => keystore'[q] \in 1 .. Len(made')
  BY <1>1, <1>13 DEF StoreInv
<1> QED
  BY <1>1, <1>2, <1>11, <1>12, <1>14, <1>15, <1>16, <1>17 DEF StoreInv

\* What is decrypted is the text of the file's last writer.
LEMMA LoadStore ==
    ASSUME StoreInv, NEW p \in Processes, Load(p)
    PROVE  StoreInv'
<1>1. UNCHANGED <<made, saving, keystore, file, latest, cut, alone, settled>>
  BY DEF Load, histories
<1>2. PICK password \in Passwords :
          loaded' = [password |-> password, by |-> Read(password), from |-> {latest} \cup cut]
  BY DEF Load
<1>3. LoadedIsGenuine'
  <2> SUFFICES ASSUME Read(password)[1] = "data"
               PROVE  \E n \in DOMAIN made \cap ({latest} \cup cut) :
                         /\ made[n].secret = Read(password)[2] /\ made[n].password = password
    BY <1>1, <1>2 DEF LoadedIsGenuine
  <2>1. PICK n \in DOMAIN made :
            /\ Read(password) = <<"data", made[n].secret>> /\ made[n].password = password
            /\ Len(file) >= 2 /\ file[2] = <<"ciphertext", n, 1>>
    BY ReadsWriter DEF StoreInv
  <2>2. n \in {latest} \cup cut
    BY <2>1 DEF StoreInv
  <2> QED
    BY <2>1, <2>2
<1>4. \A q \in Processes : Opened(q)' <=> Opened(q)
  BY <1>1 DEF Opened
<1>5. Text(latest)' = Text(latest)
  BY <1>1 DEF Text, Ciphertext
<1> QED
  BY <1>1, <1>3, <1>4, <1>5 DEF StoreInv

\* The inductive invariant of the file: who wrote it last (save, load).
THEOREM StoreInvariant == KeystoreSpec => []StoreInv
<1>1. StoreInv /\ [KeystoreNext]_keystoreVars => StoreInv'
  <2> SUFFICES ASSUME StoreInv, [KeystoreNext]_keystoreVars PROVE StoreInv'
    OBVIOUS
  <2>1. CASE UNCHANGED keystoreVars
    BY <2>1 DEF keystoreVars, histories, StoreInv, Opened, LoadedIsGenuine, Text, Ciphertext
  <2> QED
    BY <2>1, OpensStore, WritesStore, CutStore, LoadStore DEF KeystoreNext
<1> QED
  BY <1>1, InitStore, PTL DEF KeystoreSpec

\* Whatever crashes and overlapping saves left in the file, what load and decrypt
\* return was encrypted with the very password, and not before the last save that
\* returned (Keystore.save, load, decrypt).
THEOREM KeystoreIsGenuine == KeystoreSpec => []LoadedIsGenuine
<1>1. StoreInv => LoadedIsGenuine
  BY DEF StoreInv
<1> QED
  BY <1>1, StoreInvariant, PTL

\* A save that meets no other mends the file, whatever was in it (Keystore.save).
THEOREM SaveMends == KeystoreSpec => []SaveReplaces
<1>1. StoreInv => SaveReplaces
  <2> SUFFICES ASSUME StoreInv, settled
               PROVE  /\ latest \in DOMAIN made
                      /\ Read(made[latest].password) = <<"data", made[latest].secret>>
    BY DEF SaveReplaces
  <2>1. made \in Seq(Entry) /\ latest \in 1 .. Len(made) /\ file = Text(latest)
    BY DEF StoreInv
  <2> QED
    BY <2>1, TextIsRead
<1> QED
  BY <1>1, StoreInvariant, PTL

-----------------------------------------------------------------------------
(* The keys *)

\* A half of an HMAC tells what was hashed, and under which key.
LEMMA HmacInjective ==
    ASSUME NEW k, NEW d, NEW l, NEW e,
           \/ HmacSha512(k, d).key = HmacSha512(l, e).key
           \/ HmacSha512(k, d).chain = HmacSha512(l, e).chain
    PROVE  k = l /\ d = e
<1>1. /\ HmacSha512(k, d).key = [half |-> "left", mac |-> k, of |-> d]
      /\ HmacSha512(l, e).key = [half |-> "left", mac |-> l, of |-> e]
      /\ HmacSha512(k, d).chain = [half |-> "right", mac |-> k, of |-> d]
      /\ HmacSha512(l, e).chain = [half |-> "right", mac |-> l, of |-> e]
  BY DEF HmacSha512
<1> QED
  BY <1>1

\* A child key or chain code is of one parent's chain code and one element.
LEMMA HardenedInjective ==
    ASSUME NEW a, NEW i, NEW b, NEW j,
           CkdHardened(a, i).chain = CkdHardened(b, j).chain
    PROVE  a.chain = b.chain /\ Harden(i) = Harden(j)
<1> DEFINE d == <<0, a.key, Harden(i)>>
           e == <<0, b.key, Harden(j)>>
<1>1. HmacSha512(a.chain, d).chain = HmacSha512(b.chain, e).chain
  BY DEF CkdHardened
<1> HIDE DEF d, e
<1>2. a.chain = b.chain /\ d = e
  BY <1>1, HmacInjective
<1> QED
  BY <1>2 DEF d, e

LEMMA NormalInjective ==
    ASSUME NEW a, NEW i, NEW b, NEW j,
           \/ CkdNormal(a, i).key = CkdNormal(b, j).key
           \/ CkdNormal(a, i).chain = CkdNormal(b, j).chain
    PROVE  a.chain = b.chain /\ i = j
<1> DEFINE d == <<PublicKey(a.key), i>>
           e == <<PublicKey(b.key), j>>
<1>1. \/ HmacSha512(a.chain, d).key = HmacSha512(b.chain, e).key
      \/ HmacSha512(a.chain, d).chain = HmacSha512(b.chain, e).chain
  BY DEF CkdNormal
<1> HIDE DEF d, e
<1>2. a.chain = b.chain /\ d = e
  BY <1>1, HmacInjective
<1> QED
  BY <1>2 DEF d, e

\* One key is of one path: no element runs into another (derive_key).
LEMMA PathOfKey ==
    ASSUME NEW m, NEW a, NEW r, NEW i, NEW n, NEW b, NEW s, NEW j,
           DeriveKey(MnemonicToSeed(m), a, r, i)
                = DeriveKey(MnemonicToSeed(n), b, s, j)
    PROVE  m = n /\ SameAccount(a, b) /\ r = s /\ i = j
<1> DEFINE top(x) == DeriveMaster(MnemonicToSeed(x))
           purpose(x) == CkdHardened(top(x), PURPOSE)
           coin(x) == CkdHardened(purpose(x), MIDNIGHT_COIN_TYPE)
           account(x, y) == CkdHardened(coin(x), y)
           role(x, y, z) == CkdNormal(account(x, y), z)
<1>1. \A x, y : Account(MnemonicToSeed(x), y) = account(x, y)
  BY DEF Account
<1>2. CkdNormal(role(m, a, r), i).key = CkdNormal(role(n, b, s), j).key
  BY <1>1 DEF DeriveKey
<1> HIDE DEF role
<1>3. role(m, a, r).chain = role(n, b, s).chain /\ i = j
  BY <1>2, NormalInjective
<1> USE DEF role
<1> HIDE DEF account
<1>4. account(m, a).chain = account(n, b).chain /\ r = s
  BY <1>3, NormalInjective
<1> USE DEF account
<1> HIDE DEF role, coin
<1>5. coin(m).chain = coin(n).chain /\ Harden(a) = Harden(b)
  BY <1>4, HardenedInjective
<1> USE DEF coin
<1> HIDE DEF account, purpose
<1>6. purpose(m).chain = purpose(n).chain
  BY <1>5, HardenedInjective
<1> USE DEF purpose
<1> HIDE DEF coin, top
<1>7. top(m).chain = top(n).chain
  BY <1>6, HardenedInjective
<1>8. MnemonicToSeed(m) = MnemonicToSeed(n)
  BY <1>7, HmacInjective DEF top, DeriveMaster
<1>9. m = n
  BY <1>8 DEF MnemonicToSeed
<1> QED
  BY <1>3, <1>4, <1>5, <1>9 DEF SameAccount

\* A hash tells what was hashed.
LEMMA HashInjective ==
    ASSUME NEW x, NEW y, Sha256(x) = Sha256(y)
    PROVE  x = y
  BY DEF Sha256

\* The addresses of a sub-wallet are those of one key.
LEMMA KeyOfAddress ==
    /\ \A k, l : Unshielded(k).address = Unshielded(l).address => k = l
    /\ \A k, l : Shielded(k).address = Shielded(l).address => k = l
    /\ \A k, l : Dust(k).address = Dust(l).address => k = l
<1>1. \A k, l : PublicKey(k) = PublicKey(l) => k = l
  BY DEF PublicKey
<1>2. ASSUME NEW k, NEW l, Unshielded(k).address = Unshielded(l).address PROVE k = l
  <2>1. <<Sha256(PublicKey(k))>> = <<Sha256(PublicKey(l))>>
    BY <1>2 DEF Unshielded
  <2>2. Sha256(PublicKey(k)) = Sha256(PublicKey(l))
    BY <2>1
  <2> QED
    BY <1>1, <2>2, HashInjective
<1>3. ASSUME NEW k, NEW l, Shielded(k).address = Shielded(l).address PROVE k = l
  <2>1. <<CoinPublicKey(k), EncryptionPublicKey(k)>>
            = <<CoinPublicKey(l), EncryptionPublicKey(l)>>
    BY <1>3 DEF Shielded
  <2>2. CoinPublicKey(k) = CoinPublicKey(l)
    BY <2>1
  <2>3. <<"midnight:zswap-pk[v1]", CoinSecretKey(k)>>
            = <<"midnight:zswap-pk[v1]", CoinSecretKey(l)>>
    BY <2>2, HashInjective DEF CoinPublicKey
  <2>4. CoinSecretKey(k) = CoinSecretKey(l)
    BY <2>3
  <2>5. <<"midnight:csk", k>> = <<"midnight:csk", l>>
    BY <2>4, HashInjective DEF CoinSecretKey
  <2> QED
    BY <2>5
<1>4. ASSUME NEW k, NEW l, Dust(k).address = Dust(l).address PROVE k = l
  <2>1. <<"0x73", PublicKey(k)>> = <<"0x73", PublicKey(l)>>
    BY <1>4 DEF Dust
  <2> QED
    BY <1>1, <2>1
<1> QED
  BY <1>2, <1>3, <1>4

\* An answer is the key or the wallet that was asked for, or an exception.
KeysInv ==
    \/ derived = Pending
    \/ DOMAIN derived = {"raised"}
    \/ /\ request \in KeyRequests
       /\ derived = [key |-> DeriveKey(MnemonicToSeed(request.mnemonic),
                                            request.account, request.role, request.index)]
    \/ derived = [wallet |-> MidnightWallet(request.mnemonic, request.account)]

\* A key depends on the bindings the process has, and they stay.
LEMMA NormalStays ==
    ASSUME environment' = environment
    PROVE  \A p, i : CkdNormal(p, i)' = CkdNormal(p, i)
  BY DEF CkdNormal, PublicKey, HmacSha512

LEMMA AccountStays ==
    \A s, a : Account(s, a)' = Account(s, a)
  BY DEF Account, CkdHardened, DeriveMaster, HmacSha512

LEMMA KeyStays ==
    ASSUME environment' = environment
    PROVE  \A s, a, r, i : DeriveKey(s, a, r, i)' = DeriveKey(s, a, r, i)
  BY NormalStays, AccountStays DEF DeriveKey

LEMMA WalletStays ==
    ASSUME environment' = environment
    PROVE  \A m, a : MidnightWallet(m, a)' = MidnightWallet(m, a)
<1>1. \A k : PublicKey(k)' = PublicKey(k)
  BY DEF PublicKey
<1>2. \A k : /\ Unshielded(k)' = Unshielded(k)
            /\ Dust(k)' = Dust(k)
  BY <1>1 DEF Unshielded, Dust, Sha256
<1>3. \A k : Shielded(k)' = Shielded(k)
  BY DEF Shielded, CoinPublicKey, CoinSecretKey, EncryptionPublicKey,
         EncryptionSecretKey, SampleBytes, Sha256
<1>4. \A m, a : SpendingKey(m, a)' = SpendingKey(m, a)
  BY KeyStays DEF SpendingKey, MnemonicToSeed, Roles
<1> QED
  BY <1>2, <1>3, <1>4 DEF MidnightWallet

LEMMA NextKeys == KeysInv /\ [KeysNext]_keysVars => KeysInv'
<1> SUFFICES ASSUME KeysInv, [KeysNext]_keysVars PROVE KeysInv'
  OBVIOUS
<1>1. \A e : DOMAIN [raised |-> e] = {"raised"}
  OBVIOUS
<1>2. CASE AnswerKey
  <2> DEFINE key == DeriveKey(MnemonicToSeed(request.mnemonic), request.account,
                                   request.role, request.index)
  <2>1. \/ derived' = [raised |-> "InvalidMnemonicError"]
        \/ derived' = [raised |-> "struct.error"]
        \/ derived' = [key |-> key]
    BY <1>2 DEF AnswerKey
  <2>2. request \in KeyRequests /\ UNCHANGED <<environment, request>>
    BY <1>2 DEF AnswerKey
  <2>3. key' = key /\ KeyRequests' = KeyRequests
    <3>1. MnemonicToSeed(request.mnemonic)' = MnemonicToSeed(request.mnemonic)
      BY <2>2 DEF MnemonicToSeed
    <3> QED
      BY <2>2, <3>1, KeyStays DEF KeyRequests, Roles
  <2> HIDE DEF key
  <2>4. CASE derived' = [key |-> key]
    <3>1. derived' = [key |-> key']
      BY <2>3, <2>4
    <3> QED
      BY <2>2, <2>3, <3>1 DEF KeysInv, key
  <2>5. CASE DOMAIN derived' = {"raised"}
    BY <2>5 DEF KeysInv
  <2> QED
    BY <1>1, <2>1, <2>4, <2>5
<1>3. CASE OpenWallet
  <2> DEFINE wallet == MidnightWallet(request.mnemonic, request.account)
  <2>1. /\ \/ derived' = [raised |-> "InvalidMnemonicError"]
           \/ derived' = [wallet |-> wallet]
        /\ UNCHANGED <<environment, request>>
    BY <1>3 DEF OpenWallet
  <2>2. wallet' = wallet
    BY <2>1, WalletStays
  <2> HIDE DEF wallet
  <2>3. CASE derived' = [wallet |-> wallet]
    <3>1. derived' = [wallet |-> wallet']
      BY <2>2, <2>3
    <3> QED
      BY <3>1 DEF KeysInv, wallet
  <2>4. CASE DOMAIN derived' = {"raised"}
    BY <2>4 DEF KeysInv
  <2> QED
    BY <1>1, <2>1, <2>3, <2>4
<1>4. CASE UNCHANGED keysVars
  <2>1. derived' = derived /\ environment' = environment /\ request' = request
    BY <1>4 DEF keysVars
  <2>2. MnemonicToSeed(request.mnemonic)' = MnemonicToSeed(request.mnemonic)
    BY <2>1 DEF MnemonicToSeed
  <2>3. KeyRequests' = KeyRequests
    BY DEF KeyRequests, Roles
  <2> QED
    BY <2>1, <2>2, <2>3, KeyStays, WalletStays DEF KeysInv
<1> QED
  BY <1>2, <1>3, <1>4 DEF KeysNext

\* Two paths have one key only if they are one path, and an address belongs to
\* the wallet of one mnemonic: for all mnemonics, elements and widths
\* (derive_key, the constructors of the sub-wallets).
THEOREM KeysAreSeparate == KeysSpec => []KeysSeparate
<1>1. KeysInit => KeysInv
  BY DEF KeysInit, KeysInv
<1>2. KeysInv => KeysSeparate
  <2> SUFFICES ASSUME KeysInv, derived # Pending PROVE KeysSeparate
    BY DEF KeysSeparate
  <2>1. ASSUME "key" \in DOMAIN derived, NEW other \in KeyRequests,
               derived.key = DeriveKey(MnemonicToSeed(other.mnemonic), other.account,
                                            other.role, other.index)
        PROVE  /\ SameAccount(other.account, request.account)
               /\ [other EXCEPT !.account = request.account] = request
    <3>1. /\ request \in KeyRequests
          /\ derived = [key |-> DeriveKey(MnemonicToSeed(request.mnemonic),
                                               request.account, request.role, request.index)]
      <4>1. "key" \notin {"raised"}
        OBVIOUS
      <4>2. \A w : "key" \notin DOMAIN [wallet |-> w]
        OBVIOUS
      <4> QED
        BY <2>1, <4>1, <4>2 DEF KeysInv
    <3>2. derived.key = DeriveKey(MnemonicToSeed(request.mnemonic),
                                       request.account, request.role, request.index)
      BY <3>1
    <3>3. DeriveKey(MnemonicToSeed(other.mnemonic), other.account, other.role,
                         other.index)
            = DeriveKey(MnemonicToSeed(request.mnemonic), request.account,
                             request.role, request.index)
      BY <2>1, <3>2
    <3>4. /\ other.mnemonic = request.mnemonic /\ other.role = request.role
          /\ other.index = request.index
          /\ SameAccount(other.account, request.account)
      BY <3>3, PathOfKey
    <3> QED
      BY <2>1, <3>1, <3>4 DEF KeyRequests
  <2>2. ASSUME "wallet" \in DOMAIN derived, NEW mnemonic, NEW kind \in DOMAIN derived.wallet,
               derived.wallet[kind].address = MidnightWallet(mnemonic, 0)[kind].address
        PROVE  mnemonic = request.mnemonic
    <3> DEFINE key(m, r) == DeriveKey(MnemonicToSeed(m), 0, r, 0)
    <3>1. derived.wallet = MidnightWallet(request.mnemonic, request.account)
      <4>1. "wallet" \notin {"raised"}
        OBVIOUS
      <4>2. \A k : "wallet" \notin DOMAIN [key |-> k]
        OBVIOUS
      <4> QED
        BY <2>2, <4>1, <4>2 DEF KeysInv
    <3>2. \A m, a : MidnightWallet(m, a) =
              [unshielded |-> Unshielded(key(m, Roles.NIGHT_EXTERNAL)),
               shielded |-> Shielded(key(m, Roles.ZSWAP)),
               dust |-> Dust(key(m, Roles.DUST))]
      BY DEF MidnightWallet, SpendingKey
    <3>3. kind \in {"unshielded", "shielded", "dust"}
      BY <2>2, <3>1, <3>2
    <3> HIDE DEF key
    <3>4. \E r : key(request.mnemonic, r) = key(mnemonic, r)
      <4>1. CASE kind = "unshielded"
        BY <2>2, <3>1, <3>2, <4>1, KeyOfAddress
      <4>2. CASE kind = "shielded"
        BY <2>2, <3>1, <3>2, <4>2, KeyOfAddress
      <4>3. CASE kind = "dust"
        BY <2>2, <3>1, <3>2, <4>3, KeyOfAddress
      <4> QED
        BY <3>3, <4>1, <4>2, <4>3
    <3> QED
      BY <3>4, PathOfKey DEF key
  <2> QED
    BY <2>1, <2>2 DEF KeysSeparate
<1> QED
  BY <1>1, <1>2, NextKeys, PTL DEF KeysSpec

-----------------------------------------------------------------------------
(* The tree of commitments                                                 *)

\* The recursive functions of ZswapState satisfy their equations: a function
\* that satisfies one up to a level extends to the next.
LEMMA TwoToEquation ==
    ASSUME Depth \in Nat
    PROVE  /\ TwoTo[0] = 1
           /\ \A l \in 1 .. Depth : TwoTo[l] = 2 * TwoTo[l - 1]
<1> DEFINE Eq(h, n) == h = [level \in 0 .. n |-> IF level = 0 THEN 1 ELSE 2 * h[level - 1]]
           S == {n \in 0 .. Depth : \E h : Eq(h, n)}
<1>1. 0 \in S
  <2>1. Eq([level \in 0 .. 0 |-> 1], 0)
    OBVIOUS
  <2> HIDE DEF Eq
  <2> QED
    BY <2>1
<1>2. ASSUME NEW k \in 0 .. Depth, k \in S, k < Depth PROVE k + 1 \in S
  <2>1. PICK f : Eq(f, k)
    BY <1>2
  <2> DEFINE g == [l \in 0 .. (k + 1) |-> IF l = k + 1 THEN 2 * f[k] ELSE f[l]]
  <2>2. \A l \in 0 .. (k + 1) : g[l] = IF l = 0 THEN 1 ELSE 2 * g[l - 1]
    BY <2>1
  <2>3. Eq(g, k + 1)
    BY <2>2
  <2> HIDE DEF Eq
  <2> QED
    BY <1>2, <2>3
<1>3. Depth \in S
  <2> HIDE DEF S
  <2> QED
    BY <1>1, <1>2, InductionUpTo
<1>4. TwoTo = CHOOSE h : Eq(h, Depth)
  BY DEF TwoTo
<1>5. Eq(TwoTo, Depth)
  BY <1>3, <1>4
<1> QED
  BY <1>5

LEMMA ZeroNodesEquation ==
    ASSUME Depth \in Nat
    PROVE  /\ ZeroNodes[0] = Zero
           /\ \A l \in 1 .. Depth :
                 ZeroNodes[l] = NodeHash(ZeroNodes[l - 1], ZeroNodes[l - 1])
<1> DEFINE Eq(h, n) == h = [level \in 0 .. n |->
                               IF level = 0 THEN Zero ELSE NodeHash(h[level - 1], h[level - 1])]
           S == {n \in 0 .. Depth : \E h : Eq(h, n)}
<1>1. 0 \in S
  <2>1. Eq([level \in 0 .. 0 |-> Zero], 0)
    OBVIOUS
  <2> HIDE DEF Eq
  <2> QED
    BY <2>1
<1>2. ASSUME NEW k \in 0 .. Depth, k \in S, k < Depth PROVE k + 1 \in S
  <2>1. PICK f : Eq(f, k)
    BY <1>2
  <2> DEFINE g == [l \in 0 .. (k + 1) |-> IF l = k + 1 THEN NodeHash(f[k], f[k]) ELSE f[l]]
  <2>2. \A l \in 0 .. (k + 1) : g[l] = IF l = 0 THEN Zero ELSE NodeHash(g[l - 1], g[l - 1])
    BY <2>1
  <2>3. Eq(g, k + 1)
    BY <2>2
  <2> HIDE DEF Eq
  <2> QED
    BY <1>2, <2>3
<1>3. Depth \in S
  <2> HIDE DEF S
  <2> QED
    BY <1>1, <1>2, InductionUpTo
<1>4. ZeroNodes = CHOOSE h : Eq(h, Depth)
  BY DEF ZeroNodes
<1>5. Eq(ZeroNodes, Depth)
  BY <1>3, <1>4
<1> QED
  BY <1>5

\* The nodes above those of a level.
Above(nodes, level) ==
    [p \in {i \div 2 : i \in DOMAIN nodes} |->
        NodeHash(NodeAt(nodes, 2 * p, level), NodeAt(nodes, 2 * p + 1, level))]

LEMMA LevelsEquation ==
    ASSUME Depth \in Nat, NEW tree
    PROVE  /\ Levels(tree)[0] = tree
           /\ \A l \in 1 .. Depth :
                 Levels(tree)[l] = Above(Levels(tree)[l - 1], l - 1)
<1> DEFINE Eq(h, n) == h = [level \in 0 .. n |->
                               IF level = 0 THEN tree ELSE Above(h[level - 1], level - 1)]
           S == {n \in 0 .. Depth : \E h : Eq(h, n)}
<1>1. 0 \in S
  <2>1. Eq([level \in 0 .. 0 |-> tree], 0)
    OBVIOUS
  <2> HIDE DEF Eq
  <2> QED
    BY <2>1
<1>2. ASSUME NEW k \in 0 .. Depth, k \in S, k < Depth PROVE k + 1 \in S
  <2>1. PICK f : Eq(f, k)
    BY <1>2
  <2> DEFINE g == [l \in 0 .. (k + 1) |-> IF l = k + 1 THEN Above(f[k], k) ELSE f[l]]
  <2>2. \A l \in 0 .. (k + 1) : g[l] = IF l = 0 THEN tree ELSE Above(g[l - 1], l - 1)
    BY <2>1
  <2>3. Eq(g, k + 1)
    BY <2>2
  <2> HIDE DEF Eq
  <2> QED
    BY <1>2, <2>3
<1>3. Depth \in S
  <2> HIDE DEF S
  <2> QED
    BY <1>1, <1>2, InductionUpTo
<1>4. Levels(tree) = CHOOSE h : Eq(h, Depth)
  BY DEF Levels, Above
<1>5. Eq(Levels(tree), Depth)
  BY <1>3, <1>4
<1> QED
  BY <1>5

\* A level of the complete tree, from the one below.
CompleteLevel(below, level) ==
    [p \in 0 .. TwoTo[Depth - level] - 1 |->
        IF level = 0 THEN LastReceived(p)
        ELSE NodeHash(below[2 * p], below[2 * p + 1])]

LEMMA CompleteEquation ==
    ASSUME Depth \in Nat
    PROVE  /\ CompleteTree[0] = CompleteLevel(<<>>, 0)
           /\ \A l \in 1 .. Depth :
                 CompleteTree[l] = CompleteLevel(CompleteTree[l - 1], l)
<1> DEFINE Eq(h, n) == h = [level \in 0 .. n |-> CompleteLevel(h[level - 1], level)]
           S == {n \in 0 .. Depth : \E h : Eq(h, n)}
<1>0. \A h : CompleteLevel(h, 0) = CompleteLevel(<<>>, 0)
  BY DEF CompleteLevel
<1>1. 0 \in S
  <2>1. Eq([level \in 0 .. 0 |-> CompleteLevel(<<>>, 0)], 0)
    BY <1>0
  <2> HIDE DEF Eq
  <2> QED
    BY <2>1
<1>2. ASSUME NEW k \in 0 .. Depth, k \in S, k < Depth PROVE k + 1 \in S
  <2>1. PICK f : Eq(f, k)
    BY <1>2
  <2> DEFINE g == [l \in 0 .. (k + 1) |-> IF l = k + 1 THEN CompleteLevel(f[k], k + 1) ELSE f[l]]
  <2>2. \A l \in 0 .. (k + 1) : g[l] = CompleteLevel(g[l - 1], l)
    BY <1>0, <2>1
  <2>3. Eq(g, k + 1)
    BY <2>2
  <2> HIDE DEF Eq
  <2> QED
    BY <1>2, <2>3
<1>3. Depth \in S
  <2> HIDE DEF S
  <2> QED
    BY <1>1, <1>2, InductionUpTo
<1>4. CompleteTree = CHOOSE h : Eq(h, Depth)
  BY DEF CompleteTree, CompleteLevel
<1>5. Eq(CompleteTree, Depth)
  BY <1>3, <1>4
<1> QED
  BY <1>0, <1>5

\* What a verifier makes of a node and its sibling.
Joined(index, node, sibling, n) ==
    IF (index \div TwoTo[n - 1]) % 2 = 0 THEN NodeHash(node, sibling)
    ELSE NodeHash(sibling, node)

LEMMA PathRootEquation ==
    ASSUME Depth \in Nat, NEW leaf, NEW index, NEW path
    PROVE  \E h : /\ h[0] = leaf
                  /\ \A n \in 1 .. Depth : h[n] = Joined(index, h[n - 1], path[n], n)
                  /\ PathRoot(leaf, index, path) = h[Depth]
<1> DEFINE Eq(h, n) == h = [level \in 0 .. n |->
                               IF level = 0 THEN leaf
                               ELSE Joined(index, h[level - 1], path[level], level)]
           S == {n \in 0 .. Depth : \E h : Eq(h, n)}
<1>1. 0 \in S
  <2>1. Eq([level \in 0 .. 0 |-> leaf], 0)
    OBVIOUS
  <2> HIDE DEF Eq
  <2> QED
    BY <2>1
<1>2. ASSUME NEW k \in 0 .. Depth, k \in S, k < Depth PROVE k + 1 \in S
  <2>1. PICK f : Eq(f, k)
    BY <1>2
  <2> DEFINE g == [l \in 0 .. (k + 1) |-> IF l = k + 1 THEN Joined(index, f[k], path[k + 1], k + 1)
                                          ELSE f[l]]
  <2>2. \A l \in 0 .. (k + 1) :
            g[l] = IF l = 0 THEN leaf ELSE Joined(index, g[l - 1], path[l], l)
    BY <2>1
  <2>3. Eq(g, k + 1)
    BY <2>2
  <2> HIDE DEF Eq
  <2> QED
    BY <1>2, <2>3
<1>3. Depth \in S
  <2> HIDE DEF S
  <2> QED
    BY <1>1, <1>2, InductionUpTo
<1> DEFINE r == CHOOSE h : Eq(h, Depth)
<1>4. PathRoot(leaf, index, path) = r[Depth]
  BY DEF PathRoot, Joined
<1>5. Eq(r, Depth)
  BY <1>3
<1> HIDE DEF r
<1> QED
  BY <1>4, <1>5

LEMMA PowersPositive ==
    ASSUME Depth \in Nat
    PROVE  \A l \in 0 .. Depth : TwoTo[l] \in Nat \ {0}
<1> DEFINE S == {l \in 0 .. Depth : TwoTo[l] \in Nat \ {0}}
<1>1. 0 \in S
  BY TwoToEquation
<1>2. ASSUME NEW k \in 0 .. Depth, k \in S, k < Depth PROVE k + 1 \in S
  <2>1. TwoTo[k + 1] = 2 * TwoTo[k]
    BY <1>2, TwoToEquation
  <2> QED
    BY <1>2, <2>1
<1> HIDE DEF S
<1>3. \A k \in 0 .. Depth : k \in S
  BY <1>1, <1>2, InductionUpTo
<1> QED
  BY <1>3 DEF S

\* The positions of a level are twice those of the level above.
LEMMA LevelSizes ==
    ASSUME Depth \in Nat, NEW l \in 1 .. Depth
    PROVE  /\ TwoTo[Depth - l] \in Nat \ {0}
           /\ TwoTo[Depth - (l - 1)] = 2 * TwoTo[Depth - l]
<1>1. Depth - l \in 0 .. Depth /\ Depth - (l - 1) \in 1 .. Depth
  OBVIOUS
<1>2. (Depth - (l - 1)) - 1 = Depth - l
  OBVIOUS
<1> QED
  BY <1>1, <1>2, PowersPositive, TwoToEquation

\* The leaves are the coins received last, and lie in the tree.
TreeInv ==
    /\ received \in Seq(ZswapCoins)
    /\ DOMAIN leaves \subseteq Positions
    /\ \A i \in Positions :
          LastReceived(i) = IF i \in DOMAIN leaves THEN leaves[i] ELSE Zero

\* A level of the sparse tree holds the nodes of the complete one that are not
\* those of an empty subtree (NodeAt).
SameLevel(level) ==
    LET nodes == Levels(leaves)[level]
        size == TwoTo[Depth - level]
    IN  /\ DOMAIN nodes \subseteq 0 .. size - 1
        /\ DOMAIN nodes = {} <=> DOMAIN leaves = {}
        /\ \A p \in 0 .. size - 1 :
              NodeAt(nodes, p, level) = CompleteTree[level][p]

LEMMA LevelsAgree ==
    ASSUME Depth \in Nat, TreeInv
    PROVE  \A l \in 0 .. Depth : SameLevel(l)
<1> DEFINE S == {l \in 0 .. Depth : SameLevel(l)}
<1>1. 0 \in S
  <2>1. Levels(leaves)[0] = leaves /\ CompleteTree[0] = CompleteLevel(<<>>, 0)
    BY LevelsEquation, CompleteEquation
  <2>2. Depth - 0 = Depth
    OBVIOUS
  <2>3. \A p \in Positions : CompleteTree[0][p] = LastReceived(p)
    BY <2>1, <2>2 DEF CompleteLevel, Positions
  <2>4. \A p \in Positions : NodeAt(leaves, p, 0) = LastReceived(p)
    BY ZeroNodesEquation DEF TreeInv, NodeAt
  <2>5. Positions = 0 .. TwoTo[Depth - 0] - 1
    BY <2>2 DEF Positions
  <2>6. SameLevel(0)
    BY <2>1, <2>3, <2>4, <2>5 DEF SameLevel, TreeInv
  <2> QED
    BY <2>6
<1>2. ASSUME NEW k \in 0 .. Depth, k \in S, k < Depth PROVE k + 1 \in S
  <2> DEFINE low == Levels(leaves)[k]
             high == Levels(leaves)[k + 1]
             size == TwoTo[Depth - (k + 1)]
             below == CompleteTree[k]
  <2>1. k + 1 \in 1 .. Depth /\ (k + 1) - 1 = k
    BY <1>2
  <2>2. size \in Nat /\ TwoTo[Depth - k] = 2 * size
    BY <2>1, LevelSizes
  <2>3. high = Above(low, k)
    BY <2>1, LevelsEquation
  <2>4. CompleteTree[k + 1] = CompleteLevel(below, k + 1)
    BY <2>1, CompleteEquation
  <2> HIDE DEF low, high, size
  <2>5. /\ DOMAIN low \subseteq 0 .. 2 * size - 1
        /\ DOMAIN low = {} <=> DOMAIN leaves = {}
        /\ \A p \in 0 .. 2 * size - 1 : NodeAt(low, p, k) = below[p]
    BY <1>2, <2>2 DEF SameLevel, low
  <2>6. DOMAIN high = {i \div 2 : i \in DOMAIN low}
    BY <2>3 DEF Above
  <2>7. \A i \in 0 .. 2 * size - 1 : i \div 2 \in 0 .. size - 1
    BY <2>2
  <2>8. ASSUME NEW p \in 0 .. size - 1
        PROVE  NodeAt(high, p, k + 1) = CompleteTree[k + 1][p]
    <3>1. /\ 2 * p \in 0 .. 2 * size - 1 /\ (2 * p) \div 2 = p
          /\ 2 * p + 1 \in 0 .. 2 * size - 1 /\ (2 * p + 1) \div 2 = p
      BY <2>2
    <3>2. CompleteTree[k + 1][p] = NodeHash(below[2 * p], below[2 * p + 1])
      BY <2>1, <2>4 DEF CompleteLevel, size
    <3>3. /\ below[2 * p] = NodeAt(low, 2 * p, k)
          /\ below[2 * p + 1] = NodeAt(low, 2 * p + 1, k)
      BY <2>5, <3>1
    <3>4. CASE p \in DOMAIN high
      <4>1. high[p] = NodeHash(NodeAt(low, 2 * p, k), NodeAt(low, 2 * p + 1, k))
        BY <2>3, <2>6, <3>4 DEF Above
      <4> QED
        BY <3>2, <3>3, <3>4, <4>1 DEF NodeAt
    <3>5. CASE p \notin DOMAIN high
      <4>1. 2 * p \notin DOMAIN low /\ 2 * p + 1 \notin DOMAIN low
        BY <2>6, <3>1, <3>5
      <4>2. below[2 * p] = ZeroNodes[k] /\ below[2 * p + 1] = ZeroNodes[k]
        BY <3>3, <4>1 DEF NodeAt
      <4>3. ZeroNodes[k + 1] = NodeHash(ZeroNodes[k], ZeroNodes[k])
        BY <2>1, ZeroNodesEquation
      <4> QED
        BY <3>2, <3>5, <4>2, <4>3 DEF NodeAt
    <3> QED
      BY <3>4, <3>5
  <2>9. DOMAIN high \subseteq 0 .. size - 1
    BY <2>5, <2>6, <2>7
  <2>10. DOMAIN high = {} <=> DOMAIN leaves = {}
    BY <2>5, <2>6
  <2>11. SameLevel(k + 1)
    BY <2>8, <2>9, <2>10 DEF SameLevel, high, size
  <2> QED
    BY <2>1, <2>11
<1>3. Depth \in Nat
  OBVIOUS
<1> HIDE DEF S
<1>4. \A k \in 0 .. Depth : k \in S
  BY <1>1, <1>2, <1>3, InductionUpTo
<1> QED
  BY <1>4 DEF S

\* The root is the topmost node (Root).
LEMMA TopNode ==
    ASSUME Depth \in Nat, TreeInv
    PROVE  Root(leaves) = CompleteTree[Depth][0]
<1> DEFINE top == Levels(leaves)[Depth]
<1>1. Depth \in 0 .. Depth /\ Depth - Depth = 0 /\ 0 .. 1 - 1 = {0}
  OBVIOUS
<1>2. SameLevel(Depth) /\ TwoTo[Depth - Depth] = 1
  BY <1>1, LevelsAgree, TwoToEquation
<1>3. /\ DOMAIN top \subseteq {0}
      /\ DOMAIN top = {} <=> DOMAIN leaves = {}
      /\ NodeAt(top, 0, Depth) = CompleteTree[Depth][0]
  BY <1>1, <1>2 DEF SameLevel
<1> HIDE DEF top
<1>4. CASE DOMAIN leaves = {}
  BY <1>3, <1>4 DEF Root, NodeAt
<1>5. CASE DOMAIN leaves # {}
  <2>1. 0 \in DOMAIN top
    BY <1>3, <1>5
  <2> QED
    BY <1>3, <1>5, <2>1 DEF Root, NodeAt, top
<1> QED
  BY <1>4, <1>5

\* Halving the quotient halves what is left of the index.
LEMMA Halves ==
    ASSUME NEW i \in Nat, NEW m \in Nat \ {0}
    PROVE  (i \div m) \div 2 = i \div (2 * m)
<1> DEFINE q == i \div m
           r == q \div 2
           t == i \div (2 * m)
<1>1. q \in Nat /\ m * q <= i /\ i < m * (q + 1)
  OBVIOUS
<1>2. 2 * m \in Nat \ {0}
  OBVIOUS
<1>3. t \in Nat /\ (2 * m) * t <= i /\ i < (2 * m) * (t + 1)
  BY <1>2
<1> HIDE DEF q, t
<1>4. r \in Nat /\ 2 * r <= q /\ q + 1 <= 2 * (r + 1)
  BY <1>1
<1> HIDE DEF r
<1>5. m * (2 * r) <= m * q /\ m * (q + 1) <= m * (2 * (r + 1))
  BY <1>1, <1>4
<1>6. m * (2 * r) = (2 * m) * r /\ m * (2 * (r + 1)) = (2 * m) * (r + 1)
  BY <1>4
<1>7. (2 * m) * r < (2 * m) * (t + 1) /\ (2 * m) * t < (2 * m) * (r + 1)
  <2>1. (2 * m) * r <= i /\ i < (2 * m) * (r + 1)
    BY <1>1, <1>4, <1>5, <1>6
  <2> QED
    BY <1>2, <1>3, <1>4, <2>1
<1>8. r < t + 1 /\ t < r + 1
  <2>1. \A n \in Nat \ {0}, a, b \in Nat : n * a < n * b => a < b
    OBVIOUS
  <2> QED
    BY <1>2, <1>3, <1>4, <1>7, <2>1
<1>9. r = t
  BY <1>3, <1>4, <1>8
<1> QED
  BY <1>9 DEF q, r, t

\* Every proof leads to the root, whatever leaf it starts from (Proof,
\* PathRoot).
LEMMA PathsLeadToRoot ==
    ASSUME Depth \in Nat, TreeInv, NEW i \in Positions
    PROVE  PathRoot(LastReceived(i), i, Proof(leaves, i))
                = CompleteTree[Depth][0]
<1> DEFINE path == Proof(leaves, i)
           q(n) == i \div TwoTo[n]
<1>1. PICK h : /\ h[0] = LastReceived(i)
               /\ \A n \in 1 .. Depth : h[n] = Joined(i, h[n - 1], path[n], n)
               /\ PathRoot(LastReceived(i), i, path) = h[Depth]
  BY PathRootEquation
<1> DEFINE S == {n \in 0 .. Depth : /\ q(n) \in 0 .. TwoTo[Depth - n] - 1
                                    /\ h[n] = CompleteTree[n][q(n)]}
<1>2. i \in Nat
  BY PowersPositive DEF Positions
<1>3. 0 \in S
  <2>1. Depth - 0 = Depth /\ TwoTo[0] = 1 /\ i \div 1 = i
    BY <1>2, TwoToEquation
  <2>2. q(0) = i
    BY <2>1
  <2>3. q(0) \in 0 .. TwoTo[Depth - 0] - 1
    BY <2>1, <2>2 DEF Positions
  <2>4. CompleteTree[0][i] = LastReceived(i)
    BY <2>1, CompleteEquation DEF CompleteLevel, Positions
  <2>5. h[0] = CompleteTree[0][q(0)]
    BY <1>1, <2>2, <2>4
  <2> HIDE DEF q
  <2> QED
    BY <2>3, <2>5
<1>4. ASSUME NEW k \in 0 .. Depth, k \in S, k < Depth PROVE k + 1 \in S
  <2> DEFINE size == TwoTo[Depth - (k + 1)]
             low == q(k)
             high == q(k + 1)
             below == CompleteTree[k]
  <2>1. k + 1 \in 1 .. Depth /\ (k + 1) - 1 = k
    BY <1>4
  <2>2. size \in Nat /\ TwoTo[Depth - k] = 2 * size
    BY <2>1, LevelSizes
  <2>3. high = low \div 2
    <3>1. TwoTo[k] \in Nat \ {0} /\ TwoTo[k + 1] = 2 * TwoTo[k]
      BY <2>1, PowersPositive, TwoToEquation
    <3> QED
      BY <1>2, <3>1, Halves
  <2>4. low \in 0 .. 2 * size - 1 /\ h[k] = below[low]
    BY <1>4, <2>2
  <2>5. SameLevel(k)
    BY LevelsAgree
  <2>6. path[k + 1] = NodeAt(Levels(leaves)[k], Sibling(low), k)
    BY <2>1 DEF Proof
  <2>7. h[k + 1] = IF low % 2 = 0 THEN NodeHash(h[k], path[k + 1])
                   ELSE NodeHash(path[k + 1], h[k])
    BY <1>1, <2>1 DEF Joined
  <2>8. CompleteTree[k + 1] = CompleteLevel(below, k + 1)
    BY <2>1, CompleteEquation
  <2>9. high \in 0 .. size - 1
    <3> HIDE DEF low, high, size
    <3> QED
      BY <2>2, <2>3, <2>4
  <2>10. CompleteTree[k + 1][high] = NodeHash(below[2 * high], below[2 * high + 1])
    BY <2>1, <2>8, <2>9 DEF CompleteLevel
  <2>11. Sibling(low) \in 0 .. 2 * size - 1
         => path[k + 1] = below[Sibling(low)]
    BY <2>2, <2>5, <2>6 DEF SameLevel
  <2> HIDE DEF low, high, size, path, below
  <2>12. h[k + 1] = CompleteTree[k + 1][high]
    <3>1. CASE low % 2 = 0
      <4>1. low = 2 * high /\ Sibling(low) = 2 * high + 1
        BY <2>3, <2>4, <3>1 DEF Sibling
      <4>2. 2 * high + 1 \in 0 .. 2 * size - 1
        BY <2>2, <2>9
      <4> QED
        BY <2>4, <2>7, <2>10, <2>11, <3>1, <4>1, <4>2
    <3>2. CASE low % 2 # 0
      <4>1. low = 2 * high + 1 /\ Sibling(low) = 2 * high
        BY <2>3, <2>4, <3>2 DEF Sibling
      <4>2. 2 * high \in 0 .. 2 * size - 1
        BY <2>2, <2>9
      <4> QED
        BY <2>4, <2>7, <2>10, <2>11, <3>2, <4>1, <4>2
    <3> QED
      BY <3>1, <3>2
  <2> USE DEF high, size
  <2> HIDE DEF q
  <2> QED
    BY <2>1, <2>9, <2>12
<1>5. Depth \in S
  <2> HIDE DEF S
  <2> QED
    BY <1>3, <1>4, InductionUpTo
<1>6. q(Depth) = 0
  <2>1. Depth - Depth = 0 /\ TwoTo[0] = 1
    BY TwoToEquation
  <2> HIDE DEF q
  <2> QED
    BY <1>5, <2>1
<1>7. h[Depth] = CompleteTree[Depth][q(Depth)]
  BY <1>5
<1> HIDE DEF q
<1> QED
  BY <1>1, <1>6, <1>7

\* A set of places in a list has a last one.
LEMMA LastPlace ==
    ASSUME NEW n \in Nat, NEW A \in SUBSET (1 .. n), A # {}
    PROVE  \E m \in A : \A k \in A : k <= m
<1> DEFINE B == {n - k : k \in A}
<1>1. B \in SUBSET Nat /\ B # {}
  <2>1. \A k \in A : k \in 1 .. n /\ n - k \in Nat
    OBVIOUS
  <2>2. B \in SUBSET Nat
    BY <2>1
  <2>3. PICK k \in A : TRUE
    OBVIOUS
  <2>4. n - k \in B
    BY <2>3
  <2> QED
    BY <2>2, <2>4
<1> HIDE DEF B
<1>2. PICK b \in B : \A k \in B : b <= k
  BY <1>1, LeastNatural
<1>3. PICK m \in A : b = n - m
  BY <1>2 DEF B
<1>4. \A k \in A : n - k \in B
  BY DEF B
<1>5. \A k \in A : n - m <= n - k
  BY <1>2, <1>3, <1>4
<1>6. \A k \in A : k <= m
  BY <1>3, <1>5
<1> QED
  BY <1>6

\* A further coin is the last one for its position and leaves the others.
LEMMA LastAppended ==
    ASSUME received \in Seq(ZswapCoins), NEW coin \in ZswapCoins,
           received' = Append(received, coin)
    PROVE  \A i : LastReceived(i)' = IF i = coin.merkle_tree_index THEN coin.note
                                           ELSE LastReceived(i)
<1> DEFINE n == Len(received)
<1>1. /\ n \in Nat /\ DOMAIN received = 1 .. n
      /\ received' \in Seq(ZswapCoins)
      /\ DOMAIN received' = 1 .. n + 1
      /\ received'[n + 1] = coin
      /\ \A k \in 1 .. n : received'[k] = received[k]
  OBVIOUS
<1> HIDE DEF n
<1> SUFFICES ASSUME NEW i
             PROVE  LastReceived(i)' = IF i = coin.merkle_tree_index THEN coin.note
                                             ELSE LastReceived(i)
  OBVIOUS
<1> DEFINE at == {k \in DOMAIN received : received[k].merkle_tree_index = i}
           after == {k \in DOMAIN received' : received'[k].merkle_tree_index = i}
           last(A) == CHOOSE k \in A : \A m \in A : m <= k
<1>2. /\ LastReceived(i) = IF at = {} THEN Zero ELSE received[last(at)].note
      /\ LastReceived(i)' = IF after = {} THEN Zero ELSE received'[last(after)].note
  BY DEF LastReceived
<1>3. CASE i = coin.merkle_tree_index
  <2>1. n + 1 \in after /\ after \subseteq 1 .. n + 1
    BY <1>1, <1>3
  <2> HIDE DEF after
  <2>2. \A k \in after : (\A m \in after : m <= k) <=> k = n + 1
    BY <1>1, <2>1
  <2>3. last(after) = n + 1
    BY <2>1, <2>2
  <2> QED
    BY <1>1, <1>2, <1>3, <2>1, <2>3
<1>4. CASE i # coin.merkle_tree_index
  <2>1. after = at /\ at \subseteq 1 .. n
    BY <1>1, <1>4
  <2> HIDE DEF at, after
  <2>2. CASE at = {}
    BY <1>2, <1>4, <2>1, <2>2
  <2>3. CASE at # {}
    <3>1. last(at) \in at
      BY <1>1, <2>1, <2>3, LastPlace
    <3> QED
      BY <1>1, <1>2, <1>4, <2>1, <2>3, <3>1
  <2> QED
    BY <2>2, <2>3
<1> QED
  BY <1>3, <1>4

LEMMA InitTree == Depth \in Nat /\ ZswapInit => TreeInv
  BY DEF ZswapInit, TreeInv, LastReceived

LEMMA NextTree == TreeInv /\ [ZswapNext]_zswapVars => TreeInv'
<1> SUFFICES ASSUME TreeInv, [ZswapNext]_zswapVars PROVE TreeInv'
  OBVIOUS
<1>1. Positions' = Positions /\ ZswapCoins' = ZswapCoins
  BY DEF Positions, TwoTo, ZswapCoins
<1>2. ASSUME NEW coin \in ZswapCoins, AddCoin(coin) PROVE TreeInv'
  <2> DEFINE index == coin.merkle_tree_index
  <2>1. /\ received' = Append(received, coin)
        /\ leaves' = Insert(leaves, index, coin.note)
    BY <1>2 DEF AddCoin
  <2>2. received' \in Seq(ZswapCoins)
    BY <2>1 DEF TreeInv
  <2>3. index \in Nat
    BY ZswapAssumption DEF ZswapCoins
  <2>4. \A i : LastReceived(i)' = IF i = index THEN coin.note ELSE LastReceived(i)
    BY <2>1, LastAppended DEF TreeInv
  <2>5. TwoTo[Depth] \in Nat
    BY PowersPositive, ZswapAssumption
  <2> HIDE DEF index
  <2>6. CASE index >= TwoTo[Depth]
    <3>1. leaves' = leaves
      BY <2>1, <2>6 DEF Insert
    <3>2. index \notin Positions
      BY <2>3, <2>5, <2>6 DEF Positions
    <3> QED
      BY <1>1, <2>2, <2>4, <3>1, <3>2 DEF TreeInv
  <2>7. CASE ~(index >= TwoTo[Depth])
    <3>1. leaves' = [i \in DOMAIN leaves \cup {index} |-> IF i = index THEN coin.note ELSE leaves[i]]
      BY <2>1, <2>7 DEF Insert
    <3>2. index \in Positions
      BY <2>3, <2>5, <2>7 DEF Positions
    <3> QED
      BY <1>1, <2>2, <2>4, <3>1, <3>2 DEF TreeInv
  <2> QED
    BY <2>6, <2>7
<1>3. ASSUME UNCHANGED <<leaves, received>> PROVE TreeInv'
  <2>1. \A i : LastReceived(i)' = LastReceived(i)
    BY <1>3 DEF LastReceived
  <2> QED
    BY <1>1, <1>3, <2>1 DEF TreeInv
<1> QED
  BY <1>2, <1>3 DEF ZswapNext, MarkSpent, zswapVars

\* The leaves of every reachable tree are the coins received last for their
\* positions (ZswapLocalState.add_coin).
THEOREM TreeInvariant == ZswapSpec => []TreeInv
<1>1. ZswapInit => TreeInv
  BY InitTree, ZswapAssumption
<1> QED
  BY <1>1, NextTree, PTL DEF ZswapSpec

\* The sparse tree has the root of the complete tree over the coins received,
\* at every depth and for every order they come in (MerkleTree.insert, root).
THEOREM RootMatches == ZswapSpec => []RootIsComplete
<1>1. TreeInv => RootIsComplete
  BY TopNode, ZswapAssumption DEF RootIsComplete
<1> QED
  BY <1>1, TreeInvariant, PTL

\* At every position the proof leads from the coin received there to the root,
\* so every coin can be spent (MerkleTree.get_proof).
THEOREM ProofsLeadToRoot == ZswapSpec => []ProofsVerify
<1>1. TreeInv => ProofsVerify
  BY TopNode, PathsLeadToRoot, ZswapAssumption DEF ProofsVerify
<1> QED
  BY <1>1, TreeInvariant, PTL

-----------------------------------------------------------------------------
(* The sponge *)

\* The field's elements.
Element == 0 .. Modulus - 1

\* The S-box is a bijection of the field (sbox).
LEMMA SboxInjective ==
    \A x, y \in Element : Sbox(x) \in Element /\ (Sbox(x) = Sbox(y) => x = y)
<1>1. /\ Sbox(0) = 0 /\ Sbox(1) = 1 /\ Sbox(2) = 4 /\ Sbox(3) = 5
      /\ Sbox(4) = 2 /\ Sbox(5) = 3 /\ Sbox(6) = 6
  BY DEF Sbox, Fr, Modulus
<1>2. Element = {0, 1, 2, 3, 4, 5, 6}
  BY DEF Element, Modulus
<1> QED
  BY <1>1, <1>2

\* Every round has constants.
LEMMA ConstantsTyped ==
    \A n \in Nat : Constants(n)[1] \in Int /\ Constants(n)[2] \in Int /\ Constants(n)[3] \in Int
<1>1. \A i \in 1 .. Len(ROUND_CONSTANTS) : ROUND_CONSTANTS[i] \in Nat
  <2>1. ROUND_CONSTANTS \in Seq(Nat)
    BY DEF ROUND_CONSTANTS
  <2> QED
    BY <2>1
<1>2. Len(ROUND_CONSTANTS) \in Nat
  BY DEF ROUND_CONSTANTS
<1> SUFFICES ASSUME NEW n \in Nat
             PROVE  Constants(n)[1] \in Int /\ Constants(n)[2] \in Int /\ Constants(n)[3] \in Int
  OBVIOUS
<1>3. CASE n >= Len(ROUND_CONSTANTS)
  BY <1>3 DEF Constants
<1>4. CASE ~(n >= Len(ROUND_CONSTANTS))
  <2> DEFINE row == ROUND_CONSTANTS[n + 1]
  <2>1. row \in Nat
    BY <1>1, <1>2, <1>4
  <2>2. Constants(n) = <<row \div 100, (row \div 10) % 10, row % 10>>
    BY <1>4 DEF Constants
  <2> HIDE DEF row
  <2> QED
    BY <2>1, <2>2
<1> QED
  BY <1>3, <1>4

\* Reduction leads into the field.
LEMMA FrTyped == \A x \in Int : Fr(x) \in Element
  BY DEF Fr, Element, Modulus

\* A register has three elements.
LEMMA StateElements ==
    /\ \A s \in States : s = <<s[1], s[2], s[3]>>
                         /\ s[1] \in Element /\ s[2] \in Element /\ s[3] \in Element
    /\ \A a, b, c \in Element : <<a, b, c>> \in States
  BY DEF States, Element

\* The matrix has an inverse modulo 7, so a layer loses nothing (linear_layer).
LEMMA LayerInjective ==
    ASSUME NEW n \in Nat,
           NEW a \in Element, NEW b \in Element, NEW c \in Element,
           NEW d \in Element, NEW e \in Element, NEW f \in Element
    PROVE  /\ LinearLayer(a, b, c, n) \in States
           /\ LinearLayer(a, b, c, n) = LinearLayer(d, e, f, n) => a = d /\ b = e /\ c = f
<1> DEFINE k == Constants(n + 1)[1]
           l == Constants(n + 1)[2]
           m == Constants(n + 1)[3]
<1>1. k \in Int /\ l \in Int /\ m \in Int
  BY ConstantsTyped
<1> DEFINE X(x, y, z) == 0 * x + 1 * y + 2 * z + k
           Y(x, y, z) == 6 * x + 2 * y + 1 * z + l
           Z(x, y, z) == 2 * x + 3 * y + 6 * z + m
<1>2. \A x, y, z \in Element :
          LinearLayer(x, y, z, n) = <<Fr(X(x, y, z)), Fr(Y(x, y, z)), Fr(Z(x, y, z))>>
  BY DEF LinearLayer, MDS
<1> HIDE DEF k, l, m
<1>3. X(a, b, c) \in Int /\ Y(a, b, c) \in Int /\ Z(a, b, c) \in Int
  BY <1>1 DEF Element, Modulus
<1>4. ASSUME Fr(X(a, b, c)) = Fr(X(d, e, f)), Fr(Y(a, b, c)) = Fr(Y(d, e, f)),
             Fr(Z(a, b, c)) = Fr(Z(d, e, f))
      PROVE  a = d /\ b = e /\ c = f
  BY <1>1, <1>4, SMTT(60) DEF Fr, Element, Modulus
<1> HIDE DEF X, Y, Z
<1>5. LinearLayer(a, b, c, n) \in States
  <2>1. /\ Fr(X(a, b, c)) \in Element /\ Fr(Y(a, b, c)) \in Element
        /\ Fr(Z(a, b, c)) \in Element
    BY <1>3, FrTyped
  <2>2. LinearLayer(a, b, c, n) = <<Fr(X(a, b, c)), Fr(Y(a, b, c)), Fr(Z(a, b, c))>>
    BY <1>2
  <2> QED
    BY <2>1, <2>2, StateElements
<1>6. LinearLayer(a, b, c, n) = LinearLayer(d, e, f, n)
      => /\ Fr(X(a, b, c)) = Fr(X(d, e, f)) /\ Fr(Y(a, b, c)) = Fr(Y(d, e, f))
         /\ Fr(Z(a, b, c)) = Fr(Z(d, e, f))
  BY <1>2
<1> QED
  BY <1>4, <1>5, <1>6

\* No round loses anything, full or partial.
LEMMA RoundInjective ==
    ASSUME NEW n \in 0 .. Rounds - 1, NEW s \in States, NEW t \in States
    PROVE  Round[n][s] \in States /\ (Round[n][s] = Round[n][t] => s = t)
<1>1. n \in Nat
  BY DEF Rounds, FULL_ROUNDS, PARTIAL_ROUNDS
<1> DEFINE a(u) == IF IsFull(n) THEN Sbox(u[1]) ELSE u[1]
           b(u) == IF IsFull(n) THEN Sbox(u[2]) ELSE u[2]
           c(u) == Sbox(u[3])
<1>2. \A u \in States : Round[n][u] = LinearLayer(a(u), b(u), c(u), n)
  BY DEF Round
<1>3. \A u \in States : a(u) \in Element /\ b(u) \in Element /\ c(u) \in Element
  BY StateElements, SboxInjective
<1>4. a(s) = a(t) /\ b(s) = b(t) /\ c(s) = c(t) => s = t
  <2>1. /\ s = <<s[1], s[2], s[3]>> /\ t = <<t[1], t[2], t[3]>>
        /\ s[1] \in Element /\ s[2] \in Element /\ s[3] \in Element
        /\ t[1] \in Element /\ t[2] \in Element /\ t[3] \in Element
    BY StateElements
  <2>2. ASSUME a(s) = a(t), b(s) = b(t), c(s) = c(t)
        PROVE  s[1] = t[1] /\ s[2] = t[2] /\ s[3] = t[3]
    BY <2>1, <2>2, SboxInjective
  <2> QED
    BY <2>1, <2>2
<1> HIDE DEF a, b, c
<1>5. /\ LinearLayer(a(s), b(s), c(s), n) \in States
      /\ LinearLayer(a(s), b(s), c(s), n) = LinearLayer(a(t), b(t), c(t), n)
         => a(s) = a(t) /\ b(s) = b(t) /\ c(s) = c(t)
  BY <1>1, <1>3, LayerInjective
<1> QED
  BY <1>2, <1>4, <1>5

\* Lanes are added to a register and can be taken off it.
LEMMA PlusInjective ==
    ASSUME NEW s \in States, NEW t \in States, NEW l, NEW k,
           l[1] \in Int /\ l[2] \in Int /\ l[3] \in Int,
           k \in States
    PROVE  /\ Plus(s, l) \in States
           /\ Plus(s, l) = Plus(t, l) => s = t
           /\ l \in States /\ Plus(s, l) = Plus(s, k) => l = k
           /\ l[3] = k[3] /\ s[3] # t[3] => Plus(s, l) # Plus(t, k)
<1>1. /\ s = <<s[1], s[2], s[3]>> /\ t = <<t[1], t[2], t[3]>> /\ k = <<k[1], k[2], k[3]>>
      /\ l \in States => /\ l = <<l[1], l[2], l[3]>>
                         /\ l[1] \in Element /\ l[2] \in Element /\ l[3] \in Element
      /\ s[1] \in Element /\ s[2] \in Element /\ s[3] \in Element
      /\ t[1] \in Element /\ t[2] \in Element /\ t[3] \in Element
      /\ k[1] \in Element /\ k[2] \in Element /\ k[3] \in Element
  BY StateElements
<1>2. Element \subseteq Int
  BY DEF Element, Modulus
<1>3. \A x, y \in Element : \A z \in Int : Fr(x + z) = Fr(y + z) => x = y
  BY DEF Fr, Element, Modulus
<1>4. \A x, y, z \in Element : Fr(z + x) = Fr(z + y) => x = y
  BY DEF Fr, Element, Modulus
<1>5. \A u, w : Plus(u, w) = <<Fr(u[1] + w[1]), Fr(u[2] + w[2]), Fr(u[3] + w[3])>>
  BY DEF Plus
<1>6. Plus(s, l) \in States
  <2>1. s[1] + l[1] \in Int /\ s[2] + l[2] \in Int /\ s[3] + l[3] \in Int
    BY <1>1, <1>2
  <2> QED
    BY <1>5, <2>1, FrTyped, StateElements
<1>7. ASSUME Plus(s, l) = Plus(t, l) PROVE s = t
  <2>1. /\ Fr(s[1] + l[1]) = Fr(t[1] + l[1]) /\ Fr(s[2] + l[2]) = Fr(t[2] + l[2])
        /\ Fr(s[3] + l[3]) = Fr(t[3] + l[3])
    BY <1>5, <1>7
  <2>2. s[1] = t[1] /\ s[2] = t[2] /\ s[3] = t[3]
    BY <1>1, <1>3, <2>1
  <2> QED
    BY <1>1, <2>2
<1>8. ASSUME l \in States, Plus(s, l) = Plus(s, k) PROVE l = k
  <2>1. /\ Fr(s[1] + l[1]) = Fr(s[1] + k[1]) /\ Fr(s[2] + l[2]) = Fr(s[2] + k[2])
        /\ Fr(s[3] + l[3]) = Fr(s[3] + k[3])
    BY <1>5, <1>8
  <2>2. l[1] = k[1] /\ l[2] = k[2] /\ l[3] = k[3]
    BY <1>1, <1>4, <1>8, <2>1
  <2> QED
    BY <1>1, <1>8, <2>2
<1>9. ASSUME l[3] = k[3], s[3] # t[3] PROVE Plus(s, l) # Plus(t, k)
  <2>1. Fr(s[3] + l[3]) # Fr(t[3] + l[3])
    BY <1>1, <1>3, <1>9
  <2> QED
    BY <1>5, <1>9, <2>1
<1> QED
  BY <1>6, <1>7, <1>8, <1>9

\* The register after each round is that round of the one before (permutation).
LEMMA PermutedEquation ==
    ASSUME NEW s
    PROVE  \E h : /\ h[0] = Plus(s, Constants(0))
                  /\ \A n \in 1 .. Rounds : h[n] = Round[n - 1][h[n - 1]]
                  /\ Permuted(s) = h[Rounds]
<1> DEFINE Eq(h, n) == h = [l \in 0 .. n |-> IF l = 0 THEN Plus(s, Constants(0))
                                             ELSE Round[l - 1][h[l - 1]]]
           S == {n \in 0 .. Rounds : \E h : Eq(h, n)}
<1>0. Rounds \in Nat
  BY DEF Rounds, FULL_ROUNDS, PARTIAL_ROUNDS
<1>1. 0 \in S
  <2>1. Eq([l \in 0 .. 0 |-> Plus(s, Constants(0))], 0)
    OBVIOUS
  <2> HIDE DEF Eq
  <2> QED
    BY <1>0, <2>1
<1>2. ASSUME NEW k \in 0 .. Rounds, k \in S, k < Rounds PROVE k + 1 \in S
  <2>1. PICK f : Eq(f, k)
    BY <1>2
  <2> DEFINE g == [l \in 0 .. (k + 1) |-> IF l = k + 1 THEN Round[k][f[k]] ELSE f[l]]
  <2>2. \A l \in 0 .. (k + 1) :
            g[l] = IF l = 0 THEN Plus(s, Constants(0)) ELSE Round[l - 1][g[l - 1]]
    <3> SUFFICES ASSUME NEW l \in 0 .. (k + 1)
                 PROVE  g[l] = IF l = 0 THEN Plus(s, Constants(0)) ELSE Round[l - 1][g[l - 1]]
      OBVIOUS
    <3>1. CASE l = k + 1
      <4>1. l # 0 /\ l - 1 = k /\ k \in 0 .. (k + 1) /\ k # k + 1
        BY <1>0, <3>1
      <4>2. g[l] = Round[k][f[k]] /\ g[k] = f[k]
        BY <3>1, <4>1
      <4> HIDE DEF g
      <4> QED
        BY <4>1, <4>2
    <3>2. CASE l # k + 1
      <4>1. l \in 0 .. k /\ (l # 0 => l - 1 \in 0 .. (k + 1) /\ l - 1 # k + 1)
        BY <1>0, <3>2
      <4>2. g[l] = f[l] /\ (l # 0 => g[l - 1] = f[l - 1])
        BY <3>2, <4>1
      <4>3. f[l] = IF l = 0 THEN Plus(s, Constants(0)) ELSE Round[l - 1][f[l - 1]]
        BY <2>1, <4>1
      <4> HIDE DEF g
      <4> QED
        BY <4>2, <4>3
    <3> QED
      BY <3>1, <3>2
  <2>3. Eq(g, k + 1)
    <3>1. g = [l \in 0 .. (k + 1) |-> g[l]]
      OBVIOUS
    <3> HIDE DEF g
    <3> QED
      BY <2>2, <3>1
  <2> HIDE DEF Eq
  <2> QED
    BY <1>0, <1>2, <2>3
<1>3. Rounds \in S
  <2> HIDE DEF S
  <2> QED
    BY <1>0, <1>1, <1>2, InductionUpTo
<1> DEFINE r == CHOOSE h : Eq(h, Rounds)
<1>4. Permuted(s) = r[Rounds]
  BY DEF Permuted
<1>5. Eq(r, Rounds)
  BY <1>3
<1> HIDE DEF r
<1> QED
  BY <1>0, <1>4, <1>5

\* The permutation is one: after every round two registers differ if they did
\* (permutation).
LEMMA PermutationInjective ==
    ASSUME NEW s \in States, NEW t \in States
    PROVE  Permutation[s] \in States /\ (Permutation[s] = Permutation[t] => s = t)
<1>1. PICK h : /\ h[0] = Plus(s, Constants(0))
               /\ \A n \in 1 .. Rounds : h[n] = Round[n - 1][h[n - 1]]
               /\ Permuted(s) = h[Rounds]
  BY PermutedEquation
<1>2. PICK g : /\ g[0] = Plus(t, Constants(0))
               /\ \A n \in 1 .. Rounds : g[n] = Round[n - 1][g[n - 1]]
               /\ Permuted(t) = g[Rounds]
  BY PermutedEquation
<1> DEFINE S == {n \in 0 .. Rounds : h[n] \in States /\ g[n] \in States /\ (h[n] = g[n] => s = t)}
<1>0. Rounds \in Nat
  BY DEF Rounds, FULL_ROUNDS, PARTIAL_ROUNDS
<1>3. 0 \in S
  <2>1. Constants(0)[1] \in Int /\ Constants(0)[2] \in Int /\ Constants(0)[3] \in Int
    BY ConstantsTyped
  <2> QED
    BY <1>0, <1>1, <1>2, <2>1, PlusInjective
<1>4. ASSUME NEW k \in 0 .. Rounds, k \in S, k < Rounds PROVE k + 1 \in S
  <2>1. k + 1 \in 1 .. Rounds /\ (k + 1) - 1 = k /\ k \in 0 .. Rounds - 1
    BY <1>0, <1>4
  <2>2. h[k + 1] = Round[k][h[k]] /\ g[k + 1] = Round[k][g[k]]
    BY <1>1, <1>2, <2>1
  <2> QED
    BY <1>4, <2>1, <2>2, RoundInjective
<1>5. Rounds \in S
  <2> HIDE DEF S
  <2> QED
    BY <1>0, <1>3, <1>4, InductionUpTo
<1> QED
  BY <1>1, <1>2, <1>5 DEF Permutation

\* After each chunk the register is the permutation of the one before with the
\* chunk added (SpongeCPU).
LEMMA RegisterEquation ==
    ASSUME NEW m, BlockCount(m) \in Nat
    PROVE  \E h : /\ h[0] = InitialRegister(m)
                  /\ \A n \in 1 .. BlockCount(m) : h[n] = Absorb(h[n - 1], Block(m, n))
                  /\ Register(m) = h[BlockCount(m)]
<1> DEFINE B == BlockCount(m)
           Eq(h, n) == h = [l \in 0 .. n |-> IF l = 0 THEN InitialRegister(m)
                                             ELSE Absorb(h[l - 1], Block(m, l))]
           S == {n \in 0 .. B : \E h : Eq(h, n)}
<1>1. 0 \in S
  <2>1. Eq([l \in 0 .. 0 |-> InitialRegister(m)], 0)
    OBVIOUS
  <2> HIDE DEF Eq
  <2> QED
    BY <2>1
<1>2. ASSUME NEW k \in 0 .. B, k \in S, k < B PROVE k + 1 \in S
  <2>1. PICK f : Eq(f, k)
    BY <1>2
  <2> DEFINE g == [l \in 0 .. (k + 1) |->
                     IF l = k + 1 THEN Absorb(f[k], Block(m, k + 1)) ELSE f[l]]
  <2>2. \A l \in 0 .. (k + 1) :
            g[l] = IF l = 0 THEN InitialRegister(m) ELSE Absorb(g[l - 1], Block(m, l))
    <3> SUFFICES ASSUME NEW l \in 0 .. (k + 1)
                 PROVE  g[l] = IF l = 0 THEN InitialRegister(m)
                               ELSE Absorb(g[l - 1], Block(m, l))
      OBVIOUS
    <3>1. CASE l = k + 1
      <4>1. l # 0 /\ l - 1 = k /\ k \in 0 .. (k + 1) /\ k # k + 1
        BY <3>1
      <4>2. g[l] = Absorb(f[k], Block(m, l)) /\ g[k] = f[k]
        BY <3>1, <4>1
      <4> HIDE DEF g
      <4> QED
        BY <4>1, <4>2
    <3>2. CASE l # k + 1
      <4>1. l \in 0 .. k /\ (l # 0 => l - 1 \in 0 .. (k + 1) /\ l - 1 # k + 1)
        BY <3>2
      <4>2. g[l] = f[l] /\ (l # 0 => g[l - 1] = f[l - 1])
        BY <3>2, <4>1
      <4>3. f[l] = IF l = 0 THEN InitialRegister(m) ELSE Absorb(f[l - 1], Block(m, l))
        BY <2>1, <4>1
      <4> HIDE DEF g
      <4> QED
        BY <4>2, <4>3
    <3> QED
      BY <3>1, <3>2
  <2>3. Eq(g, k + 1)
    <3>1. g = [l \in 0 .. (k + 1) |-> g[l]]
      OBVIOUS
    <3> HIDE DEF g
    <3> QED
      BY <2>2, <3>1
  <2> HIDE DEF Eq
  <2> QED
    BY <1>2, <2>3
<1>3. B \in S
  <2> HIDE DEF S
  <2> QED
    BY <1>1, <1>2, InductionUpTo
<1> DEFINE r == CHOOSE h : Eq(h, B)
<1>4. Register(m) = r[B]
  BY DEF Register
<1>5. Eq(r, B)
  BY <1>3
<1> HIDE DEF r
<1>6. r[0] = InitialRegister(m)
  BY <1>5
<1>7. \A n \in 1 .. B : r[n] = Absorb(r[n - 1], Block(m, n))
  BY <1>5
<1> QED
  BY <1>4, <1>6, <1>7

\* What is absorbed is a register, and leaves the capacity lane alone.
LEMMA BlocksTyped ==
    ASSUME NEW m \in Seq(Element)
    PROVE  /\ BlockCount(m) \in Nat
           /\ InitialRegister(m) \in States /\ InitialRegister(m)[3] = Fr(Len(m))
           /\ \A k \in 1 .. BlockCount(m) : Block(m, k) \in States /\ Block(m, k)[3] = 0
<1>1. Len(m) \in Nat /\ 0 \in Element /\ \A i \in 1 .. Len(m) : m[i] \in Element
  BY DEF Element, Modulus
<1>2. BlockCount(m) \in Nat
  BY <1>1 DEF BlockCount, RATE
<1>3. InitialRegister(m) \in States /\ InitialRegister(m)[3] = Fr(Len(m))
  BY <1>1, FrTyped, StateElements DEF InitialRegister
<1>4. ASSUME NEW k \in 1 .. BlockCount(m) PROVE Block(m, k) \in States /\ Block(m, k)[3] = 0
  <2> DEFINE lane(i) == IF RATE * (k - 1) + i <= Len(m) THEN m[RATE * (k - 1) + i] ELSE 0
  <2>1. \A i \in 1 .. 2 : RATE * (k - 1) + i \in Nat \ {0}
    BY <1>2 DEF RATE
  <2>2. lane(1) \in Element /\ lane(2) \in Element
    BY <1>1, <2>1
  <2>3. Block(m, k) = <<lane(1), lane(2), 0>>
    BY DEF Block
  <2> HIDE DEF lane
  <2> QED
    BY <1>1, <2>2, <2>3, StateElements
<1> QED
  BY <1>2, <1>3, <1>4

\* Different messages of one length differ in a chunk.
LEMMA DifferentChunks ==
    ASSUME NEW m \in Seq(Element), NEW n \in Seq(Element), Len(m) = Len(n), m # n
    PROVE  \E k \in 1 .. BlockCount(m) : Block(m, k) # Block(n, k)
<1>1. Len(m) \in Nat
  OBVIOUS
<1>2. PICK i \in 1 .. Len(m) : m[i] # n[i]
  BY SeqEqual
<1> DEFINE k == (i + 1) \div 2
<1>3. k \in 1 .. BlockCount(m) /\ (i = RATE * (k - 1) + 1 \/ i = RATE * (k - 1) + 2)
  BY <1>1 DEF BlockCount, RATE
<1> HIDE DEF k
<1>4. CASE i = RATE * (k - 1) + 1
  <2>1. Block(m, k)[1] = m[i] /\ Block(n, k)[1] = n[i]
    BY <1>1, <1>4 DEF Block
  <2> QED
    BY <1>2, <1>3, <2>1
<1>5. CASE i = RATE * (k - 1) + 2
  <2>1. Block(m, k)[2] = m[i] /\ Block(n, k)[2] = n[i]
    BY <1>1, <1>5 DEF Block
  <2> QED
    BY <1>2, <1>3, <2>1
<1> QED
  BY <1>3, <1>4, <1>5

\* What a chunk does to two registers.
LEMMA AbsorbSeparates ==
    ASSUME NEW s \in States, NEW t \in States, NEW l \in States, NEW k \in States
    PROVE  /\ Absorb(s, l) \in States
           /\ s # t => Absorb(s, l) # Absorb(t, l)
           /\ l # k => Absorb(s, l) # Absorb(s, k)
           /\ l[3] = k[3] /\ s[3] # t[3] => Absorb(s, l) # Absorb(t, k)
<1>1. /\ l[1] \in Int /\ l[2] \in Int /\ l[3] \in Int
      /\ k[1] \in Int /\ k[2] \in Int /\ k[3] \in Int
  BY StateElements, SMTT(30) DEF Element, Modulus
<1>2. /\ Plus(s, l) \in States /\ Plus(t, l) \in States
      /\ Plus(s, k) \in States /\ Plus(t, k) \in States
  BY <1>1, PlusInjective
<1>3. /\ s # t => Plus(s, l) # Plus(t, l)
      /\ l # k => Plus(s, l) # Plus(s, k)
      /\ l[3] = k[3] /\ s[3] # t[3] => Plus(s, l) # Plus(t, k)
  BY <1>1, PlusInjective
<1> QED
  BY <1>2, <1>3, PermutationInjective DEF Absorb

\* Comparable messages end in different registers.
LEMMA ComparableSeparated ==
    ASSUME NEW m \in Seq(Element), NEW n \in Seq(Element), Comparable(m, n)
    PROVE  Register(m) # Register(n)
<1> DEFINE B == BlockCount(m)
<1>1. B \in Nat /\ B = BlockCount(n) /\ Len(m) \in Nat /\ Len(n) \in Nat
  BY BlocksTyped DEF Comparable
<1>2. PICK h : /\ h[0] = InitialRegister(m)
               /\ \A k \in 1 .. B : h[k] = Absorb(h[k - 1], Block(m, k))
               /\ Register(m) = h[B]
  BY <1>1, RegisterEquation
<1>3. PICK g : /\ g[0] = InitialRegister(n)
               /\ \A k \in 1 .. B : g[k] = Absorb(g[k - 1], Block(n, k))
               /\ Register(n) = g[B]
  BY <1>1, RegisterEquation
<1>4. /\ h[0] \in States /\ g[0] \in States
      /\ h[0][3] = Fr(Len(m)) /\ g[0][3] = Fr(Len(n))
      /\ \A k \in 1 .. B : /\ Block(m, k) \in States /\ Block(n, k) \in States
                           /\ Block(m, k)[3] = Block(n, k)[3]
  BY <1>1, <1>2, <1>3, BlocksTyped
<1> HIDE DEF B
<1>5. ASSUME NEW k \in 0 .. B, k < B
      PROVE  /\ k + 1 \in 1 .. B
             /\ h[k + 1] = Absorb(h[k], Block(m, k + 1))
             /\ g[k + 1] = Absorb(g[k], Block(n, k + 1))
  <2>1. k + 1 \in 1 .. B /\ (k + 1) - 1 = k
    BY <1>1, <1>5
  <2> QED
    BY <1>2, <1>3, <2>1
<1>6. CASE Len(m) = Len(n)
  <2>1. PICK d \in 1 .. B : /\ Block(m, d) # Block(n, d)
                            /\ \A k \in 1 .. B : k # d => Block(m, k) = Block(n, k)
    <3> DEFINE D == Differing(m, n)
    <3>1. \A k : k \in D <=> k \in 1 .. B /\ Block(m, k) # Block(n, k)
      BY DEF Differing, B
    <3>2. PICK d \in 1 .. B : Block(m, d) # Block(n, d)
      BY <1>6, DifferentChunks DEF Comparable, B
    <3>3. D \subseteq {d}
      <4>1. CASE D \subseteq {1}
        BY <3>1, <3>2, <4>1
      <4>2. CASE Cardinality(D) = 1
        <5>1. IsFiniteSet(1 .. B) /\ D \in SUBSET (1 .. B)
          BY <1>1, <3>1, FS_Interval
        <5>2. IsFiniteSet(D)
          BY <5>1, FS_Subset
        <5>3. \E x : D = {x}
          BY <4>2, <5>2, FS_Singleton
        <5> QED
          BY <3>1, <3>2, <5>3
      <4> QED
        BY <4>1, <4>2 DEF Comparable
    <3> QED
      BY <3>1, <3>2, <3>3
  <2> DEFINE S == {k \in 0 .. B : /\ h[k] \in States /\ g[k] \in States
                                  /\ k < d => h[k] = g[k]
                                  /\ k >= d => h[k] # g[k]}
  <2>2. 0 \in S
    <3>1. h[0] = g[0]
      BY <1>2, <1>3, <1>6 DEF InitialRegister
    <3>2. 0 \in 0 .. B /\ 0 < d /\ ~(0 >= d)
      BY <1>1
    <3> QED
      BY <1>4, <3>1, <3>2
  <2>3. ASSUME NEW k \in 0 .. B, k \in S, k < B PROVE k + 1 \in S
    <3>1. /\ k + 1 \in 1 .. B
          /\ h[k + 1] = Absorb(h[k], Block(m, k + 1))
          /\ g[k + 1] = Absorb(g[k], Block(n, k + 1))
      BY <1>5, <2>3
    <3>2. Block(m, k + 1) \in States /\ Block(n, k + 1) \in States
      BY <1>4, <3>1
    <3>3. h[k + 1] \in States /\ g[k + 1] \in States
      BY <2>3, <3>1, <3>2, AbsorbSeparates
    <3>4. CASE k + 1 < d
      <4>1. k < d /\ Block(m, k + 1) = Block(n, k + 1)
        BY <1>1, <2>1, <3>1, <3>4
      <4> QED
        BY <1>1, <2>3, <3>1, <3>3, <3>4, <4>1
    <3>5. CASE k + 1 = d
      <4>1. h[k] = g[k] /\ Block(m, k + 1) # Block(n, k + 1)
        BY <1>1, <2>1, <2>3, <3>5
      <4>2. h[k + 1] # g[k + 1]
        BY <2>3, <3>1, <3>2, <4>1, AbsorbSeparates
      <4> QED
        BY <1>1, <3>1, <3>3, <3>5, <4>2
    <3>6. CASE k + 1 > d
      <4>1. h[k] # g[k] /\ Block(m, k + 1) = Block(n, k + 1)
        BY <1>1, <2>1, <2>3, <3>1, <3>6
      <4>2. h[k + 1] # g[k + 1]
        BY <2>3, <3>1, <3>2, <4>1, AbsorbSeparates
      <4> QED
        BY <1>1, <3>1, <3>3, <3>6, <4>2
    <3> QED
      BY <1>1, <3>4, <3>5, <3>6
  <2>4. B \in S
    <3>1. B \in Nat /\ B \in 0 .. B
      BY <1>1
    <3> HIDE DEF S
    <3>2. \A k \in 0 .. B : k \in S /\ k < B => k + 1 \in S
      BY <2>3
    <3> QED
      BY <2>2, <3>1, <3>2, InductionUpTo
  <2> QED
    BY <1>1, <1>2, <1>3, <2>1, <2>4
<1>7. CASE Len(m) # Len(n)
  <2>1. \A k \in 1 .. B : k # 1 => Block(m, k) = Block(n, k)
    BY <1>7 DEF Comparable, Differing, B
  <2>2. Fr(Len(m)) # Fr(Len(n))
    BY <1>1, <1>7 DEF B, BlockCount, RATE, Fr, Modulus
  <2> DEFINE S == {k \in 0 .. B : h[k] \in States /\ g[k] \in States /\ h[k] # g[k]}
  <2>3. 0 \in S
    BY <1>1, <1>4, <2>2
  <2>4. ASSUME NEW k \in 0 .. B, k \in S, k < B PROVE k + 1 \in S
    <3>1. /\ k + 1 \in 1 .. B
          /\ h[k + 1] = Absorb(h[k], Block(m, k + 1))
          /\ g[k + 1] = Absorb(g[k], Block(n, k + 1))
      BY <1>5, <2>4
    <3>2. /\ Block(m, k + 1) \in States /\ Block(n, k + 1) \in States
          /\ Block(m, k + 1)[3] = Block(n, k + 1)[3]
      BY <1>4, <3>1
    <3>3. h[k + 1] \in States /\ g[k + 1] \in States
      BY <2>4, <3>1, <3>2, AbsorbSeparates
    <3>4. h[k + 1] # g[k + 1]
      <4>1. CASE k = 0
        <5>1. h[k][3] # g[k][3]
          BY <1>4, <2>2, <4>1
        <5> QED
          BY <2>4, <3>1, <3>2, <5>1, AbsorbSeparates
      <4>2. CASE k # 0
        <5>1. Block(m, k + 1) = Block(n, k + 1)
          BY <1>1, <2>1, <3>1, <4>2
        <5> QED
          BY <2>4, <3>1, <3>2, <5>1, AbsorbSeparates
      <4> QED
        BY <4>1, <4>2
    <3> QED
      BY <1>1, <3>1, <3>3, <3>4
  <2>5. B \in S
    <3>1. B \in Nat /\ B \in 0 .. B
      BY <1>1
    <3> HIDE DEF S
    <3>2. \A k \in 0 .. B : k \in S /\ k < B => k + 1 \in S
      BY <2>4
    <3> QED
      BY <2>3, <3>1, <3>2, InductionUpTo
  <2> QED
    BY <1>2, <1>3, <2>5
<1> QED
  BY <1>6, <1>7

\* The message is one of those given, and the register is empty or its own.
SpongeInv == message \in Messages /\ register \in {Unhashed, Register(message)}

\* Whatever its length, a message ends in another register than one that differs
\* from it in one chunk, or in whether the last of the first chunk's lanes are
\* filled with zeros: no round of transient_hash loses what was absorbed.
THEOREM RegistersDiffer == SpongeSpec => []SpongeSeparates
<1>1. SpongeInit => SpongeInv
  BY DEF SpongeInit, SpongeInv
<1>2. SpongeInv /\ [SpongeNext]_spongeVars => SpongeInv'
  BY DEF SpongeInv, SpongeNext, TransientHash, spongeVars
<1>3. SpongeInv => SpongeSeparates
  <2>1. Messages \subseteq Seq(Element)
    BY PoseidonAssumption DEF Element
  <2> QED
    BY <2>1, ComparableSeparated DEF SpongeInv, SpongeSeparates
<1> QED
  BY <1>1, <1>2, <1>3, PTL DEF SpongeSpec

=============================================================================
