------------------------------ MODULE WalletSync ------------------------------
(***************************************************************************)
(* WalletSyncer: the balance query and the shielded session of the         *)
(* indexer, opened, streamed and closed in a finally, by concurrent calls  *)
(* that fail, lose answers or are cancelled at any await.                  *)
(***************************************************************************)
EXTENDS Integers, Sequences, SequencesExt

CONSTANTS
    Calls,     \* calls of sync_all and sync_shielded
    Coins,     \* shielded coins of the wallet
    MaxEvents  \* bound on the transactions the indexer streams

ASSUME SyncAssumption == IsFiniteSet(Coins) /\ MaxEvents \in Nat

\* retry(stop=stop_after_attempt(3)) on get_utxos
GetUtxosAttempts == 3

Errors == {"balance error", "open error", "stream error", "close error", "cancelled"}

VARIABLES
    pc,        \* the await each call is suspended at
    attempt,   \* failed requests of its balance query
    session,   \* its session at the indexer: "none", "lost" when it may be open
               \* and the call never had its id, "open" or "closed"
    read,      \* events of the subscription it has received
    coins,     \* local list of sync_coins
    pending,   \* how the try block ended, while the finally runs
    outcome,   \* "none", "ok" or one of Errors
    history,   \* the shielded transactions of the wallet: [found, spent]
    unspent    \* wallet.shielded_state.unspent_coins

locals == <<attempt, read, coins, pending>>
vars == <<pc, locals, session, outcome, history, unspent>>

Init ==
    /\ pc = [c \in Calls |-> "idle"]
    /\ attempt = [c \in Calls |-> 0]
    /\ session = [c \in Calls |-> "none"]
    /\ read = [c \in Calls |-> 0]
    /\ coins = [c \in Calls |-> <<>>]
    /\ pending = [c \in Calls |-> "none"]
    /\ outcome = [c \in Calls |-> "none"]
    /\ history = <<>>
    /\ unspent = {}

Goto(c, where) == pc' = [pc EXCEPT ![c] = where]
End(c, result) == Goto(c, "done") /\ outcome' = [outcome EXCEPT ![c] = result]

----------------------------------------------------------------------------
\* sync_all begins with the balance, sync_shielded with the session.
SyncAll(c) ==
    /\ pc[c] = "idle"
    /\ Goto(c, "balance")
    /\ UNCHANGED <<locals, session, outcome, history, unspent>>

SyncShielded(c) ==
    /\ pc[c] = "idle"
    /\ Goto(c, "open")
    /\ UNCHANGED <<locals, session, outcome, history, unspent>>

BalanceAnswered(c) ==
    /\ pc[c] = "balance"
    /\ Goto(c, "open")
    /\ UNCHANGED <<locals, session, outcome, history, unspent>>

\* A request fails; the last one allowed raises its exception.
BalanceFails(c) ==
    /\ pc[c] = "balance"
    /\ attempt' = [attempt EXCEPT ![c] = @ + 1]
    /\ IF attempt'[c] = GetUtxosAttempts
       THEN End(c, "balance error")
       ELSE UNCHANGED <<pc, outcome>>
    /\ UNCHANGED <<read, coins, pending, session, history, unspent>>

----------------------------------------------------------------------------
\* connect_wallet_session returns the session's id.
SessionOpened(c) ==
    /\ pc[c] = "open"
    /\ session' = [session EXCEPT ![c] = "open"]
    /\ Goto(c, "stream")
    /\ UNCHANGED <<locals, outcome, history, unspent>>

\* It raises or is cancelled before the try; the indexer may have opened it.
OpenFails(c, why) ==
    /\ pc[c] = "open"
    /\ \E s \in {"none", "lost"} : session' = [session EXCEPT ![c] = s]
    /\ End(c, why)
    /\ UNCHANGED <<locals, history, unspent>>

\* Faulty: the coins of an event take the place of those before (coins = ...).
EventReceivedReplaces(c) ==
    /\ pc[c] = "stream"
    /\ read[c] < Len(history)
    /\ read' = [read EXCEPT ![c] = @ + 1]
    /\ coins' = [coins EXCEPT ![c] = SetToSeq(history[read[c] + 1].found)]
    /\ UNCHANGED <<pc, attempt, pending, session, outcome, history, unspent>>

\* ShieldedTransactionFound; progress events change nothing.
EventReceived(c) ==
    /\ pc[c] = "stream"
    /\ read[c] < Len(history)
    /\ read' = [read EXCEPT ![c] = @ + 1]
    /\ coins' = [coins EXCEPT ![c] = @ \o SetToSeq(history[read[c] + 1].found)]
    /\ UNCHANGED <<pc, attempt, pending, session, outcome, history, unspent>>

\* Faulty: closes on `except Exception` and at the end, which a cancellation
\* passes by.
StreamEndsUncaught(c, how) ==
    /\ pc[c] = "stream"
    /\ IF how # "cancelled"
       THEN Goto(c, "close") /\ pending' = [pending EXCEPT ![c] = how] /\ outcome' = outcome
       ELSE End(c, how) /\ pending' = pending
    /\ UNCHANGED <<attempt, read, coins, session, history, unspent>>

\* The subscription completes, raises, or the call is cancelled: in every case
\* the finally closes the session.
StreamEnds(c, how) ==
    /\ pc[c] = "stream"
    /\ Goto(c, "close")
    /\ pending' = [pending EXCEPT ![c] = how]
    /\ UNCHANGED <<attempt, read, coins, session, outcome, history, unspent>>

\* Faulty: a return in the finally drops the exception of the stream.
SessionClosedReturns(c) ==
    /\ pc[c] = "close"
    /\ session' = [session EXCEPT ![c] = "closed"]
    /\ End(c, "ok")
    /\ UNCHANGED <<locals, history, unspent>>

\* disconnect_wallet_session returns; the try's own result goes on.
SessionClosed(c) ==
    /\ pc[c] = "close"
    /\ session' = [session EXCEPT ![c] = "closed"]
    /\ End(c, pending[c])
    /\ UNCHANGED <<locals, history, unspent>>

\* It raises or is cancelled, and takes the place of the try's result.
CloseFails(c, why) ==
    /\ pc[c] = "close"
    /\ \E s \in {"open", "closed"} : session' = [session EXCEPT ![c] = s]
    /\ End(c, why)
    /\ UNCHANGED <<locals, history, unspent>>

Cancelled(c) ==
    /\ pc[c] = "balance"
    /\ End(c, "cancelled")
    /\ UNCHANGED <<locals, session, history, unspent>>

----------------------------------------------------------------------------
Known == UNION {history[i].found : i \in DOMAIN history}
Spent == UNION {history[i].spent : i \in DOMAIN history}

\* A transaction of the wallet reaches the chain: it pays it, spends, or both.
NewTransaction ==
    /\ Len(history) < MaxEvents
    /\ \E found \in SUBSET (Coins \ Known), spent \in SUBSET (Known \ Spent) :
        /\ found \cup spent # {}
        /\ history' = Append(history, [found |-> found, spent |-> spent])
    /\ UNCHANGED <<pc, locals, session, outcome, unspent>>

CallStep(c) ==
    \/ SyncAll(c) \/ SyncShielded(c)
    \/ BalanceAnswered(c) \/ BalanceFails(c) \/ Cancelled(c)
    \/ SessionOpened(c) \/ EventReceived(c) \/ SessionClosed(c)
    \/ \E why \in {"open error", "cancelled"} : OpenFails(c, why)
    \/ \E how \in {"ok", "stream error", "cancelled"} : StreamEnds(c, how)
    \/ \E why \in {"close error", "cancelled"} : CloseFails(c, why)

Next == (\E c \in Calls : CallStep(c)) \/ NewTransaction

Spec == Init /\ [][Next]_vars

\* Every request is answered, fails or is cancelled; the subscription may
\* stay open for as long as the indexer likes.
FairSpec ==
    /\ Spec
    /\ \A c \in Calls : /\ WF_vars(pc[c] # "stream" /\ pc[c] # "idle" /\ CallStep(c))
                        /\ WF_vars(EventReceived(c))

----------------------------------------------------------------------------
(* Properties.                                                             *)

\* What the events a call has read pay the wallet, and spend of it.
FoundBy(c) == UNION {history[i].found : i \in 1 .. read[c]}
SpentBy(c) == UNION {history[i].spent : i \in 1 .. read[c]}

TypeOK ==
    /\ pc \in [Calls -> {"idle", "balance", "open", "stream", "close", "done"}]
    /\ attempt \in [Calls -> 0 .. GetUtxosAttempts]
    /\ session \in [Calls -> {"none", "lost", "open", "closed"}]
    /\ read \in [Calls -> 0 .. MaxEvents]
    /\ \A c \in Calls : coins[c] \in Seq(Coins) /\ read[c] <= Len(history)
    /\ pending \in [Calls -> {"none", "ok"} \cup Errors]
    /\ outcome \in [Calls -> {"none", "ok"} \cup Errors]
    /\ unspent \subseteq Coins

\* Whatever ends the stream, a cancellation included, a session whose id the
\* call had stays open at the indexer only when the close was reached and is
\* what went wrong.
SessionsClosed ==
    \A c \in Calls :
        pc[c] = "done" /\ session[c] = "open" =>
            /\ pending[c] # "none"
            /\ outcome[c] \in {"close error", "cancelled"}

\* Coins are returned only from a subscription that completed, with the session
\* closed: no unspent coin it found up to then is missing, and each is there
\* once.  Whether coins it saw spent are there too is CollectsUnspent's.
CoinsComplete ==
    \A c \in Calls :
        outcome[c] = "ok" =>
            /\ pending[c] = "ok"
            /\ session[c] = "closed"
            /\ ToSet(coins[c]) \subseteq FoundBy(c)
            /\ FoundBy(c) \ SpentBy(c) \subseteq ToSet(coins[c])
            /\ IsInjective(coins[c])

\* Once its subscription ended, a call ends, and it ends with an error when
\* the subscription did.
EndsAfterStream ==
    \A c \in Calls :
        /\ pc[c] = "close" ~> pc[c] = "done"
        /\ [](pending[c] \in Errors => outcome[c] # "ok")

\* wallet/sync.py:20 "Sync wallet balances and state from Indexer": the coins
\* found are in the wallet's state, where a shielded transfer selects from.
StateSynced ==
    \A c \in Calls : outcome[c] = "ok" => ToSet(coins[c]) \subseteq unspent

\* wallet/shielded.py:84 "Stream shielded transactions, collect unspent coins":
\* no coin is returned that a transaction of the same stream spent.
CollectsUnspent ==
    \A c \in Calls :
        outcome[c] = "ok" =>
            ToSet(coins[c]) \cap SpentBy(c) = {}
=============================================================================
