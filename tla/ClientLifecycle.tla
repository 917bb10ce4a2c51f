--------------------------- MODULE ClientLifecycle ---------------------------
(***************************************************************************)
(* NoxipherClient as a context manager: the connections its three clients  *)
(* open in connect() and close in disconnect(), and which of them stay     *)
(* open when an await of either raises or is cancelled.  A session is one  *)
(* `async with client`; sessions share the client object.                  *)
(***************************************************************************)
EXTENDS FiniteSets

CONSTANTS
    Sessions,  \* the `async with client` blocks of the program
    None       \* a handle attribute that is not set

\* Why a fresh connection belongs to one session: it is named by its service
\* and the session whose connect() created it.
Handle == {"node", "indexer", "proof"} \X Sessions

ASSUME LifecycleAssumption == None \notin Handle

VARIABLES
    pc,            \* per session: the await it is suspended at
    substrate,     \* NodeClient._substrate
    http_client,   \* IndexerClient._http_client
    proof_client,  \* ProofServerClient._client
    closing,       \* per session: the handle its pending close is bound to
    open,          \* the connections that hold a resource
    threads,       \* to_thread jobs whose awaiting task was cancelled
    lost,          \* history: dropped by a cancelled open or a failed close
    overwritten,   \* history: still open when a later connect() replaced it
    overlapped     \* history: a call was made while another was under way

vars == <<pc, substrate, http_client, proof_client, closing, open, threads,
          lost, overwritten, overlapped>>

handles == <<substrate, http_client, proof_client>>

AtRest == {"idle", "cut", "done"}
PC == AtRest \cup {"node", "indexer", "body",
                   "close_node", "close_indexer", "close_proof"}

Init ==
    /\ pc = [t \in Sessions |-> "idle"]
    /\ substrate = None
    /\ http_client = None
    /\ proof_client = None
    /\ closing = [t \in Sessions |-> None]
    /\ open = {}
    /\ threads = {}
    /\ lost = {}
    /\ overwritten = {}
    /\ overlapped = FALSE

Goto(t, where) == pc' = [pc EXCEPT ![t] = where]

\* A session that failed or ended has no task under way, so a connect() or a
\* disconnect() after it overlaps with nothing.
Overlaps(t) == \E u \in Sessions \ {t} : pc[u] \notin AtRest

----------------------------------------------------------------------------
(* connect(): __aexit__ is not called for a block that was not entered.    *)

\* __aenter__ is called; suspends in to_thread(SubstrateInterface).
Connect(t) ==
    /\ pc[t] = "idle"
    /\ Goto(t, "node")
    /\ overlapped' = (overlapped \/ Overlaps(t))
    /\ UNCHANGED <<handles, closing, open, threads, lost, overwritten>>

\* Faulty: an attempt to reconnect only what is not connected.
NodeConnectedReusingClients(t) ==
    /\ pc[t] = "node"
    /\ substrate' = <<"node", t>>
    /\ open' = open \cup {<<"node", t>>}
    /\ http_client' = IF http_client = None THEN <<"indexer", t>> ELSE http_client
    /\ overwritten' = overwritten \cup ({substrate} \cap open)
    /\ Goto(t, "indexer")
    /\ UNCHANGED <<proof_client, closing, threads, lost, overlapped>>

\* The node answers; the indexer's client is created and its transport opened.
\* Neither connect() looks at the handle it replaces: after a session that was
\* cut short and not disconnected, its connections are out of reach.
NodeConnected(t) ==
    /\ pc[t] = "node"
    /\ substrate' = <<"node", t>>
    /\ open' = open \cup {<<"node", t>>}
    /\ http_client' = <<"indexer", t>>
    /\ overwritten' = overwritten \cup ({substrate, http_client} \cap open)
    /\ Goto(t, "indexer")
    /\ UNCHANGED <<proof_client, closing, threads, lost, overlapped>>

NodeFails(t) ==
    /\ pc[t] = "node"
    /\ Goto(t, "cut")
    /\ UNCHANGED <<handles, closing, open, threads, lost, overwritten, overlapped>>

\* Cancellation reaches the task, never the thread that is connecting.
NodeCancelled(t) ==
    /\ pc[t] = "node"
    /\ threads' = threads \cup {<<"open", <<"node", t>>>>}
    /\ lost' = lost \cup {<<"node", t>>}
    /\ Goto(t, "cut")
    /\ UNCHANGED <<handles, closing, open, overwritten, overlapped>>

\* The transport is open; the proof client is made without a further await.
IndexerEntered(t) ==
    /\ pc[t] = "indexer"
    /\ open' = open \cup {<<"indexer", t>>, <<"proof", t>>}
    /\ proof_client' = <<"proof", t>>
    /\ overwritten' = overwritten \cup ({proof_client} \cap open)
    /\ Goto(t, "body")
    /\ UNCHANGED <<substrate, http_client, closing, threads, lost, overlapped>>

\* It raises or is cancelled, before or after the connection was made.
IndexerFails(t) ==
    /\ pc[t] = "indexer"
    /\ open' \in {open, open \cup {<<"indexer", t>>}}
    /\ Goto(t, "cut")
    /\ UNCHANGED <<handles, closing, threads, lost, overwritten, overlapped>>

----------------------------------------------------------------------------
(* disconnect(): each close skips a handle that is not set.  The handle is *)
(* read when the close is called, the attribute may change before it ends. *)

CloseProof(t) ==
    IF proof_client # None
    THEN /\ closing' = [closing EXCEPT ![t] = proof_client]
         /\ Goto(t, "close_proof")
    ELSE /\ closing' = [closing EXCEPT ![t] = None]
         /\ Goto(t, "done")

CloseIndexer(t) ==
    IF http_client # None
    THEN /\ closing' = [closing EXCEPT ![t] = http_client]
         /\ Goto(t, "close_indexer")
    ELSE CloseProof(t)

\* Faulty: an early return when the node is not connected skips the other clients.
DisconnectNodeOnly(t) ==
    /\ pc[t] \in {"body", "cut"}
    /\ IF substrate # None
       THEN /\ closing' = [closing EXCEPT ![t] = substrate]
            /\ Goto(t, "close_node")
       ELSE /\ closing' = [closing EXCEPT ![t] = None]
            /\ Goto(t, "done")
    /\ overlapped' = (overlapped \/ Overlaps(t))
    /\ UNCHANGED <<handles, open, threads, lost, overwritten>>

\* The block is left, or the caller disconnects after a failure.
Disconnect(t) ==
    /\ pc[t] \in {"body", "cut"}
    /\ IF substrate # None
       THEN /\ closing' = [closing EXCEPT ![t] = substrate]
            /\ Goto(t, "close_node")
       ELSE CloseIndexer(t)
    /\ overlapped' = (overlapped \/ Overlaps(t))
    /\ UNCHANGED <<handles, open, threads, lost, overwritten>>

\* The close returns, or raises and is swallowed; then the attribute is reset.
NodeClosed(t) ==
    /\ pc[t] = "close_node"
    /\ \/ open' = open \ {closing[t]} /\ lost' = lost
       \/ open' = open /\ lost' = lost \cup {closing[t]}
    /\ substrate' = None
    /\ CloseIndexer(t)
    /\ UNCHANGED <<http_client, proof_client, threads, overwritten, overlapped>>

\* Faulty: a bare `except`, or a finally, resets the attribute on cancellation too,
\* when the abandoned close may still fail.
NodeCloseCancelledReset(t) ==
    /\ pc[t] = "close_node"
    /\ threads' = threads \cup {<<"close", closing[t]>>}
    /\ substrate' = None
    /\ closing' = [closing EXCEPT ![t] = None]
    /\ Goto(t, "cut")
    /\ UNCHANGED <<http_client, proof_client, open, lost, overwritten, overlapped>>

\* `except Exception` lets CancelledError through; the thread closes on.
NodeCloseCancelled(t) ==
    /\ pc[t] = "close_node"
    /\ threads' = threads \cup {<<"close", closing[t]>>}
    /\ closing' = [closing EXCEPT ![t] = None]
    /\ Goto(t, "cut")
    /\ UNCHANGED <<handles, open, lost, overwritten, overlapped>>

IndexerClosed(t) ==
    /\ pc[t] = "close_indexer"
    /\ open' = open \ {closing[t]}
    /\ CloseProof(t)
    /\ UNCHANGED <<handles, threads, lost, overwritten, overlapped>>

ProofClosed(t) ==
    /\ pc[t] = "close_proof"
    /\ open' = open \ {closing[t]}
    /\ closing' = [closing EXCEPT ![t] = None]
    /\ Goto(t, "done")
    /\ UNCHANGED <<handles, threads, lost, overwritten, overlapped>>

\* A close of the indexer or the proof client raises or is cancelled.
CloseFails(t) ==
    /\ pc[t] \in {"close_indexer", "close_proof"}
    /\ open' \in {open, open \ {closing[t]}}
    /\ closing' = [closing EXCEPT ![t] = None]
    /\ Goto(t, "cut")
    /\ UNCHANGED <<handles, threads, lost, overwritten, overlapped>>

----------------------------------------------------------------------------
\* A job nobody waits for ends: it did its work, or raised.
ThreadEnds ==
    /\ \E job \in threads :
        /\ threads' = threads \ {job}
        /\ open' \in {open, IF job[1] = "open" THEN open \cup {job[2]}
                                               ELSE open \ {job[2]}}
    /\ UNCHANGED <<pc, handles, closing, lost, overwritten, overlapped>>

ConnectStep(t) ==
    \/ Connect(t) \/ NodeConnected(t) \/ NodeFails(t) \/ NodeCancelled(t)
    \/ IndexerEntered(t) \/ IndexerFails(t)

DisconnectStep(t) ==
    \/ Disconnect(t) \/ NodeClosed(t) \/ NodeCloseCancelled(t)
    \/ IndexerClosed(t) \/ ProofClosed(t) \/ CloseFails(t)

Next == (\E t \in Sessions : ConnectStep(t) \/ DisconnectStep(t)) \/ ThreadEnds

Spec == Init /\ [][Next]_vars

----------------------------------------------------------------------------
(* Properties.                                                             *)

TypeOK ==
    /\ pc \in [Sessions -> PC]
    /\ substrate \in {None} \cup ({"node"} \X Sessions)
    /\ http_client \in {None} \cup ({"indexer"} \X Sessions)
    /\ proof_client \in {None} \cup ({"proof"} \X Sessions)
    /\ closing \in [Sessions -> Handle \cup {None}]
    /\ \A t \in Sessions :
        pc[t] = "close_node" => closing[t] \in {"node"} \X Sessions
    /\ open \subseteq Handle
    /\ threads \subseteq {"open", "close"} \X ({"node"} \X Sessions)
    /\ lost \subseteq ({"node"} \X Sessions)
    /\ overwritten \subseteq Handle
    /\ overlapped \in BOOLEAN

Held == {substrate, http_client, proof_client}

\* Connections no handle leads to, by what dropped them.
Dropped == lost \cup overwritten

\* While no two calls are under way at once, and whatever fails or is cancelled:
\* a connection that is still open is either held by the client, so that a
\* later disconnect() closes it, or was dropped by one of three causes: a
\* connect() cancelled inside SubstrateInterface, a node close that raised, or
\* a connect() repeated after a session that was cut short, which replaces the
\* handles without closing what they hold (node/client.py:63).
NothingElseDropped == ~overlapped => open \subseteq Held \cup Dropped

\* However often disconnect() had to be called: once every session that began
\* has ended in a completed disconnect(), only those connections are open.
ClosedWhenDone ==
    ~overlapped /\ (\A t \in Sessions : pc[t] \in {"idle", "done"})
        => open \subseteq Dropped

\* The body of a block runs on three open connections of its own, also in a
\* client that was used, cut short or disconnected before.
BodyConnected ==
    ~overlapped => \A t \in Sessions : pc[t] = "body" =>
        /\ Held = {<<"node", t>>, <<"indexer", t>>, <<"proof", t>>}
        /\ Held \subseteq open

\* docs/getting_started.md:38 "Context manager ensures connections are
\* properly closed": after the block no connection of its session is open.
ContextManagerCloses ==
    \A t \in Sessions :
        pc[t] \in {"cut", "done"} /\ threads = {} => ~ \E h \in open : h[2] = t

=============================================================================
