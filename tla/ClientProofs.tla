---------------------------- MODULE ClientProofs ----------------------------
(***************************************************************************)
(* What the client promises of its connections and of its clock:           *)
(* ClientLifecycle for any number of sessions, from one inductive          *)
(* invariant, and the wait for a receipt for every timeout, every set of   *)
(* request latencies and every time at which the indexer begins to show    *)
(* the transaction.                                                        *)
(***************************************************************************)
EXTENDS ClientLifecycle, ReceiptWait, TLAPS

-----------------------------------------------------------------------------
\* Connecting and disconnecting.

Busy(t) == pc[t] \notin AtRest

\* What the handles are and what may be open, at every await of a session
\* that runs alone.
Shape(t) ==
    /\ pc[t] = "indexer" =>
        /\ substrate = <<"node", t>>
        /\ http_client = <<"indexer", t>>
        /\ <<"node", t>> \in open
    /\ pc[t] = "body" =>
        /\ substrate = <<"node", t>>
        /\ http_client = <<"indexer", t>>
        /\ proof_client = <<"proof", t>>
        /\ Held \subseteq open
    /\ pc[t] = "close_node" => closing[t] = substrate
    /\ pc[t] = "close_indexer" => substrate = None /\ closing[t] = http_client
    /\ pc[t] = "close_proof" =>
        /\ substrate = None
        /\ closing[t] = proof_client
        /\ open \subseteq {proof_client} \cup Dropped

\* A session has left its body for good, or is about to.
Leaving(t) == pc[t] \in {"cut", "close_node", "close_indexer", "close_proof", "done"}

\* Cancelled jobs: an open is accounted for, a close belongs to a session
\* that has left its body for good.
ThreadsOK ==
    \A t \in Sessions :
        /\ <<"open", <<"node", t>>>> \in threads => <<"node", t>> \in lost
        /\ <<"close", <<"node", t>>>> \in threads => Leaving(t)

\* The node connection the client holds is of a session that made one.
NodeOwner ==
    \A t \in Sessions : substrate = <<"node", t>> => pc[t] \notin {"idle", "node"}

Alone ==
    /\ \A t, u \in Sessions : t # u => ~Busy(t) \/ ~Busy(u)
    /\ \A t \in Sessions : Shape(t)
    /\ (\A t \in Sessions : pc[t] \in {"idle", "done"}) => open \subseteq Dropped
    /\ open \subseteq Held \cup Dropped
    /\ ThreadsOK
    /\ NodeOwner

IInv == TypeOK /\ (~overlapped => Alone)

----------------------------------------------------------------------------
\* Every step keeps the attributes of the clients within their services.
LEMMA TypeStep == TypeOK /\ [Next]_vars => TypeOK'
<1> SUFFICES ASSUME TypeOK, [Next]_vars PROVE TypeOK'
    OBVIOUS
<1> USE DEF TypeOK, PC, AtRest, Handle, handles, Goto
<1>1. CASE UNCHANGED vars
    BY <1>1 DEF vars
<1>2. CASE ThreadEnds
    BY <1>2 DEF ThreadEnds
<1>3. ASSUME NEW t \in Sessions, ConnectStep(t) PROVE TypeOK'
    <2>1. CASE Connect(t)
        <3>1. overlapped' \in BOOLEAN
            BY <2>1 DEF Connect
        <3>2. pc' \in [Sessions -> PC] /\ pc'[t] = "node"
            BY <2>1 DEF Connect
        <3> QED
            BY <2>1, <3>1, <3>2 DEF Connect
    <2>5. CASE NodeFails(t)
        BY <2>5 DEF NodeFails
    <2>2. CASE NodeConnected(t)
        BY <2>2 DEF NodeConnected
    <2>3. CASE NodeCancelled(t)
        <3>1. threads' \subseteq {"open", "close"} \X ({"node"} \X Sessions)
            BY <2>3 DEF NodeCancelled
        <3> QED
            BY <2>3, <3>1 DEF NodeCancelled
    <2>4. CASE IndexerEntered(t) \/ IndexerFails(t)
        BY <2>4 DEF IndexerEntered, IndexerFails
    <2> QED
        BY <1>3, <2>1, <2>2, <2>3, <2>4, <2>5 DEF ConnectStep
<1>4. ASSUME NEW t \in Sessions, DisconnectStep(t) PROVE TypeOK'
    <2>1. CASE Disconnect(t)
        BY <2>1 DEF Disconnect, CloseIndexer, CloseProof
    <2>2. CASE NodeClosed(t)
        <3>1. closing[t] \in {"node"} \X Sessions
            BY <2>2 DEF NodeClosed
        <3>2. lost' \subseteq {"node"} \X Sessions /\ open' \subseteq Handle
            BY <2>2, <3>1 DEF NodeClosed
        <3> QED
            BY <2>2, <3>2 DEF NodeClosed, CloseIndexer, CloseProof
    <2>3. CASE NodeCloseCancelled(t)
        BY <2>3 DEF NodeCloseCancelled
    <2>4. CASE IndexerClosed(t)
        BY <2>4 DEF IndexerClosed, CloseProof
    <2>5. CASE ProofClosed(t)
        BY <2>5 DEF ProofClosed
    <2>6. CASE CloseFails(t)
        BY <2>6 DEF CloseFails
    <2> QED
        BY <1>4, <2>1, <2>2, <2>3, <2>4, <2>5, <2>6 DEF DisconnectStep
<1> QED
    BY <1>1, <1>2, <1>3, <1>4 DEF Next

----------------------------------------------------------------------------
\* Only the session that moves can disturb what holds of a lone session: the
\* others have no task under way before and after its step.
LEMMA Frame ==
    ASSUME TypeOK, Alone, NEW t \in Sessions,
           \A u \in Sessions \ {t} : ~Busy(u),
           NEW where \in PC \ {"idle"}, Goto(t, where),
           Shape(t)', ThreadsOK', NodeOwner',
           where = "done" => open' \subseteq Dropped',
           open' \subseteq Held' \cup Dropped'
    PROVE  Alone'
<1>1. /\ pc'[t] = where
      /\ \A u \in Sessions \ {t} : ~Busy(u) /\ pc'[u] = pc[u]
    BY DEF Goto, TypeOK
<1>2. \A u \in Sessions \ {t} : ~Busy(u)' /\ Shape(u)'
    BY <1>1 DEF Busy, Shape, AtRest
<1>3. (\A u \in Sessions : pc'[u] \in {"idle", "done"}) => where = "done"
    BY <1>1
<1> QED
    BY <1>1, <1>2, <1>3 DEF Alone

\* A session that begins finds no other under way.
LEMMA ConnectAlone ==
    ASSUME IInv, NEW t \in Sessions, Connect(t), ~overlapped'
    PROVE  Alone'
<1> USE DEF Connect, handles
<1>1. ~overlapped /\ Alone /\ \A u \in Sessions \ {t} : ~Busy(u)
    BY DEF IInv, Overlaps, Busy
<1>2. pc'[t] = "node" /\ \A u \in Sessions \ {t} : pc'[u] = pc[u]
    BY DEF Goto, IInv, TypeOK
<1>3. Shape(t)'
    BY <1>2 DEF Shape
<1>4. ThreadsOK' /\ NodeOwner'
    BY <1>1, <1>2 DEF Alone, ThreadsOK, NodeOwner, Leaving
<1>5. open' \subseteq Held' \cup Dropped'
    BY <1>1 DEF Alone, Held, Dropped
<1> QED
    BY <1>1, <1>3, <1>4, <1>5, Frame DEF IInv, PC

\* The other steps of connect().
LEMMA ConnectingAlone ==
    ASSUME TypeOK, Alone, NEW t \in Sessions, ConnectStep(t), ~Connect(t)
    PROVE  Alone'
<1> USE DEF TypeOK, Goto, handles, PC, AtRest, Handle
<1>0. /\ Busy(t) /\ Shape(t) /\ open \subseteq Held \cup Dropped
      /\ \A u \in Sessions \ {t} : ~Busy(u)
    <2>1. Busy(t)
        BY DEF ConnectStep, NodeConnected, NodeFails, NodeCancelled,
            IndexerEntered, IndexerFails, Busy
    <2> QED
        BY <2>1 DEF Alone
<1>1. CASE NodeConnected(t)
    <2> USE <1>1 DEF NodeConnected
    <2>1. pc'[t] = "indexer"
        OBVIOUS
    <2>2. Shape(t)'
        BY <2>1 DEF Shape
    <2>3. open' \subseteq Held' \cup Dropped'
        BY <1>0 DEF Held, Dropped
    <2>4. ThreadsOK' /\ NodeOwner'
        BY <2>1 DEF Alone, ThreadsOK, NodeOwner, Leaving
    <2> QED
        BY <1>0, <2>2, <2>3, <2>4, Frame
<1>2. CASE NodeFails(t)
    <2> USE <1>2 DEF NodeFails
    <2>1. pc'[t] = "cut"
        OBVIOUS
    <2>2. Shape(t)'
        BY <2>1 DEF Shape
    <2>3. open' \subseteq Held' \cup Dropped'
        BY <1>0 DEF Held, Dropped
    <2>4. ThreadsOK' /\ NodeOwner'
        BY <2>1 DEF Alone, ThreadsOK, NodeOwner, Leaving
    <2> QED
        BY <1>0, <2>2, <2>3, <2>4, Frame
<1>3. CASE NodeCancelled(t)
    <2> USE <1>3 DEF NodeCancelled
    <2>1. pc'[t] = "cut"
        OBVIOUS
    <2>2. Shape(t)'
        BY <2>1 DEF Shape
    <2>3. open' \subseteq Held' \cup Dropped'
        BY <1>0 DEF Held, Dropped
    <2>4. ThreadsOK' /\ NodeOwner'
        BY <2>1 DEF Alone, ThreadsOK, NodeOwner, Leaving
    <2> QED
        BY <1>0, <2>2, <2>3, <2>4, Frame
<1>4. CASE IndexerEntered(t)
    <2> USE <1>4 DEF IndexerEntered
    <2>1. pc'[t] = "body"
        OBVIOUS
    <2>2. Shape(t)'
        BY <1>0, <2>1 DEF Shape, Held
    <2>3. open' \subseteq Held' \cup Dropped'
        <3>1. http_client = <<"indexer", t>>
            BY <1>0 DEF Shape
        <3>2. open' = open \cup {http_client, proof_client'}
            BY <3>1
        <3>3. open \cap {proof_client} \subseteq Dropped' /\ Dropped \subseteq Dropped'
            BY DEF Dropped
        <3> QED
            BY <1>0, <3>2, <3>3 DEF Held
    <2>4. ThreadsOK' /\ NodeOwner'
        BY <2>1 DEF Alone, ThreadsOK, NodeOwner, Leaving
    <2> QED
        BY <1>0, <2>2, <2>3, <2>4, Frame
<1>5. CASE IndexerFails(t)
    <2> USE <1>5 DEF IndexerFails
    <2>1. pc'[t] = "cut"
        OBVIOUS
    <2>2. Shape(t)'
        BY <2>1 DEF Shape
    <2>3. open' \subseteq Held' \cup Dropped'
        <3>1. http_client = <<"indexer", t>>
            BY <1>0 DEF Shape
        <3>2. open' \subseteq open \cup {http_client}
            BY <3>1
        <3>3. Held' = Held /\ Dropped' = Dropped
            BY DEF Held, Dropped
        <3> QED
            BY <1>0, <3>2, <3>3 DEF Held
    <2>4. ThreadsOK' /\ NodeOwner'
        BY <2>1 DEF Alone, ThreadsOK, NodeOwner, Leaving
    <2> QED
        BY <1>0, <2>2, <2>3, <2>4, Frame
<1> QED
    BY <1>1, <1>2, <1>3, <1>4, <1>5 DEF ConnectStep

\* Where disconnect() goes on to from the proof client, and from the indexer:
\* what is skipped is not set, so nothing of it is open.
LEMMA AfterIndexer ==
    ASSUME TypeOK, TypeOK', NEW t \in Sessions, CloseProof(t),
           substrate' = None, proof_client' = proof_client,
           open' \subseteq {proof_client} \cup Dropped'
    PROVE  /\ pc'[t] \in {"close_proof", "done"} /\ Goto(t, pc'[t])
           /\ Shape(t)'
           /\ pc'[t] = "done" => open' \subseteq Dropped'
<1>1. None \notin open'
    BY LifecycleAssumption DEF TypeOK
<1>2. CASE proof_client # None
    <2>1. pc'[t] = "close_proof" /\ Goto(t, pc'[t]) /\ closing'[t] = proof_client
        BY <1>2 DEF CloseProof, Goto, TypeOK
    <2> QED
        BY <2>1 DEF Shape
<1>3. CASE proof_client = None
    <2>1. pc'[t] = "done" /\ Goto(t, pc'[t])
        BY <1>3 DEF CloseProof, Goto, TypeOK
    <2>2. open' \subseteq Dropped'
        BY <1>1, <1>3
    <2> QED
        BY <2>1, <2>2 DEF Shape
<1> QED
    BY <1>2, <1>3

LEMMA AfterNode ==
    ASSUME TypeOK, TypeOK', NEW t \in Sessions, CloseIndexer(t),
           substrate' = None,
           http_client' = http_client, proof_client' = proof_client,
           open' \subseteq {http_client, proof_client} \cup Dropped'
    PROVE  /\ pc'[t] \in {"close_indexer", "close_proof", "done"} /\ Goto(t, pc'[t])
           /\ Shape(t)'
           /\ pc'[t] = "done" => open' \subseteq Dropped'
<1>1. CASE http_client # None
    <2>1. pc'[t] = "close_indexer" /\ Goto(t, pc'[t]) /\ closing'[t] = http_client
        BY <1>1 DEF CloseIndexer, Goto, TypeOK
    <2> QED
        BY <1>1, <2>1 DEF Shape
<1>2. CASE http_client = None
    <2>1. None \notin open'
        BY LifecycleAssumption DEF TypeOK
    <2>2. open' \subseteq {proof_client} \cup Dropped'
        BY <1>2, <2>1
    <2> QED
        BY <1>2, <2>2, AfterIndexer DEF CloseIndexer
<1> QED
    BY <1>1, <1>2

\* A session that moves on through disconnect() keeps what the cancelled jobs
\* and the node handle are known by.
LEMMA LeavingKeeps ==
    ASSUME TypeOK, Alone, NEW t \in Sessions, NEW where, Goto(t, where),
           pc[t] \notin {"idle", "node"},
           where \in {"cut", "close_node", "close_indexer", "close_proof", "done"},
           threads' = threads, lost \subseteq lost', substrate' \in {None, substrate}
    PROVE  ThreadsOK' /\ NodeOwner'
<1>1. pc' = [pc EXCEPT ![t] = where] /\ pc'[t] = where /\ Leaving(t)'
    BY DEF Goto, TypeOK, Leaving
<1>2. \A u \in Sessions : Leaving(u) => Leaving(u)'
    BY <1>1 DEF Leaving, TypeOK
<1>3. ThreadsOK'
    BY <1>2 DEF Alone, ThreadsOK
<1>4. None \notin {"node"} \X Sessions
    BY LifecycleAssumption DEF Handle
<1>5. ASSUME NEW u \in Sessions, substrate' = <<"node", u>>
      PROVE  pc'[u] \notin {"idle", "node"}
    <2>1. substrate = <<"node", u>>
        BY <1>4, <1>5
    <2> QED
        BY <1>1, <2>1 DEF Alone, NodeOwner, TypeOK
<1> QED
    BY <1>3, <1>5 DEF NodeOwner

\* disconnect(), from its call to its return or to the await that raised.
LEMMA DisconnectAlone ==
    ASSUME TypeOK, TypeOK', Alone, NEW t \in Sessions, DisconnectStep(t),
           \A u \in Sessions \ {t} : ~Busy(u)
    PROVE  Alone'
<1> USE DEF handles
<1>0. Shape(t) /\ open \subseteq Held \cup Dropped /\ None \notin open
    BY LifecycleAssumption DEF Alone, TypeOK
<1>1. CASE Disconnect(t)
    <2> USE <1>1 DEF Disconnect
    <2>1. open' \subseteq Held' \cup Dropped'
        BY <1>0 DEF Held, Dropped
    <2>2. CASE substrate # None
        <3>1. /\ pc'[t] = "close_node" /\ Goto(t, "close_node")
              /\ closing'[t] = substrate
            BY <2>2 DEF Goto, TypeOK
        <3>2. Shape(t)'
            BY <3>1 DEF Shape
        <3>3. ThreadsOK' /\ NodeOwner'
            BY <3>1, LeavingKeeps
        <3> QED
            BY <2>1, <3>1, <3>2, <3>3, Frame DEF PC
    <2>3. CASE substrate = None
        <3>2. open \subseteq {http_client, proof_client} \cup Dropped
            BY <1>0, <2>3 DEF Held
        <3>3. /\ pc'[t] \in {"close_indexer", "close_proof", "done"}
              /\ Goto(t, pc'[t])
              /\ Shape(t)'
              /\ pc'[t] = "done" => open' \subseteq Dropped'
            BY <2>3, <3>2, AfterNode DEF Dropped
        <3>4. ThreadsOK' /\ NodeOwner'
            BY <3>3, LeavingKeeps
        <3>5. pc'[t] \in PC \ {"idle"}
            BY <3>3 DEF PC, AtRest
        <3> QED
            BY <2>1, <3>3, <3>4, <3>5, Frame
    <2> QED
        BY <2>2, <2>3
<1>2. CASE NodeClosed(t)
    <2> USE <1>2 DEF NodeClosed
    <2>1. closing[t] = substrate
        BY <1>0 DEF Shape
    <2>2. /\ open' \subseteq {http_client, proof_client} \cup Dropped'
          /\ lost \subseteq lost'
        BY <1>0, <2>1 DEF Held, Dropped
    <2>3. /\ pc'[t] \in {"close_indexer", "close_proof", "done"}
          /\ Goto(t, pc'[t])
          /\ Shape(t)'
          /\ pc'[t] = "done" => open' \subseteq Dropped'
        BY <2>2, AfterNode
    <2>4. ThreadsOK' /\ NodeOwner'
        BY <2>2, <2>3, LeavingKeeps
    <2>5. open' \subseteq Held' \cup Dropped'
        BY <2>2 DEF Held
    <2>6. pc'[t] \in PC \ {"idle"}
        BY <2>3 DEF PC, AtRest
    <2> QED
        BY <2>3, <2>4, <2>5, <2>6, Frame
<1>3. CASE NodeCloseCancelled(t)
    <2> USE <1>3 DEF NodeCloseCancelled
    <2>1. PICK u \in Sessions : closing[t] = <<"node", u>>
        BY DEF TypeOK
    <2>2. pc'[t] = "cut" /\ \A v \in Sessions \ {t} : pc'[v] = pc[v]
        BY DEF Goto, TypeOK
    <2>3. Shape(t)' /\ open' \subseteq Held' \cup Dropped'
        BY <1>0, <2>2 DEF Shape, Held, Dropped
    <2>4. Leaving(u)'
        <3>1. pc[u] \notin {"idle", "node"}
            BY <1>0, <2>1 DEF Alone, NodeOwner, Shape
        <3>2. u # t => pc[u] \in AtRest
            BY DEF Busy
        <3> QED
            BY <2>2, <3>1, <3>2 DEF Leaving, AtRest
    <2>5. threads' = threads \cup {<<"close", <<"node", u>>>>}
        BY <2>1
    <2>6. \A v \in Sessions : Leaving(v) => Leaving(v)'
        BY <2>2 DEF Leaving
    <2>7. ThreadsOK'
        BY <2>4, <2>5, <2>6 DEF Alone, ThreadsOK
    <2>8. NodeOwner'
        BY <2>2 DEF Alone, NodeOwner
    <2> QED
        BY <2>3, <2>7, <2>8, Frame DEF PC, AtRest
<1>4. CASE IndexerClosed(t)
    <2> USE <1>4 DEF IndexerClosed
    <2>1. closing[t] = http_client /\ substrate = None
        BY <1>0 DEF Shape
    <2>2. open' \subseteq {proof_client} \cup Dropped'
        BY <1>0, <2>1 DEF Held, Dropped
    <2>3. /\ pc'[t] \in {"close_proof", "done"} /\ Goto(t, pc'[t])
          /\ Shape(t)'
          /\ pc'[t] = "done" => open' \subseteq Dropped'
        BY <2>1, <2>2, AfterIndexer
    <2>4. ThreadsOK' /\ NodeOwner'
        BY <2>3, LeavingKeeps
    <2>5. open' \subseteq Held' \cup Dropped'
        BY <2>2 DEF Held
    <2>6. pc'[t] \in PC \ {"idle"}
        BY <2>3 DEF PC, AtRest
    <2> QED
        BY <2>3, <2>4, <2>5, <2>6, Frame
<1>5. CASE ProofClosed(t)
    <2> USE <1>5 DEF ProofClosed
    <2>1. open' \subseteq Dropped'
        BY <1>0 DEF Shape, Dropped
    <2>2. pc'[t] = "done"
        BY DEF Goto, TypeOK
    <2>3. Shape(t)'
        BY <2>2 DEF Shape
    <2>4. ThreadsOK' /\ NodeOwner'
        BY LeavingKeeps
    <2> QED
        BY <2>1, <2>3, <2>4, Frame DEF PC, AtRest
<1>6. CASE CloseFails(t)
    <2> USE <1>6 DEF CloseFails
    <2>1. pc'[t] = "cut"
        BY DEF Goto, TypeOK
    <2>2. Shape(t)' /\ open' \subseteq Held' \cup Dropped'
        BY <1>0, <2>1 DEF Shape, Held, Dropped
    <2>3. ThreadsOK' /\ NodeOwner'
        BY LeavingKeeps
    <2> QED
        BY <2>2, <2>3, Frame DEF PC, AtRest
<1> QED
    BY <1>1, <1>2, <1>3, <1>4, <1>5, <1>6 DEF DisconnectStep

\* A cancelled job ends: an open adds what is already counted lost, a close
\* takes away nothing a session still runs on.
LEMMA ThreadAlone ==
    ASSUME TypeOK, Alone, ThreadEnds
    PROVE  Alone'
<1>1. PICK job \in threads :
        /\ threads' = threads \ {job}
        /\ open' \in {open, IF job[1] = "open" THEN open \cup {job[2]}
                                               ELSE open \ {job[2]}}
    BY DEF ThreadEnds
<1>2. PICK u \in Sessions : job \in {<<"open", <<"node", u>>>>, <<"close", <<"node", u>>>>}
    BY DEF TypeOK
<1>3. /\ open' \subseteq open \cup lost
      /\ Leaving(u) \/ open \subseteq open'
      /\ open \subseteq open' \cup {<<"node", u>>}
    <2>1. open \subseteq Handle /\ "open" # "close"
        BY DEF TypeOK
    <2>2. CASE job = <<"open", <<"node", u>>>>
        <3>1. open' \in {open, open \cup {<<"node", u>>}} /\ <<"node", u>> \in lost
            BY <1>1, <2>2 DEF Alone, ThreadsOK
        <3> QED
            BY <3>1
    <2>3. CASE job = <<"close", <<"node", u>>>>
        <3>1. open' \in {open, open \ {<<"node", u>>}}
            BY <1>1, <2>1, <2>3
        <3>2. Leaving(u)
            BY <1>1, <2>3 DEF Alone, ThreadsOK
        <3> QED
            BY <3>1, <3>2
    <2> QED
        BY <1>2, <2>2, <2>3
<1>4. \A t \in Sessions : Shape(t)'
    <2> SUFFICES ASSUME NEW t \in Sessions PROVE Shape(t)'
        OBVIOUS
    <2>1. Shape(t) /\ UNCHANGED <<pc, handles, closing, lost, overwritten>>
        BY DEF Alone, ThreadEnds
    <2>2. pc[t] \in {"indexer", "body"} => Held \cap open \subseteq open'
        <3>1. CASE u = t
            BY <1>3, <3>1 DEF Leaving
        <3>2. CASE u # t
            <4>1. pc[t] \in {"indexer", "body"} => substrate # <<"node", u>>
                BY <2>1, <3>2 DEF Shape
            <4>2. <<"node", u>> # None
                BY LifecycleAssumption DEF Handle
            <4>3. http_client # <<"node", u>> /\ proof_client # <<"node", u>>
                BY <4>2 DEF TypeOK
            <4> QED
                BY <1>3, <4>1, <4>3 DEF Held
        <3> QED
            BY <3>1, <3>2
    <2> QED
        BY <1>3, <2>1, <2>2 DEF Shape, Held, Dropped, handles
<1>5. ThreadsOK' /\ NodeOwner'
    BY <1>1 DEF Alone, ThreadsOK, NodeOwner, Leaving, ThreadEnds, handles
<1> QED
    BY <1>3, <1>4, <1>5 DEF Alone, ThreadEnds, Busy, Held, Dropped, handles

----------------------------------------------------------------------------
\* IInv holds at the start and every step keeps it.
LEMMA InitIInv == Init => IInv
<1> SUFFICES ASSUME Init PROVE IInv
    OBVIOUS
<1>1. TypeOK
    BY DEF Init, TypeOK, PC, AtRest
<1>2. \A t \in Sessions : pc[t] = "idle"
    BY DEF Init
<1>3. \A t \in Sessions : ~Busy(t) /\ Shape(t)
    BY <1>2 DEF Busy, Shape, AtRest
<1>4. ThreadsOK
    BY DEF Init, ThreadsOK
<1>5. NodeOwner
    BY LifecycleAssumption DEF Init, NodeOwner, Handle
<1> QED
    BY <1>1, <1>3, <1>4, <1>5 DEF Init, IInv, Alone

LEMMA StepIInv == IInv /\ [Next]_vars => IInv'
<1> SUFFICES ASSUME IInv, [Next]_vars PROVE IInv'
    OBVIOUS
<1>1. TypeOK'
    BY TypeStep DEF IInv
<1> SUFFICES ASSUME ~overlapped' PROVE Alone'
    BY <1>1 DEF IInv
<1>2. CASE UNCHANGED vars
    BY <1>2 DEF vars, IInv, Alone, Busy, Shape, Held, Dropped, ThreadsOK,
        NodeOwner, Leaving
<1>3. CASE ThreadEnds
    BY <1>3, ThreadAlone DEF ThreadEnds, IInv
<1>4. ASSUME NEW t \in Sessions, ConnectStep(t) PROVE Alone'
    <2>1. CASE Connect(t)
        BY <2>1, ConnectAlone
    <2>2. CASE ~Connect(t)
        <3>1. ~overlapped
            BY <1>4, <2>2 DEF ConnectStep, NodeConnected, NodeFails,
                NodeCancelled, IndexerEntered, IndexerFails
        <3> QED
            BY <1>4, <2>2, <3>1, ConnectingAlone DEF IInv
    <2> QED
        BY <2>1, <2>2
<1>5. ASSUME NEW t \in Sessions, DisconnectStep(t) PROVE Alone'
    <2>1. ~overlapped
        BY <1>5 DEF DisconnectStep, Disconnect, NodeClosed, NodeCloseCancelled,
            IndexerClosed, ProofClosed, CloseFails
    <2>2. \A u \in Sessions \ {t} : ~Busy(u)
        <3>1. CASE Disconnect(t)
            BY <3>1 DEF Disconnect, Overlaps, Busy
        <3>2. CASE ~Disconnect(t)
            <4>1. Busy(t)
                BY <1>5, <3>2 DEF DisconnectStep, NodeClosed, NodeCloseCancelled,
                    IndexerClosed, ProofClosed, CloseFails, Busy, AtRest
            <4> QED
                BY <2>1, <4>1 DEF IInv, Alone
        <3> QED
            BY <3>1, <3>2
    <2> QED
        BY <1>1, <1>5, <2>1, <2>2, DisconnectAlone DEF IInv
<1> QED
    BY <1>2, <1>3, <1>4, <1>5 DEF Next

\* connect() and disconnect() keep every attribute within its service.
THEOREM LifecycleTypes == Spec => []TypeOK
<1>1. Spec => []IInv
    BY InitIInv, StepIInv, PTL DEF Spec
<1>2. IInv => TypeOK
    BY DEF IInv
<1> QED
    BY <1>1, <1>2, PTL

\* For any number of sessions one after the other, those that failed, were
\* cancelled or retried included: what is open is held by the client or was
\* dropped by a cancelled open, a failed close of the node or a repeated connect.
THEOREM NothingElseIsDropped == Spec => []NothingElseDropped
<1>1. Spec => []IInv
    BY InitIInv, StepIInv, PTL DEF Spec
<1>2. IInv => NothingElseDropped
    BY DEF IInv, Alone, NothingElseDropped
<1> QED
    BY <1>1, <1>2, PTL

\* Once every session that began has completed a disconnect(), only those
\* connections are open.
THEOREM DisconnectCloses == Spec => []ClosedWhenDone
<1>1. Spec => []IInv
    BY InitIInv, StepIInv, PTL DEF Spec
<1>2. IInv => ClosedWhenDone
    BY DEF IInv, Alone, ClosedWhenDone
<1> QED
    BY <1>1, <1>2, PTL

\* The body of a block runs on three open connections of its own.
THEOREM BodyIsConnected == Spec => []BodyConnected
<1>1. Spec => []IInv
    BY InitIInv, StepIInv, PTL DEF Spec
<1>2. IInv => BodyConnected
    BY DEF IInv, Alone, Shape, Held, BodyConnected
<1> QED
    BY <1>1, <1>2, PTL

-----------------------------------------------------------------------------
\* The wait for a receipt.


\* How long the retries of a poll have waited after n failures.
Waited(n) == IF n = 0 THEN 0 ELSE IF n = 1 THEN 1 ELSE 3

\* The clock at each position: a poll starts before the deadline, and takes at
\* most three requests and the waits between them.
ClockInv ==
    /\ phase = "request" => /\ attempt < GetTransactionsAttempts
                            /\ now < Timeout + attempt * MaxLatency + Waited(attempt)
    /\ phase = "sleep" => now < Timeout + 3 * MaxLatency + 3
    /\ OvershootBounded

\* After n delays, the time they took.
SpacingInv ==
    /\ retry_count = 1 => now >= 2
    /\ retry_count = 2 => now >= 6
    /\ retry_count = 3 => now >= 12
    /\ retry_count >= 4 => MaxDelay * retry_count <= now + 20

\* How long ago the last request was sent, at each position.
AskedInv ==
    /\ phase = "request" => now <= asked
    /\ phase = "sleep" => now <= asked + MaxLatency
    /\ phase = "check" => now <= asked + MaxLatency + MaxDelay
    /\ result = "TransactionTimeoutError" => phase = "done"
    /\ AskedNearDeadline

-----------------------------------------------------------------------------
LEMMA DelayBounds ==
    ASSUME NEW n \in Nat
    PROVE  /\ Delay(n) \in Nat /\ Delay(n) <= MaxDelay
           /\ n < 4 => Delay(n) = 2 * (n + 1)
           /\ n >= 4 => Delay(n) = MaxDelay
  BY DEF Delay, MaxDelay

LEMMA WaitNextType == WaitAssumption /\ WaitTypeOK /\ ClockInv /\ [WaitNext]_waitVars => WaitTypeOK'
<1> SUFFICES ASSUME WaitAssumption, WaitTypeOK, ClockInv, [WaitNext]_waitVars PROVE WaitTypeOK'
  OBVIOUS
<1>1. \A seconds \in Latencies : seconds \in Nat
  BY DEF WaitAssumption
<1>2. CASE Check
  BY <1>2 DEF Check, WaitTypeOK, GetTransactionsAttempts
<1>3. ASSUME NEW seconds \in Latencies, RequestAnswered(seconds) PROVE WaitTypeOK'
  <2>1. now \in Nat /\ seconds \in Nat /\ now + seconds \in Nat
    BY <1>1 DEF WaitTypeOK
  <2>2. now' \in Nat /\ swallowed' \in BOOLEAN
    BY <1>3, <2>1 DEF RequestAnswered
  <2>3. /\ phase' \in {"check", "request", "sleep", "done"}
        /\ result' \in {"none", "receipt", "TransactionTimeoutError"}
    BY <1>3 DEF RequestAnswered, WaitTypeOK
  <2> QED
    BY <1>3, <2>2, <2>3 DEF RequestAnswered, WaitTypeOK
<1>4. ASSUME NEW seconds \in Latencies, RequestFails(seconds) PROVE WaitTypeOK'
  <2>1. now \in Nat /\ seconds \in Nat /\ RetryWait(attempt + 1) \in Nat
    BY <1>1 DEF WaitTypeOK, RetryWait
  <2>2. now' \in Nat
    BY <1>4, <2>1 DEF RequestFails
  <2>3. attempt' \in 0 .. GetTransactionsAttempts
    BY <1>4 DEF RequestFails, WaitTypeOK, ClockInv, GetTransactionsAttempts
  <2>4. phase' \in {"check", "request", "sleep", "done"} /\ swallowed' \in BOOLEAN
    BY <1>4 DEF RequestFails, WaitTypeOK
  <2> QED
    BY <1>4, <2>2, <2>3, <2>4 DEF RequestFails, WaitTypeOK
<1>5. CASE Sleep
  BY <1>5, DelayBounds DEF Sleep, WaitTypeOK
<1>6. CASE UNCHANGED waitVars
  BY <1>6 DEF waitVars, WaitTypeOK
<1> QED
  BY <1>2, <1>3, <1>4, <1>5, <1>6 DEF WaitNext

LEMMA NextClock == WaitAssumption /\ WaitTypeOK /\ ClockInv /\ [WaitNext]_waitVars => ClockInv'
<1> SUFFICES ASSUME WaitAssumption, WaitTypeOK, ClockInv, [WaitNext]_waitVars PROVE ClockInv'
  OBVIOUS
<1>1. /\ Timeout \in Nat /\ MaxLatency \in Nat /\ now \in Nat
      /\ \A seconds \in Latencies : seconds \in Nat /\ seconds <= MaxLatency
  BY DEF WaitAssumption, WaitTypeOK
<1>2. CASE Check
  BY <1>1, <1>2 DEF Check, ClockInv, OvershootBounded, Waited, GetTransactionsAttempts, MaxDelay
<1>3. ASSUME NEW seconds \in Latencies, phase = "request"
      PROVE  /\ now + seconds < Timeout + 3 * MaxLatency + 3
             /\ attempt + 1 < GetTransactionsAttempts =>
                  now + seconds + RetryWait(attempt + 1)
                    < Timeout + (attempt + 1) * MaxLatency + Waited(attempt + 1)
  <2>1. attempt \in 0 .. 2 /\ now < Timeout + attempt * MaxLatency + Waited(attempt)
    BY <1>3 DEF ClockInv, WaitTypeOK, GetTransactionsAttempts
  <2>2. CASE attempt = 0
    BY <1>1, <2>1, <2>2 DEF Waited, RetryWait
  <2>3. CASE attempt = 1
    BY <1>1, <2>1, <2>3 DEF Waited, RetryWait
  <2>4. CASE attempt = 2
    BY <1>1, <2>1, <2>4 DEF Waited, GetTransactionsAttempts
  <2> QED
    BY <2>1, <2>2, <2>3, <2>4
<1>4. ASSUME NEW seconds \in Latencies, RequestAnswered(seconds) PROVE ClockInv'
  BY <1>1, <1>3, <1>4 DEF RequestAnswered, ClockInv, OvershootBounded, MaxDelay
<1>5. ASSUME NEW seconds \in Latencies, RequestFails(seconds) PROVE ClockInv'
  <2>1. CASE attempt + 1 < GetTransactionsAttempts
    <3>1. /\ phase' = "request" /\ attempt' = attempt + 1 /\ attempt \in 0 .. 1
          /\ now' = now + seconds + RetryWait(attempt + 1)
          /\ now' < Timeout + (attempt + 1) * MaxLatency + Waited(attempt + 1)
      BY <1>3, <1>5, <2>1 DEF RequestFails, WaitTypeOK, GetTransactionsAttempts
    <3>2. (attempt + 1) * MaxLatency <= 3 * MaxLatency /\ Waited(attempt + 1) <= 3
      BY <1>1, <3>1 DEF Waited
    <3>3. now' < Timeout + 3 * MaxLatency + 3 + MaxDelay
      BY <1>1, <3>1, <3>2 DEF MaxDelay, RetryWait, Waited
    <3> QED
      BY <2>1, <3>1, <3>3 DEF ClockInv, OvershootBounded
  <2>2. CASE attempt + 1 >= GetTransactionsAttempts
    BY <1>1, <1>3, <1>5, <2>2 DEF RequestFails, ClockInv, OvershootBounded, MaxDelay, WaitTypeOK,
                                  GetTransactionsAttempts
  <2> QED
    BY <2>1, <2>2 DEF WaitTypeOK, GetTransactionsAttempts
<1>6. CASE Sleep
  BY <1>1, <1>6, DelayBounds DEF Sleep, ClockInv, OvershootBounded, WaitTypeOK, MaxDelay
<1>7. CASE UNCHANGED waitVars
  BY <1>7 DEF waitVars, ClockInv, OvershootBounded
<1> QED
  BY <1>2, <1>4, <1>5, <1>6, <1>7 DEF WaitNext

LEMMA WaitInvariant == WaitSpec => [](WaitTypeOK /\ ClockInv)
<1>1. WaitInit => WaitTypeOK /\ ClockInv
  <2> SUFFICES ASSUME WaitInit PROVE WaitTypeOK /\ ClockInv
    OBVIOUS
  <2>1. WaitTypeOK
    <3>1. attempt \in 0 .. GetTransactionsAttempts /\ now \in Nat /\ retry_count \in Nat
      BY DEF WaitInit, GetTransactionsAttempts
    <3>2. swallowed \in BOOLEAN
      BY DEF WaitInit
    <3> QED
      BY <3>1, <3>2 DEF WaitInit, WaitTypeOK
  <2>2. OvershootBounded
    BY WaitAssumption DEF WaitInit, OvershootBounded, WaitAssumption, MaxDelay
  <2> QED
    BY <2>1, <2>2 DEF WaitInit, ClockInv
<1>2. (WaitTypeOK /\ ClockInv) /\ [WaitNext]_waitVars => (WaitTypeOK /\ ClockInv)'
  BY WaitAssumption, WaitNextType, NextClock
<1> QED
  BY <1>1, <1>2, PTL DEF WaitSpec

\* The state has the types of WaitTypeOK; in particular a poll makes at most
\* three requests.
THEOREM WaitTypes == WaitSpec => []WaitTypeOK
  BY WaitInvariant, PTL

\* The call outlasts its timeout by less than three of the slowest requests,
\* the waits between them and one delay.
THEOREM OvershootIsBounded == WaitSpec => []OvershootBounded
<1>1. ClockInv => OvershootBounded
  BY DEF ClockInv
<1> QED
  BY <1>1, WaitInvariant, PTL

-----------------------------------------------------------------------------
\* Whatever the timeout, the polls are ten seconds apart, but for 20 seconds.
THEOREM PollsAreSpaced == WaitSpec => []PollsSpaced
<1>1. WaitInit => SpacingInv
  BY DEF WaitInit, SpacingInv
<1>2. WaitTypeOK /\ SpacingInv /\ [WaitNext]_waitVars => SpacingInv'
  <2> SUFFICES ASSUME WaitTypeOK, SpacingInv, [WaitNext]_waitVars PROVE SpacingInv'
    OBVIOUS
  <2>1. retry_count \in Nat /\ now \in Nat
    BY DEF WaitTypeOK
  <2>2. ASSUME NEW passed \in Nat, now' = now + passed, retry_count' = retry_count
        PROVE  SpacingInv'
    BY <2>1, <2>2 DEF SpacingInv, MaxDelay
  <2>3. CASE Sleep
    <3>1. retry_count' = retry_count + 1 /\ now' = now + Delay(retry_count)
      BY <2>3 DEF Sleep
    <3>2. CASE retry_count \in 0 .. 3
      <4>1. now' = now + 2 * (retry_count + 1)
        BY <2>1, <3>1, <3>2, DelayBounds
      <4> QED
        BY <2>1, <3>1, <3>2, <4>1 DEF SpacingInv, MaxDelay
    <3>3. CASE retry_count >= 4
      BY <2>1, <3>1, <3>3, DelayBounds DEF SpacingInv, MaxDelay
    <3> QED
      BY <2>1, <3>2, <3>3
  <2>4. CASE \E seconds \in Latencies : RequestAnswered(seconds) \/ RequestFails(seconds)
    <3>1. PICK seconds \in Latencies : RequestAnswered(seconds) \/ RequestFails(seconds)
      BY <2>4
    <3>2. seconds \in Nat
      BY WaitAssumption DEF WaitAssumption
    <3>3. \E passed \in Nat : now' = now + passed
      <4>1. now' = now + seconds \/ now' = now + (seconds + RetryWait(attempt + 1))
        BY <2>1, <3>1, <3>2 DEF RequestAnswered, RequestFails, RetryWait
      <4>2. seconds + RetryWait(attempt + 1) \in Nat
        BY <3>2 DEF RetryWait
      <4> QED
        BY <3>2, <4>1, <4>2
    <3>4. retry_count' = retry_count
      BY <3>1 DEF RequestAnswered, RequestFails
    <3> QED
      BY <2>2, <3>3, <3>4
  <2>5. CASE Check \/ UNCHANGED waitVars
    BY <2>1, <2>2, <2>5 DEF Check, waitVars, SpacingInv, MaxDelay
  <2> QED
    BY <2>3, <2>4, <2>5 DEF WaitNext
<1>3. WaitTypeOK /\ SpacingInv => PollsSpaced
  <2> SUFFICES ASSUME WaitTypeOK, SpacingInv PROVE PollsSpaced
    OBVIOUS
  <2>1. retry_count \in Nat /\ now \in Nat
    BY DEF WaitTypeOK
  <2>2. CASE retry_count \in 0 .. 3
    BY <2>1, <2>2 DEF SpacingInv, PollsSpaced, MaxDelay
  <2>3. CASE retry_count >= 4
    BY <2>1, <2>3 DEF SpacingInv, PollsSpaced
  <2> QED
    BY <2>1, <2>2, <2>3
<1> QED
  BY <1>1, <1>2, <1>3, WaitInvariant, PTL DEF WaitSpec

\* Whatever the polls ended in, and for every timeout and latency, the last
\* request was sent at most one request and one delay before the deadline.
THEOREM LastPollIsLate == WaitSpec => []AskedNearDeadline
<1>1. WaitInit => AskedInv
  BY WaitAssumption DEF WaitInit, AskedInv, AskedNearDeadline, WaitAssumption, MaxDelay
<1>2. WaitTypeOK /\ AskedInv /\ [WaitNext]_waitVars => AskedInv'
  <2> SUFFICES ASSUME WaitTypeOK, AskedInv, [WaitNext]_waitVars PROVE AskedInv'
    OBVIOUS
  <2>1. /\ now \in Nat /\ asked \in Nat /\ Timeout \in Nat /\ MaxLatency \in Nat
        /\ retry_count \in Nat
        /\ \A seconds \in Latencies : seconds \in Nat /\ seconds <= MaxLatency
    BY WaitAssumption DEF WaitTypeOK, WaitAssumption
  <2>2. CASE Check
    BY <2>1, <2>2 DEF Check, AskedInv, AskedNearDeadline, MaxDelay
  <2>3. ASSUME NEW seconds \in Latencies, RequestAnswered(seconds) PROVE AskedInv'
    BY <2>1, <2>3 DEF RequestAnswered, AskedInv, AskedNearDeadline
  <2>4. ASSUME NEW seconds \in Latencies, RequestFails(seconds) PROVE AskedInv'
    <3>1. CASE phase' = phase
      <4>1. now' = now + seconds + RetryWait(attempt + 1) /\ asked' = now'
        BY <2>4, <3>1 DEF RequestFails
      <4>2. now' \in Nat
        BY <2>1, <4>1 DEF RetryWait
      <4> QED
        BY <2>4, <3>1, <4>1, <4>2 DEF RequestFails, AskedInv, AskedNearDeadline
    <3>2. CASE phase' = "sleep" /\ now' = now + seconds /\ asked' = asked
      BY <2>1, <2>4, <3>2 DEF RequestFails, AskedInv, AskedNearDeadline
    <3> QED
      BY <2>4, <3>1, <3>2 DEF RequestFails
  <2>5. CASE Sleep
    BY <2>1, <2>5, DelayBounds DEF Sleep, AskedInv, AskedNearDeadline, MaxDelay
  <2>6. CASE UNCHANGED waitVars
    BY <2>6 DEF waitVars, AskedInv, AskedNearDeadline
  <2> QED
    BY <2>2, <2>3, <2>4, <2>5, <2>6 DEF WaitNext
<1>3. AskedInv => AskedNearDeadline
  BY DEF AskedInv
<1> QED
  BY <1>1, <1>2, <1>3, WaitInvariant, PTL DEF WaitSpec

=============================================================================
