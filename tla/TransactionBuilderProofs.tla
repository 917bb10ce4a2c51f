---------------------- MODULE TransactionBuilderProofs ----------------------
(***************************************************************************)
(* What a caller of TransactionBuilder may rely on, for any number of      *)
(* concurrent calls, any wallet and any behaviour of the services: an      *)
(* exception that is safe to retry leaves nothing behind, a receipt tells  *)
(* the truth, and no UTXO is reported spent twice.                         *)
(***************************************************************************)
EXTENDS ContractService, OperatorProofs, FiniteSetTheorems, SequenceTheorems, TLAPS

\* One call: what its position says about the submission, and what its
\* result says about the wire and the chain.
CallOK(t) ==
    /\ pc[t] \in {"idle", "fetch", "health", "prove"} => wire[t] = "none"
    /\ pc[t] = "submit" => wire[t] # "none"
    /\ pc[t] = "wait" => wire[t] = "accepted"
    /\ pc[t] # "done" => result[t] = "none"
    /\ result[t] \in SafeToRetry => wire[t] \in {"none", "rejected"}
    /\ result[t] \in Statuses =>
          \E i \in 1 .. indexed : chain[i] = [task |-> t, status |-> result[t]]

CallInv == \A t \in Tasks : CallOK(t)

\* Two chain entries that took effect spent different UTXOs.
DisjointSpends ==
    \A i, j \in 1 .. Len(chain) :
        (i # j /\ chain[i].status \in Applied /\ chain[j].status \in Applied) =>
            offer[chain[i].task].inputs \cap offer[chain[j].task].inputs = {}

\* The node knows only what it accepted, and a transaction is in the pool or
\* on the chain, not both.
ChainInv ==
    /\ \A t \in pool : wire[t] = "accepted" /\ \A i \in 1 .. Len(chain) : chain[i].task # t
    /\ \A i \in 1 .. Len(chain) : wire[chain[i].task] = "accepted"
    /\ AppliedOnce
    /\ DisjointSpends

BuilderInv == TypeOK /\ CallInv /\ ChainInv

PCs == {"idle", "fetch", "health", "prove", "submit", "wait", "done"}

-----------------------------------------------------------------------------
\* What every operator that ends a call does to the variables it writes.
LEMMA RaiseType ==
    ASSUME TypeOK, NEW t \in Tasks, NEW e \in Statuses \cup Errors, Raise(t, e)
    PROVE  /\ pc' \in [Tasks -> PCs]
           /\ result' \in [Tasks -> {"none"} \cup Statuses \cup Errors]
           /\ attempts' \in [Tasks -> 0 .. 2]
           /\ since' \in [Tasks -> 0 .. indexed]
           /\ \A u \in Tasks : pc'[u] # "idle" => pc[u] # "idle" \/ u = t
           /\ pc'[t] = "done" /\ result'[t] = e
           /\ \A u \in Tasks \ {t} : pc'[u] = pc[u] /\ result'[u] = result[u]
  BY DEF Raise, TypeOK, PCs

\* Serialisation ends the call or puts its transaction on the wire.
LEMMA SerializeEffect ==
    ASSUME TypeOK, NEW t \in Tasks, NEW e, SerializeAndSubmit(t, e), pc[t] # "idle"
    PROVE  /\ pc' \in [Tasks -> PCs]
           /\ result' \in [Tasks -> {"none"} \cup Statuses \cup Errors]
           /\ attempts' \in [Tasks -> 0 .. 2]
           /\ since' \in [Tasks -> 0 .. indexed]
           /\ wire' \in [Tasks -> {"none", "sent", "accepted", "rejected"}]
           /\ DOMAIN offer' = Tasks
           /\ \A u \in Tasks : wire'[u] = "none" => offer'[u] = NoOffer
           /\ \A u \in Tasks : pc'[u] # "idle" => pc[u] # "idle"
           /\ \A u \in Tasks \ {t} : /\ pc'[u] = pc[u] /\ result'[u] = result[u]
                                     /\ wire'[u] = wire[u] /\ offer'[u] = offer[u]
           /\ \/ /\ pc'[t] = "done" /\ wire' = wire /\ offer' = offer
                 /\ result'[t] \in {"KeyError", "AttributeError", "ConnectionError"}
              \/ /\ pc'[t] = "submit" /\ wire'[t] = "sent" /\ result' = result
<1> DEFINE error == SerializeError(call[t].kind)
<1>1. error \in {"KeyError", "AttributeError", "none"}
  BY DEF SerializeError
<1>2. CASE error # "none" /\ Raise(t, error) /\ UNCHANGED <<wire, offer>>
  <2>1. error \in {"KeyError", "AttributeError"} /\ error \in Statuses \cup Errors
    BY <1>1, <1>2 DEF Errors
  <2> HIDE DEF error
  <2> QED
    BY <1>2, <2>1, RaiseType DEF TypeOK
<1>3. CASE error = "none" /\ ~connected /\ Raise(t, "ConnectionError") /\ UNCHANGED <<wire, offer>>
  <2>1. "ConnectionError" \in Statuses \cup Errors
    BY DEF Errors
  <2> HIDE DEF error
  <2> QED
    BY <1>3, <2>1, RaiseType DEF TypeOK
<1>4. CASE /\ offer' = [offer EXCEPT ![t] = e]
           /\ wire' = [wire EXCEPT ![t] = "sent"]
           /\ pc' = [pc EXCEPT ![t] = "submit"]
           /\ attempts' = [attempts EXCEPT ![t] = 0]
           /\ since' = [since EXCEPT ![t] = 0]
           /\ UNCHANGED result
  BY <1>4 DEF TypeOK, PCs
<1> QED
  BY <1>2, <1>3, <1>4 DEF SerializeAndSubmit

-----------------------------------------------------------------------------
\* The parts of TypeOK about one call and about the chain, for steps that
\* touch only one of them.
LEMMA TypeOfCallStep ==
    ASSUME TypeOK, NEW t \in Tasks, pc[t] # "idle",
           pc' \in [Tasks -> PCs],
           \A u \in Tasks : pc'[u] # "idle" => pc[u] # "idle",
           UNCHANGED call,
           attempts' \in [Tasks -> 0 .. 2],
           circuits' \in [Tasks -> Seq({"spend", "output"})],
           result' \in [Tasks -> {"none"} \cup Statuses \cup Errors],
           since' \in [Tasks -> 0 .. indexed],
           wire' \in [Tasks -> {"none", "sent", "accepted", "rejected"}],
           DOMAIN offer' = Tasks,
           \A u \in Tasks : wire'[u] = "none" => offer'[u] = NoOffer,
           UNCHANGED <<connected, network>>
    PROVE  TypeOK'
  BY DEF TypeOK, PCs, network

\* Every step of a call that is under way keeps the types.
LEMMA CallStepType ==
    ASSUME TypeOK, NEW t \in Tasks, CallStep(t)
    PROVE  TypeOK'
<1>1. pc[t] # "idle"
  BY DEF CallStep, FetchFails, FetchAnswered, HealthFails, HealthAnswered, ProofAnswered,
         ProofFails, SubmitAnswered, SubmitRejected, SubmitBreaks, PollFinds, WaitTimesOut
<1>2. /\ \A e \in {"TransactionError", "RetryError", "ProofError", "SocketError",
                   "TransactionTimeoutError"} : e \in Statuses \cup Errors
      /\ attempts \in [Tasks -> 0 .. 2] /\ circuits \in [Tasks -> Seq({"spend", "output"})]
      /\ pc \in [Tasks -> PCs] /\ since \in [Tasks -> 0 .. indexed]
  BY DEF Errors, TypeOK, PCs
<1>3. ASSUME NEW e \in Statuses \cup Errors, Raise(t, e),
             UNCHANGED <<call, circuits, offer, connected, wire, network>>
      PROVE  TypeOK'
  <2>1. wire' \in [Tasks -> {"none", "sent", "accepted", "rejected"}] /\ DOMAIN offer' = Tasks
        /\ \A u \in Tasks : wire'[u] = "none" => offer'[u] = NoOffer
    BY <1>3 DEF TypeOK
  <2>2. /\ pc' \in [Tasks -> PCs] /\ attempts' \in [Tasks -> 0 .. 2]
        /\ result' \in [Tasks -> {"none"} \cup Statuses \cup Errors]
        /\ since' \in [Tasks -> 0 .. indexed]
        /\ \A u \in Tasks : pc'[u] # "idle" => pc[u] # "idle"
    BY <1>1, <1>3, RaiseType
  <2>3. circuits' \in [Tasks -> Seq({"spend", "output"})]
    BY <1>2, <1>3
  <2> QED
    BY <1>1, <1>3, <2>1, <2>2, <2>3, TypeOfCallStep
<1>4. CASE FetchFails(t)
  <2>1. CASE Raise(t, "RetryError")
    BY <1>2, <1>3, <1>4, <2>1 DEF FetchFails
  <2>2. CASE /\ attempts[t] + 1 < GetUtxosAttempts
             /\ attempts' = [attempts EXCEPT ![t] = @ + 1]
             /\ since' = [since EXCEPT ![t] = indexed]
             /\ UNCHANGED <<pc, result>>
    <3>1. attempts[t] \in 0 .. 2 /\ attempts[t] + 1 \in 0 .. 2
      BY <1>2, <2>2 DEF GetUtxosAttempts
    <3>2. attempts' \in [Tasks -> 0 .. 2]
      BY <1>2, <2>2, <3>1
    <3>3. since' \in [Tasks -> 0 .. indexed]
      BY <1>2, <2>2 DEF TypeOK
    <3> QED
      BY <1>4, <2>2, <3>2, <3>3 DEF FetchFails, TypeOK, network
  <2> QED
    BY <1>4, <2>1, <2>2 DEF FetchFails
<1>5. CASE FetchAnswered(t)
  <2>1. CASE Raise(t, "TransactionError") /\ UNCHANGED <<wire, offer>>
    BY <1>2, <1>3, <1>5, <2>1 DEF FetchAnswered
  <2>2. CASE \E selected : SerializeAndSubmit(t, BuildOffer(t, selected))
    <3>1. PICK e : SerializeAndSubmit(t, e)
      BY <2>2
    <3>2. circuits' \in [Tasks -> Seq({"spend", "output"})] /\ UNCHANGED <<call, connected, network>>
      BY <1>2, <1>5 DEF FetchAnswered
    <3> QED
      BY <1>1, <3>1, <3>2, SerializeEffect, TypeOfCallStep
  <2>3. CASE /\ pc' = [pc EXCEPT ![t] = "health"]
             /\ attempts' = [attempts EXCEPT ![t] = 0]
             /\ since' = [since EXCEPT ![t] = 0]
             /\ UNCHANGED <<result, wire, offer>>
    BY <1>1, <1>5, <2>3 DEF FetchAnswered, TypeOK, network
  <2> QED
    BY <1>5, <2>1, <2>2, <2>3 DEF FetchAnswered
<1>6. CASE HealthFails(t)
  BY <1>2, <1>3, <1>6 DEF HealthFails
<1>7. CASE HealthAnswered(t)
  <2>1. circuits' \in [Tasks -> Seq({"spend", "output"})] /\ UNCHANGED <<call, connected, network>>
    BY <1>2, <1>7 DEF HealthAnswered
  <2>2. CASE SerializeAndSubmit(t, NoOffer)
    BY <1>1, <2>1, <2>2, SerializeEffect, TypeOfCallStep
  <2>3. CASE /\ pc' = [pc EXCEPT ![t] = "prove"]
             /\ UNCHANGED <<attempts, since, result, wire, offer>>
    BY <1>1, <2>1, <2>3 DEF TypeOK, network
  <2> QED
    BY <1>7, <2>2, <2>3 DEF HealthAnswered
<1>8. CASE ProofAnswered(t)
  <2>1. circuits' \in [Tasks -> Seq({"spend", "output"})] /\ UNCHANGED <<call, connected, network>>
    <3>1. circuits[t] \in Seq({"spend", "output"})
      BY <1>2
    <3>2. circuits[t] # <<>>
      BY <1>8 DEF ProofAnswered
    <3>3. Tail(circuits[t]) \in Seq({"spend", "output"})
      BY <3>1, <3>2
    <3> QED
      BY <1>2, <1>8, <3>3 DEF ProofAnswered
  <2>2. CASE SerializeAndSubmit(t, NoOffer)
    BY <1>1, <2>1, <2>2, SerializeEffect, TypeOfCallStep
  <2>3. CASE /\ attempts' = [attempts EXCEPT ![t] = 0]
             /\ UNCHANGED <<pc, since, result, wire, offer>>
    BY <1>1, <2>1, <2>3 DEF TypeOK, network
  <2> QED
    BY <1>8, <2>2, <2>3 DEF ProofAnswered
<1>9. CASE ProofFails(t)
  <2>1. CASE Raise(t, "RetryError")
    BY <1>2, <1>3, <1>9, <2>1 DEF ProofFails
  <2>2. CASE /\ attempts[t] + 1 < ProveAttempts
             /\ attempts' = [attempts EXCEPT ![t] = @ + 1]
             /\ UNCHANGED <<pc, result, since>>
    <3>1. attempts[t] \in 0 .. 2 /\ attempts[t] + 1 \in 0 .. 2
      BY <1>2, <2>2 DEF ProveAttempts
    <3>2. attempts' \in [Tasks -> 0 .. 2]
      BY <1>2, <2>2, <3>1
    <3> QED
      BY <1>9, <2>2, <3>2 DEF ProofFails, TypeOK, network
  <2> QED
    BY <1>9, <2>1, <2>2 DEF ProofFails
<1>10. CASE SubmitAnswered(t)
  BY <1>1, <1>10 DEF SubmitAnswered, TypeOK, network
<1>11. CASE SubmitRejected(t)
  BY <1>2, <1>3, <1>11 DEF SubmitRejected
<1>12. CASE SubmitBreaks(t)
  BY <1>2, <1>3, <1>12 DEF SubmitBreaks
<1>13. CASE PollFinds(t)
  <2>1. PICK i \in ShownAt(t) : Raise(t, chain[i].status)
    BY <1>13 DEF PollFinds
  <2>2. chain[i].status \in Statuses
    <3>1. i \in 1 .. Len(chain) /\ chain \in Seq(Entry)
      BY <2>1 DEF ShownAt, TypeOK
    <3>2. chain[i] \in Entry
      BY <3>1
    <3> QED
      BY <3>2 DEF Entry
  <2> QED
    BY <1>3, <1>13, <2>1, <2>2 DEF PollFinds
<1>14. CASE WaitTimesOut(t)
  BY <1>2, <1>3, <1>14 DEF WaitTimesOut
<1> QED
  BY <1>4, <1>5, <1>6, <1>7, <1>8, <1>9, <1>10, <1>11, <1>12, <1>13, <1>14
     DEF CallStep

\* The circuits of a shielded transfer: finitely many coins, then one or two
\* outputs.
LEMMA CircuitsType ==
    ASSUME BuilderAssumption, NEW amount, NEW coins \in GreedySelections(Coins, amount)
    PROVE  CircuitsFor(coins, amount) \in Seq({"spend", "output"})
<1>1. coins \in SUBSET Coins
  BY DEF GreedySelections
<1>2. Cardinality(coins) \in Nat
  BY <1>1, FS_Subset, FS_CardinalityType DEF BuilderAssumption
<1> DEFINE spends == [i \in 1 .. Cardinality(coins) |-> "spend"]
           rest == IF Total(coins) > amount THEN <<"output", "output">> ELSE <<"output">>
<1>3. spends \in Seq({"spend", "output"})
  BY <1>2
<1>4. rest \in Seq({"spend", "output"})
  <2>1. <<"output", "output">> \in Seq({"spend", "output"})
    OBVIOUS
  <2>2. <<"output">> \in Seq({"spend", "output"})
    OBVIOUS
  <2> QED
    BY <2>1, <2>2
<1>5. CircuitsFor(coins, amount) = spends \o rest
  BY DEF CircuitsFor
<1> HIDE DEF spends, rest
<1> QED
  BY <1>3, <1>4, <1>5, ConcatProperties

\* So does a call that begins.
LEMMA StartType ==
    ASSUME BuilderAssumption, TypeOK, NEW t \in Tasks, Start(t)
    PROVE  TypeOK'
<1>1. PICK amount \in Amounts, fee \in Fees, kind \in Kinds :
          \/ Begin(t, kind, amount, fee)
          \/ kind = "shielded" /\ BeginShielded(t, amount, fee)
          \/ BeginBadAddress(t, kind, amount, fee)
  BY DEF Start
<1> DEFINE c == [kind |-> kind, amount |-> amount, fee |-> fee]
<1>2. ASSUME call' = [call EXCEPT ![t] = c],
             \A u \in Tasks : pc'[u] # "idle" => pc[u] # "idle" \/ u = t
      PROVE  /\ DOMAIN call' = Tasks
             /\ \A u \in Tasks : pc'[u] # "idle" =>
                   /\ call'[u].kind \in Kinds
                   /\ call'[u].amount \in Amounts
                   /\ call'[u].fee \in Fees
  BY <1>2 DEF TypeOK
<1>3. ASSUME NEW e \in Statuses \cup Errors, Raise(t, e), call' = [call EXCEPT ![t] = c],
             UNCHANGED <<circuits, offer, connected, wire, network>>
      PROVE  TypeOK'
  <2>1. /\ DOMAIN call' = Tasks
        /\ \A u \in Tasks : pc'[u] # "idle" =>
              /\ call'[u].kind \in Kinds
              /\ call'[u].amount \in Amounts
              /\ call'[u].fee \in Fees
    BY <1>2, <1>3, RaiseType
  <2> HIDE DEF c
  <2> QED
    BY <1>3, <2>1, RaiseType DEF TypeOK, PCs, network
<1>4. /\ "TransactionError" \in Statuses \cup Errors
      /\ "AddressError" \in Statuses \cup Errors
  BY DEF Errors
<1>5. ASSUME pc' = [pc EXCEPT ![t] = "fetch"], since' = [since EXCEPT ![t] = indexed],
             call' = [call EXCEPT ![t] = c],
             circuits' \in [Tasks -> Seq({"spend", "output"})],
             UNCHANGED <<attempts, result, offer, connected, wire, network>>
      PROVE  TypeOK'
  <2>1. /\ pc' \in [Tasks -> PCs]
        /\ \A u \in Tasks : pc'[u] # "idle" => pc[u] # "idle" \/ u = t
        /\ since' \in [Tasks -> 0 .. indexed]
    BY <1>5 DEF TypeOK, PCs
  <2>2. /\ DOMAIN call' = Tasks
        /\ \A u \in Tasks : pc'[u] # "idle" =>
              /\ call'[u].kind \in Kinds
              /\ call'[u].amount \in Amounts
              /\ call'[u].fee \in Fees
    BY <1>2, <1>5, <2>1
  <2> HIDE DEF c
  <2> QED
    BY <1>5, <2>1, <2>2 DEF TypeOK, PCs, network
<1>6. CASE Begin(t, kind, amount, fee)
  BY <1>5, <1>6 DEF Begin, TypeOK
<1>7. CASE kind = "shielded" /\ BeginShielded(t, amount, fee)
  <2>1. c = [kind |-> "shielded", amount |-> amount, fee |-> fee]
    BY <1>7
  <2>2. CASE Raise(t, "TransactionError") /\ UNCHANGED circuits
    BY <1>3, <1>4, <1>7, <2>1, <2>2 DEF BeginShielded
  <2>3. CASE /\ \E coins \in GreedySelections(Coins, amount) :
                   circuits' = [circuits EXCEPT ![t] = CircuitsFor(coins, amount)]
             /\ pc' = [pc EXCEPT ![t] = "fetch"]
             /\ since' = [since EXCEPT ![t] = indexed]
             /\ UNCHANGED <<attempts, result>>
    <3>1. circuits' \in [Tasks -> Seq({"spend", "output"})]
      BY <2>3, CircuitsType DEF TypeOK
    <3> QED
      BY <1>5, <1>7, <2>1, <2>3, <3>1 DEF BeginShielded
  <2> QED
    BY <1>7, <2>2, <2>3 DEF BeginShielded
<1>8. CASE BeginBadAddress(t, kind, amount, fee)
  BY <1>3, <1>4, <1>8 DEF BeginBadAddress
<1> QED
  BY <1>1, <1>6, <1>7, <1>8

\* So do the services.
LEMMA ServiceStepType ==
    ASSUME TypeOK, ServiceStep
    PROVE  TypeOK'
<1>1. CASE Disconnect
  BY <1>1 DEF Disconnect, TypeOK, local, network
<1>2. CASE IndexNext
  <2>1. indexed' = indexed + 1 /\ indexed \in Nat /\ Len(chain) \in Nat /\ indexed < Len(chain)
    BY <1>2 DEF IndexNext, TypeOK
  <2>2. indexed' \in 0 .. Len(chain) /\ \A n \in 0 .. indexed : n \in 0 .. indexed'
    BY <2>1
  <2> QED
    BY <1>2, <2>2 DEF IndexNext, TypeOK, local
<1>3. ASSUME NEW t \in Tasks, NodeAccepts(t) PROVE TypeOK'
  BY <1>3 DEF NodeAccepts, TypeOK, local
<1>4. ASSUME NEW t \in Tasks, NodeRejects(t) PROVE TypeOK'
  BY <1>4 DEF NodeRejects, TypeOK, local, network
<1>5. ASSUME NEW t \in Tasks, NEW status \in Statuses, Include(t, status) PROVE TypeOK'
  <2>1. [task |-> t, status |-> status] \in Entry
    BY DEF Entry
  <2>2. chain' \in Seq(Entry) /\ Len(chain') = Len(chain) + 1 /\ Len(chain) \in Nat
    BY <1>5, <2>1 DEF Include, TypeOK
  <2>3. indexed \in 0 .. Len(chain')
    BY <2>2 DEF TypeOK
  <2> QED
    BY <1>5, <2>2, <2>3 DEF Include, TypeOK, local
<1>6. ASSUME NEW t \in Tasks, DropFromPool(t) PROVE TypeOK'
  BY <1>6 DEF DropFromPool, TypeOK, local
<1> QED
  BY <1>1, <1>2, <1>3, <1>4, <1>5, <1>6 DEF ServiceStep

LEMMA InitType == Init => TypeOK
  BY DEF Init, TypeOK

LEMMA NextType == BuilderAssumption /\ TypeOK /\ [Next]_vars => TypeOK'
<1> SUFFICES ASSUME BuilderAssumption, TypeOK, [Next]_vars PROVE TypeOK'
  OBVIOUS
<1>1. CASE UNCHANGED vars
  BY <1>1 DEF TypeOK, vars, local, network
<1> QED
  BY <1>1, StartType, CallStepType, ServiceStepType DEF Next, Finished

\* The state has the types of TypeOK: attempts stay below the limits of the
\* retry decorators, a call holds an offer only once it has been sent, and
\* the indexer never shows more than the chain.
THEOREM TypeCorrect == Spec => []TypeOK
<1>1. Init => TypeOK
  BY InitType
<1>2. TypeOK /\ [Next]_vars => TypeOK'
  BY BuilderAssumption, NextType
<1> QED
  BY <1>1, <1>2, PTL DEF Spec

-----------------------------------------------------------------------------
\* Chain entries are entries of calls.
LEMMA ChainEntries ==
    ASSUME TypeOK, NEW i \in 1 .. Len(chain)
    PROVE  chain[i] \in Entry /\ chain[i].task \in Tasks /\ chain[i].status \in Statuses
<1>1. chain \in Seq(Entry)
  BY DEF TypeOK
<1>2. chain[i] \in Entry
  BY <1>1
<1> QED
  BY <1>2 DEF Entry

\* A step of one call leaves the others and the chain alone; it may touch the
\* wire and the offer only before the call has submitted.
LEMMA LocalStep ==
    ASSUME TypeOK, CallInv, ChainInv, NEW t \in Tasks,
           \A u \in Tasks \ {t} : /\ pc'[u] = pc[u] /\ result'[u] = result[u]
                                  /\ wire'[u] = wire[u] /\ offer'[u] = offer[u],
           wire[t] = "none" \/ UNCHANGED <<wire, offer>>,
           UNCHANGED network,
           CallOK(t)'
    PROVE  CallInv' /\ ChainInv'
<1>1. CallInv'
  <2>1. ASSUME NEW u \in Tasks \ {t} PROVE CallOK(u)'
    BY <2>1 DEF CallInv, CallOK, network
  <2> QED
    BY <2>1 DEF CallInv
<1>2. \A u \in Tasks : wire[u] = "accepted" => wire'[u] = "accepted" /\ offer'[u] = offer[u]
  OBVIOUS
<1>3. \A i \in 1 .. Len(chain) : /\ wire[chain[i].task] = "accepted"
                                 /\ wire'[chain[i].task] = "accepted"
                                 /\ offer'[chain[i].task] = offer[chain[i].task]
  BY <1>2, ChainEntries DEF ChainInv
<1>4. \A u \in pool' : wire'[u] = "accepted" /\ \A i \in 1 .. Len(chain') : chain'[i].task # u
  BY <1>2 DEF ChainInv, TypeOK, network
<1>5. AppliedOnce'
  BY DEF ChainInv, AppliedOnce, network
<1>6. DisjointSpends'
  BY <1>3 DEF ChainInv, DisjointSpends, network
<1> QED
  BY <1>1, <1>3, <1>4, <1>5, <1>6 DEF ChainInv, network

\* A call that ends with an exception, and what must hold of its submission.
LEMMA RaiseInv ==
    ASSUME TypeOK, CallInv, ChainInv, NEW t \in Tasks, NEW e \in Errors, Raise(t, e),
           e \in SafeToRetry => wire[t] \in {"none", "rejected"},
           UNCHANGED <<wire, offer, network>>
    PROVE  CallInv' /\ ChainInv'
<1>1. e \notin Statuses /\ e \in Statuses \cup Errors
  BY DEF Errors, Statuses
<1>2. /\ pc'[t] = "done" /\ result'[t] = e
      /\ \A u \in Tasks \ {t} : pc'[u] = pc[u] /\ result'[u] = result[u]
  BY <1>1, RaiseType
<1>3. CallOK(t)'
  BY <1>1, <1>2 DEF CallOK
<1> QED
  BY <1>2, <1>3, LocalStep

\* A call moves on without ending.
LEMMA MoveInv ==
    ASSUME TypeOK, CallInv, ChainInv, NEW t \in Tasks, NEW p \in PCs \ {"done", "submit"},
           pc[t] # "done",
           pc' = [pc EXCEPT ![t] = p],
           p \in {"idle", "fetch", "health", "prove"} => wire[t] = "none",
           p = "wait" => wire[t] = "accepted",
           UNCHANGED <<result, wire, offer, network>>
    PROVE  CallInv' /\ ChainInv'
<1>1. pc'[t] = p /\ \A u \in Tasks \ {t} : pc'[u] = pc[u]
  BY DEF TypeOK
<1>2. result[t] = "none"
  BY DEF CallInv, CallOK
<1>3. "none" \notin Statuses /\ "none" \notin SafeToRetry
  BY DEF Statuses, SafeToRetry, Errors
<1>4. CallOK(t)'
  BY <1>1, <1>2, <1>3 DEF CallOK, PCs
<1> QED
  BY <1>1, <1>4, LocalStep

\* Serialising and submitting, from a position before the submission.
LEMMA SerializeInv ==
    ASSUME TypeOK, CallInv, ChainInv, NEW t \in Tasks, NEW e, SerializeAndSubmit(t, e),
           pc[t] \in {"fetch", "health", "prove"},
           UNCHANGED network
    PROVE  CallInv' /\ ChainInv'
<1>1. wire[t] = "none" /\ result[t] = "none"
  BY DEF CallInv, CallOK
<1>2. \A u \in Tasks \ {t} : /\ pc'[u] = pc[u] /\ result'[u] = result[u]
                              /\ wire'[u] = wire[u] /\ offer'[u] = offer[u]
  BY SerializeEffect
<1>3. \/ /\ pc'[t] = "done" /\ wire' = wire
         /\ result'[t] \in {"KeyError", "AttributeError", "ConnectionError"}
      \/ pc'[t] = "submit" /\ wire'[t] = "sent" /\ result' = result
  BY SerializeEffect
<1>4. /\ \A e1 \in {"KeyError", "AttributeError", "ConnectionError", "none"} : e1 \notin Statuses
      /\ "none" \notin SafeToRetry
  BY DEF Statuses, SafeToRetry, Errors
<1>5. CallOK(t)'
  BY <1>1, <1>3, <1>4 DEF CallOK
<1> QED
  BY <1>1, <1>2, <1>5, LocalStep

\* Every step of a call keeps the invariant.
LEMMA CallStepInv ==
    ASSUME BuilderInv, NEW t \in Tasks, CallStep(t)
    PROVE  CallInv' /\ ChainInv'
<1>1. TypeOK /\ CallInv /\ ChainInv
  BY DEF BuilderInv
<1>2. /\ pc[t] \in {"fetch", "health", "prove"} => wire[t] = "none"
      /\ pc[t] = "wait" => wire[t] = "accepted"
      /\ pc[t] # "done" => result[t] = "none"
  BY <1>1 DEF CallInv, CallOK
<1>3. /\ \A e \in {"TransactionError", "RetryError", "ProofError", "SocketError",
                   "TransactionTimeoutError"} : e \in Errors
      /\ \A e \in {"SocketError", "TransactionTimeoutError"} : e \notin SafeToRetry
  BY DEF Errors, SafeToRetry
<1>4. ASSUME NEW p \in {"fetch", "health", "prove"}, p = pc[t],
             UNCHANGED <<pc, result, wire, offer, network>>
      PROVE  CallInv' /\ ChainInv'
  <2>1. pc' = [pc EXCEPT ![t] = p] /\ p \in PCs \ {"done", "submit"} /\ pc[t] # "done"
    BY <1>1, <1>4 DEF TypeOK, PCs
  <2> QED
    BY <1>1, <1>2, <1>4, <2>1, MoveInv
<1>5. CASE FetchFails(t)
  BY <1>1, <1>2, <1>3, <1>4, <1>5, RaiseInv DEF FetchFails
<1>6. CASE FetchAnswered(t)
  <2>1. pc[t] = "fetch" /\ UNCHANGED network
    BY <1>6 DEF FetchAnswered
  <2>2. CASE Raise(t, "TransactionError") /\ UNCHANGED <<wire, offer>>
    BY <1>1, <1>2, <1>3, <2>1, <2>2, RaiseInv
  <2>3. CASE \E selected : SerializeAndSubmit(t, BuildOffer(t, selected))
    BY <1>1, <2>1, <2>3, SerializeInv
  <2>4. CASE pc' = [pc EXCEPT ![t] = "health"] /\ UNCHANGED <<result, wire, offer>>
    BY <1>1, <1>2, <2>1, <2>4, MoveInv DEF PCs
  <2> QED
    BY <1>6, <2>2, <2>3, <2>4 DEF FetchAnswered
<1>7. CASE HealthFails(t)
  BY <1>1, <1>2, <1>3, <1>7, RaiseInv DEF HealthFails
<1>8. CASE HealthAnswered(t)
  <2>1. pc[t] = "health" /\ UNCHANGED network
    BY <1>8 DEF HealthAnswered
  <2>2. CASE SerializeAndSubmit(t, NoOffer)
    BY <1>1, <2>1, <2>2, SerializeInv
  <2>3. CASE pc' = [pc EXCEPT ![t] = "prove"] /\ UNCHANGED <<result, wire, offer>>
    BY <1>1, <1>2, <2>1, <2>3, MoveInv DEF PCs
  <2> QED
    BY <1>8, <2>2, <2>3 DEF HealthAnswered
<1>9. CASE ProofAnswered(t)
  <2>1. pc[t] = "prove" /\ UNCHANGED network
    BY <1>9 DEF ProofAnswered
  <2>2. CASE SerializeAndSubmit(t, NoOffer)
    BY <1>1, <2>1, <2>2, SerializeInv
  <2>3. CASE UNCHANGED <<pc, result, wire, offer>>
    BY <1>4, <2>1, <2>3
  <2> QED
    BY <1>9, <2>2, <2>3 DEF ProofAnswered
<1>10. CASE ProofFails(t)
  BY <1>1, <1>2, <1>3, <1>4, <1>10, RaiseInv DEF ProofFails
<1>11. CASE SubmitAnswered(t)
  BY <1>1, <1>11, MoveInv DEF SubmitAnswered, PCs
<1>12. CASE SubmitRejected(t)
  BY <1>1, <1>3, <1>12, RaiseInv DEF SubmitRejected
<1>13. CASE SubmitBreaks(t)
  BY <1>1, <1>3, <1>13, RaiseInv DEF SubmitBreaks
<1>14. CASE PollFinds(t)
  <2>1. PICK i \in ShownAt(t) : Raise(t, chain[i].status)
    BY <1>14 DEF PollFinds
  <2>2. i \in 1 .. indexed /\ chain[i].task = t /\ i \in 1 .. Len(chain)
    BY <1>1, <2>1 DEF ShownAt, TypeOK
  <2>3. chain[i] \in Entry /\ chain[i].status \in Statuses
    BY <1>1, <2>2, ChainEntries
  <2>4. chain[i] = [task |-> t, status |-> chain[i].status]
    BY <2>2, <2>3 DEF Entry
  <2>5. /\ pc'[t] = "done" /\ result'[t] = chain[i].status
        /\ \A u \in Tasks \ {t} : pc'[u] = pc[u] /\ result'[u] = result[u]
    BY <1>1, <2>1, <2>3, RaiseType
  <2>6. UNCHANGED <<wire, offer, network>>
    BY <1>14 DEF PollFinds
  <2>7. result'[t] \notin SafeToRetry
    BY <2>3, <2>5 DEF Statuses, SafeToRetry, Errors
  <2>8. chain'[i] = [task |-> t, status |-> result'[t]] /\ i \in 1 .. indexed'
    BY <2>2, <2>4, <2>5, <2>6 DEF network
  <2>9. CallOK(t)'
    BY <2>5, <2>7, <2>8 DEF CallOK
  <2> QED
    BY <1>1, <2>5, <2>6, <2>9, LocalStep
<1>15. CASE WaitTimesOut(t)
  BY <1>1, <1>3, <1>15, RaiseInv DEF WaitTimesOut
<1> QED
  BY <1>5, <1>6, <1>7, <1>8, <1>9, <1>10, <1>11, <1>12, <1>13, <1>14, <1>15 DEF CallStep

\* So does a call that begins.
LEMMA StartInv ==
    ASSUME BuilderInv, NEW t \in Tasks, Start(t)
    PROVE  CallInv' /\ ChainInv'
<1>1. TypeOK /\ CallInv /\ ChainInv
  BY DEF BuilderInv
<1>2. pc[t] = "idle" /\ UNCHANGED <<offer, wire, network>>
  BY DEF Start, Begin, BeginShielded, BeginBadAddress
<1>3. wire[t] = "none"
  BY <1>1, <1>2 DEF CallInv, CallOK
<1>4. CASE pc' = [pc EXCEPT ![t] = "fetch"] /\ UNCHANGED result
  BY <1>1, <1>2, <1>3, <1>4, MoveInv DEF PCs
<1>5. CASE \E e \in {"TransactionError", "AddressError"} : Raise(t, e)
  <2>1. \A e \in {"TransactionError", "AddressError"} : e \in Errors
    BY DEF Errors
  <2> QED
    BY <1>1, <1>2, <1>3, <1>5, <2>1, RaiseInv
<1> QED
  BY <1>4, <1>5 DEF Start, Begin, BeginShielded, BeginBadAddress

\* A transaction enters a block: its inputs are unspent if it takes effect.
LEMMA IncludeInv ==
    ASSUME BuilderInv, NEW t \in Tasks, NEW status \in Statuses, Include(t, status)
    PROVE  CallInv' /\ ChainInv'
<1> DEFINE n == Len(chain)
           entry == [task |-> t, status |-> status]
<1>1. TypeOK /\ CallInv /\ ChainInv
  BY DEF BuilderInv
<1>2. /\ chain \in Seq(Entry) /\ n \in Nat /\ indexed \in 0 .. n
      /\ chain' = Append(chain, entry) /\ entry \in Entry
      /\ UNCHANGED <<pc, result, wire, offer, indexed>>
      /\ pool' = pool \ {t} /\ t \in pool
  BY <1>1 DEF TypeOK, Include, local, Entry
<1>3. /\ Len(chain') = n + 1 /\ chain'[n + 1] = entry
      /\ \A i \in 1 .. n : chain'[i] = chain[i]
  BY <1>2
<1>4. \A i \in 1 .. n : chain[i].task # t
  BY <1>1, <1>2 DEF ChainInv
<1>5. \A i \in 1 .. Len(chain') : i \in 1 .. n \/ i = n + 1
  BY <1>2, <1>3
<1> HIDE DEF n
<1>6. CallInv'
  <2>1. \A i \in 1 .. indexed : chain'[i] = chain[i]
    BY <1>2, <1>3
  <2> SUFFICES ASSUME NEW u \in Tasks
               PROVE  CallOK(u)'
    BY DEF CallInv
  <2>2. CallOK(u)
    BY <1>1 DEF CallInv
  <2>3. UNCHANGED <<pc, result, wire, indexed>>
    BY <1>2
  <2> QED
    BY <2>1, <2>2, <2>3 DEF CallOK
<1>7. \A u \in pool' : wire'[u] = "accepted" /\ \A i \in 1 .. Len(chain') : chain'[i].task # u
  <2> SUFFICES ASSUME NEW u \in pool', NEW i \in 1 .. Len(chain')
               PROVE  wire'[u] = "accepted" /\ chain'[i].task # u
    BY <1>1, <1>2 DEF ChainInv
  <2>1. u \in pool /\ u # t
    BY <1>2
  <2> QED
    BY <1>1, <1>2, <1>3, <1>5, <2>1 DEF ChainInv, n
<1>8. \A i \in 1 .. Len(chain') : wire'[chain'[i].task] = "accepted"
  BY <1>1, <1>2, <1>3, <1>5 DEF ChainInv, n
<1>9. AppliedOnce'
  BY <1>1, <1>3, <1>4, <1>5 DEF ChainInv, AppliedOnce, n
<1>10. DisjointSpends'
  <2>1. ASSUME NEW j \in 1 .. n, chain[j].status \in Applied, status \in Applied
        PROVE  offer[chain[j].task].inputs \cap offer[t].inputs = {}
    <3>1. offer[t].inputs \subseteq UtxosAt(n)
      BY <2>1 DEF Include, n
    <3>2. chain[j].task \in AppliedBy(n)
      BY <2>1 DEF AppliedBy
    <3> QED
      BY <3>1, <3>2 DEF UtxosAt
  <2> SUFFICES ASSUME NEW i \in 1 .. Len(chain'), NEW j \in 1 .. Len(chain'), i # j,
                      chain'[i].status \in Applied, chain'[j].status \in Applied
               PROVE  offer[chain'[i].task].inputs \cap offer[chain'[j].task].inputs = {}
    BY <1>2 DEF DisjointSpends
  <2>2. CASE i \in 1 .. n /\ j \in 1 .. n
    BY <1>1, <1>3, <2>2 DEF ChainInv, DisjointSpends, n
  <2>3. CASE i = n + 1 /\ j \in 1 .. n
    BY <1>3, <2>1, <2>3
  <2>4. CASE i \in 1 .. n /\ j = n + 1
    BY <1>3, <2>1, <2>4
  <2> QED
    BY <1>5, <2>2, <2>3, <2>4
<1> QED
  BY <1>6, <1>7, <1>8, <1>9, <1>10 DEF ChainInv

\* The node and the indexer keep it too.
LEMMA ServiceStepInv ==
    ASSUME BuilderInv, ServiceStep
    PROVE  CallInv' /\ ChainInv'
<1>1. TypeOK /\ CallInv /\ ChainInv
  BY DEF BuilderInv
<1>2. CASE Disconnect
  BY <1>1, <1>2, ZenonT(30) DEF Disconnect, CallInv, CallOK, ChainInv, AppliedOnce, DisjointSpends,
                    local, network
<1>3. CASE IndexNext
  <2>1. \A i \in 1 .. indexed : i \in 1 .. indexed'
    BY <1>1, <1>3 DEF IndexNext, TypeOK
  <2>2. CallInv'
    BY <1>1, <1>3, <2>1 DEF IndexNext, CallInv, CallOK, local
  <2>3. ChainInv'
    BY <1>1, <1>3 DEF IndexNext, ChainInv, AppliedOnce, DisjointSpends, local
  <2> QED
    BY <2>2, <2>3
<1>4. ASSUME NEW t \in Tasks, wire[t] = "sent", NEW w \in {"accepted", "rejected"},
             wire' = [wire EXCEPT ![t] = w],
             UNCHANGED <<local, chain, indexed>>,
             pool' \subseteq pool \cup {t}, t \in pool' => w = "accepted"
      PROVE  CallInv' /\ ChainInv'
  <2>1. /\ wire'[t] = w /\ \A u \in Tasks \ {t} : wire'[u] = wire[u]
        /\ UNCHANGED <<pc, result, offer, chain, indexed>>
    BY <1>1, <1>4 DEF TypeOK, local
  <2>2. /\ \A i \in 1 .. Len(chain) : chain[i].task # t /\ chain[i].task \in Tasks
        /\ t \notin pool /\ pool \subseteq Tasks
    BY <1>1, <1>4, ChainEntries DEF ChainInv, TypeOK
  <2>3. pc[t] \notin {"idle", "fetch", "health", "prove", "wait"} /\ result[t] \notin SafeToRetry
    BY <1>1, <1>4 DEF CallInv, CallOK
  <2>4. CallInv'
    <3>1. ASSUME NEW u \in Tasks \ {t} PROVE CallOK(u)'
      BY <1>1, <2>1, <3>1 DEF CallInv, CallOK
    <3>2. CallOK(t)'
      BY <1>1, <2>1, <2>3 DEF CallInv, CallOK
    <3> QED
      BY <3>1, <3>2 DEF CallInv
  <2>5. ChainInv'
    BY <1>1, <1>4, <2>1, <2>2 DEF ChainInv, AppliedOnce, DisjointSpends
  <2> QED
    BY <2>4, <2>5
<1>5. ASSUME NEW t \in Tasks, NodeAccepts(t) PROVE CallInv' /\ ChainInv'
  BY <1>4, <1>5 DEF NodeAccepts
<1>6. ASSUME NEW t \in Tasks, NodeRejects(t) PROVE CallInv' /\ ChainInv'
  <2>1. t \notin pool'
    BY <1>1, <1>6 DEF NodeRejects, ChainInv, network
  <2> QED
    BY <1>4, <1>6, <2>1 DEF NodeRejects, network
<1>7. ASSUME NEW t \in Tasks, DropFromPool(t) PROVE CallInv' /\ ChainInv'
  BY <1>1, <1>7 DEF DropFromPool, CallInv, CallOK, ChainInv, AppliedOnce, DisjointSpends, local
<1> QED
  BY <1>2, <1>3, <1>5, <1>6, <1>7, IncludeInv DEF ServiceStep

LEMMA InitInv == Init => CallInv /\ ChainInv
<1> SUFFICES ASSUME Init PROVE CallInv /\ ChainInv
  OBVIOUS
<1>1. "none" \notin Statuses /\ "none" \notin SafeToRetry
  BY DEF Statuses, SafeToRetry, Errors
<1>2. CallInv
  BY <1>1 DEF Init, CallInv, CallOK
<1>3. pool = {} /\ \A i : i \notin 1 .. Len(chain)
  BY DEF Init
<1> QED
  BY <1>2, <1>3 DEF ChainInv, AppliedOnce, DisjointSpends

LEMMA NextInv == BuilderInv /\ [Next]_vars => CallInv' /\ ChainInv'
<1> SUFFICES ASSUME BuilderInv, [Next]_vars PROVE CallInv' /\ ChainInv'
  OBVIOUS
<1>1. CASE UNCHANGED vars
  BY <1>1 DEF BuilderInv, CallInv, CallOK, ChainInv, AppliedOnce, DisjointSpends,
              vars, local, network
<1> QED
  BY <1>1, StartInv, CallStepInv, ServiceStepInv DEF Next, Finished

\* The inductive invariant: the position of a call bounds what has happened
\* to its submission, the node knows only what it accepted, and transactions
\* that took effect spent different UTXOs.
THEOREM BuilderInvariant == Spec => []BuilderInv
<1>1. Init => BuilderInv
  BY InitType, InitInv DEF BuilderInv
<1>2. BuilderInv /\ [Next]_vars => BuilderInv'
  BY BuilderAssumption, NextType, NextInv DEF BuilderInv
<1> QED
  BY <1>1, <1>2, PTL DEF Spec

-----------------------------------------------------------------------------
\* A call that ended with an exception other than the timeout and the broken
\* socket has no transaction on the way, in the pool or on the chain
\* (submit_extrinsic, _wait_for_receipt).
THEOREM RetryIsSafe == Spec => []ErrorMeansNoEffect
<1>1. BuilderInv => ErrorMeansNoEffect
  <2> SUFFICES ASSUME BuilderInv, NEW t \in Tasks, result[t] \in SafeToRetry
               PROVE  /\ wire[t] \in {"none", "rejected"}
                      /\ t \notin pool
                      /\ \A i \in 1 .. Len(chain) : chain[i].task # t
    BY DEF ErrorMeansNoEffect
  <2>1. wire[t] \in {"none", "rejected"}
    BY DEF BuilderInv, CallInv, CallOK
  <2> QED
    BY <2>1 DEF BuilderInv, ChainInv
<1> QED
  BY <1>1, BuilderInvariant, PTL

\* A receipt has the status of the transaction on the chain, at a position
\* the indexer has seen (_wait_for_receipt).
THEOREM ReceiptsAreTrue == Spec => []ReceiptTruthful
<1>1. BuilderInv => ReceiptTruthful
  BY DEF BuilderInv, CallInv, CallOK, ReceiptTruthful
<1> QED
  BY <1>1, BuilderInvariant, PTL

\* However calls interleave, no two are told that they spent the same UTXO,
\* though selection reserves none (_build_unshielded_transfer).
THEOREM NoDoubleSpendReported == Spec => []NoSharedSpend
<1>1. BuilderInv => NoSharedSpend
  <2> SUFFICES ASSUME BuilderInv, NEW t \in Tasks, NEW u \in Tasks, t # u,
                      result[t] \in Applied, result[u] \in Applied
               PROVE  offer[t].inputs \cap offer[u].inputs = {}
    BY DEF NoSharedSpend
  <2>1. /\ TypeOK /\ DisjointSpends /\ Applied \subseteq Statuses
        /\ indexed \in 0 .. Len(chain) /\ Len(chain) \in Nat
    BY DEF BuilderInv, ChainInv, TypeOK, Applied, Statuses
  <2>2. PICK i \in 1 .. indexed : chain[i] = [task |-> t, status |-> result[t]]
    BY <2>1 DEF BuilderInv, CallInv, CallOK
  <2>3. PICK j \in 1 .. indexed : chain[j] = [task |-> u, status |-> result[u]]
    BY <2>1 DEF BuilderInv, CallInv, CallOK
  <2>4. i \in 1 .. Len(chain) /\ j \in 1 .. Len(chain)
    BY <2>1
  <2>5. /\ chain[i].task = t /\ chain[i].status \in Applied
        /\ chain[j].task = u /\ chain[j].status \in Applied
    BY <2>2, <2>3
  <2> QED
    BY <2>1, <2>4, <2>5 DEF DisjointSpends
<1> QED
  BY <1>1, BuilderInvariant, PTL

\* One call puts its transaction on the chain at most once.
THEOREM SubmittedOnce == Spec => []AppliedOnce
<1>1. BuilderInv => AppliedOnce
  BY DEF BuilderInv, ChainInv
<1> QED
  BY <1>1, BuilderInvariant, PTL

-----------------------------------------------------------------------------
\* The selections of a payer are signed with the payer's key.
LEMMA OfferSigned ==
    ASSUME NEW t, NEW n, NEW selected \in Selections(EligibleAt(t, n), Required(t))
    PROVE  \A u \in BuildOffer(t, selected).inputs : u.owner = BuildOffer(t, selected).signer
<1>1. selected \subseteq EligibleAt(t, n)
  <2>1. CASE ExactMatches(EligibleAt(t, n), Required(t)) # {}
    BY <2>1 DEF Selections, ExactMatches
  <2>2. CASE ~(ExactMatches(EligibleAt(t, n), Required(t)) # {})
    BY <2>2 DEF Selections, GreedySelections
  <2> QED
    BY <2>1, <2>2
<1>2. \A u \in selected : u.owner = Payer(t)
  BY <1>1 DEF EligibleAt
<1>3. Payer(t) \in {"unshielded", "dust"}
  BY DEF Payer
<1>4. /\ BuildOffer(t, selected).inputs = selected
      /\ BuildOffer(t, selected).signer = SignerOf(selected, Payer(t))
  BY DEF BuildOffer
<1> QED
  BY <1>2, <1>3, <1>4 DEF SignerOf

\* What is sent is signed with the key that owns every input, whatever pays
\* for the call (_serialize_transaction).
THEOREM SignerOwnsInputs == Spec => []SignedByOwner
<1>1. Init => SignedByOwner
  BY DEF Init, SignedByOwner
<1>2. TypeOK /\ SignedByOwner /\ [Next]_vars => SignedByOwner'
  <2> SUFFICES ASSUME TypeOK, SignedByOwner, [Next]_vars PROVE SignedByOwner'
    OBVIOUS
  <2>1. ASSUME NEW t \in Tasks, NEW e, SerializeAndSubmit(t, e), pc[t] # "idle",
               \A u \in e.inputs : u.owner = e.signer
        PROVE  SignedByOwner'
    <3>1. CASE UNCHANGED <<wire, offer>>
      BY <3>1 DEF SignedByOwner
    <3>2. CASE offer' = [offer EXCEPT ![t] = e] /\ wire' = [wire EXCEPT ![t] = "sent"]
      BY <2>1, <3>2 DEF SignedByOwner, TypeOK
    <3> QED
      BY <2>1, <3>1, <3>2 DEF SerializeAndSubmit
  <2>2. CASE UNCHANGED <<wire, offer>>
    BY <2>2 DEF SignedByOwner
  <2>3. ASSUME NEW t \in Tasks, FetchAnswered(t) PROVE SignedByOwner'
    <3>1. CASE UNCHANGED <<wire, offer>>
      BY <2>2, <3>1
    <3>2. CASE \E n \in since[t] .. indexed :
                 \E selected \in Selections(EligibleAt(t, n), Required(t)) :
                   SerializeAndSubmit(t, BuildOffer(t, selected))
      <4>0. PICK n \in since[t] .. indexed :
                \E selected \in Selections(EligibleAt(t, n), Required(t)) :
                    SerializeAndSubmit(t, BuildOffer(t, selected))
        BY <3>2
      <4>1. PICK selected \in Selections(EligibleAt(t, n), Required(t)) :
                SerializeAndSubmit(t, BuildOffer(t, selected))
        BY <4>0
      <4>2. pc[t] # "idle"
        BY <2>3 DEF FetchAnswered
      <4> QED
        BY <2>1, <4>1, <4>2, OfferSigned
    <3> QED
      BY <2>3, <3>1, <3>2 DEF FetchAnswered
  <2>4. ASSUME NEW t \in Tasks, CallStep(t) PROVE SignedByOwner'
    <3>1. \A u \in NoOffer.inputs : u.owner = NoOffer.signer
      BY DEF NoOffer
    <3>2. CASE FetchAnswered(t)
      BY <2>3, <3>2
    <3>3. CASE HealthAnswered(t)
      BY <2>1, <2>2, <3>1, <3>3 DEF HealthAnswered
    <3>4. CASE ProofAnswered(t)
      BY <2>1, <2>2, <3>1, <3>4 DEF ProofAnswered
    <3>5. CASE FetchFails(t) \/ HealthFails(t) \/ ProofFails(t) \/ SubmitAnswered(t)
                 \/ SubmitRejected(t) \/ SubmitBreaks(t) \/ PollFinds(t) \/ WaitTimesOut(t)
      BY <2>2, <3>5 DEF FetchFails, HealthFails, ProofFails, SubmitAnswered, SubmitRejected,
                        SubmitBreaks, PollFinds, WaitTimesOut
    <3> QED
      BY <2>4, <3>2, <3>3, <3>4, <3>5 DEF CallStep
  <2>5. ASSUME NEW t \in Tasks, Start(t) PROVE SignedByOwner'
    BY <2>2, <2>5 DEF Start, Begin, BeginShielded, BeginBadAddress
  <2>6. ASSUME NEW t \in Tasks, wire[t] = "sent", NEW w, wire' = [wire EXCEPT ![t] = w],
               UNCHANGED local
        PROVE  SignedByOwner'
    BY <2>6 DEF SignedByOwner, TypeOK, local
  <2>7. CASE ServiceStep
    BY <2>2, <2>6, <2>7 DEF ServiceStep, Disconnect, IndexNext, NodeAccepts, NodeRejects,
                            Include, DropFromPool, local
  <2>8. CASE UNCHANGED vars
    BY <2>2, <2>8 DEF vars, local
  <2> QED
    BY <2>4, <2>5, <2>7, <2>8 DEF Next, Finished
<1> QED
  BY <1>1, <1>2, TypeCorrect, PTL DEF Spec

-----------------------------------------------------------------------------
(* The funds of the wallet *)

\* The inputs of an offer are worth its outputs and its fee; an output is
\* known by the call that makes it.
Balanced(t) ==
    /\ ValuedSet(offer[t].inputs) /\ ValuedSet(offer[t].outputs) /\ offer[t].fee \in Nat
    /\ \A o \in offer[t].outputs : o.id \in {<<t, 1>>, <<t, 2>>}
    /\ Total(offer[t].inputs) = Total(offer[t].outputs) + offer[t].fee

Produced(n) == Genesis \cup UNION {offer[t].outputs : t \in AppliedBy(n)}
Consumed(n) == UNION {offer[t].inputs : t \in AppliedBy(n)}

\* Every offer balances, what was consumed had been produced, and the ledger
\* holds the initial funds less the fees.
MoneyInv ==
    /\ \A t \in Tasks : Balanced(t)
    /\ Consumed(Len(chain)) \subseteq Produced(Len(chain))
    /\ FundsAccountedFor

\* The calls that have taken effect are calls, and finitely many.
LEMMA AppliedFinite ==
    ASSUME TypeOK, NEW n \in 0 .. Len(chain)
    PROVE  /\ AppliedBy(n) \subseteq Tasks /\ IsFiniteSet(AppliedBy(n))
           /\ AppliedBy(n) \subseteq AppliedBy(Len(chain))
<1> DEFINE I == {j \in 1 .. n : chain[j].status \in Applied}
           f == [i \in I |-> chain[i].task]
<1>1. n \in Nat /\ Len(chain) \in Nat /\ 1 .. n \subseteq 1 .. Len(chain)
  BY DEF TypeOK
<1>2. IsFiniteSet(I)
  <2>1. IsFiniteSet(1 .. n)
    BY <1>1, FS_Interval
  <2>2. I \subseteq 1 .. n
    OBVIOUS
  <2> QED
    BY <2>1, <2>2, FS_Subset
<1>3. AppliedBy(n) = {f[i] : i \in I}
  BY DEF AppliedBy
<1>4. \A i \in 1 .. Len(chain) : chain[i].task \in Tasks
  BY ChainEntries
<1>5. AppliedBy(n) \subseteq Tasks /\ AppliedBy(n) \subseteq AppliedBy(Len(chain))
  BY <1>1, <1>4 DEF AppliedBy
<1>6. IsFiniteSet({f[i] : i \in I})
  <2> HIDE DEF I, f
  <2> QED
    BY <1>2, ImageFinite
<1> QED
  BY <1>3, <1>5, <1>6

\* The UTXOs of the ledger are finitely many, and worth natural numbers.
LEMMA LedgerValued ==
    ASSUME TypeOK, \A t \in Tasks : Balanced(t), NEW n \in 0 .. Len(chain)
    PROVE  /\ ValuedSet(Produced(n)) /\ ValuedSet(UtxosAt(n))
           /\ UtxosAt(n) = Produced(n) \ Consumed(n)
<1> DEFINE A == AppliedBy(n)
           f == [t \in A |-> offer[t].outputs]
<1>1. A \subseteq Tasks /\ IsFiniteSet(A)
  BY AppliedFinite
<1>2. IsFiniteSet({f[t] : t \in A})
  <2> HIDE DEF A, f
  <2> QED
    BY <1>1, ImageFinite
<1>3. {f[t] : t \in A} = {offer[t].outputs : t \in A}
  OBVIOUS
<1>4. \A S \in {offer[t].outputs : t \in A} : ValuedSet(S)
  BY <1>1 DEF Balanced
<1>5. IsFiniteSet(UNION {offer[t].outputs : t \in A})
  <2> HIDE DEF A, f
  <2>1. \A S \in {offer[t].outputs : t \in A} : IsFiniteSet(S)
    BY <1>4 DEF ValuedSet
  <2> QED
    BY <1>2, <1>3, <2>1, FS_UNION
<1>6. ValuedSet(Genesis)
  BY BuilderAssumption DEF ValuedSet
<1>7. ValuedSet(Produced(n))
  <2>1. IsFiniteSet(Produced(n))
    BY <1>5, <1>6, FS_Union DEF Produced, ValuedSet
  <2>2. \A u \in Produced(n) : u.value \in Nat
    BY <1>4, <1>6 DEF Produced, ValuedSet
  <2> QED
    BY <2>1, <2>2 DEF ValuedSet
<1>8. UtxosAt(n) = Produced(n) \ Consumed(n)
  BY DEF UtxosAt, Produced, Consumed
<1> QED
  BY <1>7, <1>8, FS_Subset DEF ValuedSet

\* The offer built of a selection balances: what the inputs are worth beyond
\* the payment and the fee is change, or is added to the fee.
LEMMA OfferBalances ==
    ASSUME BuilderAssumption, NEW t, PaidAmount(t) \in Nat, call[t].fee \in Nat,
           NEW E, ValuedSet(E), NEW selected \in Selections(E, Required(t)), NEW e,
           e = BuildOffer(t, selected)
    PROVE  /\ ValuedSet(e.inputs) /\ ValuedSet(e.outputs) /\ e.fee \in Nat
           /\ \A o \in e.outputs : o.id \in {<<t, 1>>, <<t, 2>>}
           /\ Total(e.inputs) = Total(e.outputs) + e.fee
<1> DEFINE r == Required(t)
           amount == PaidAmount(t)
           fee == call[t].fee
           change == Total(selected) - r
           paid == [id |-> <<t, 1>>, owner |-> "recipient", value |-> amount]
           left == [id |-> <<t, 2>>, owner |-> Payer(t), value |-> change]
           payment == IF amount > 0 THEN {paid} ELSE {}
           back == IF change > 0 /\ change >= DUST_THRESHOLD THEN {left} ELSE {}
<1>1. r \in Nat /\ r = amount + fee /\ DUST_THRESHOLD \in Nat
  BY BuilderAssumption DEF Required
<1>2. selected \subseteq E /\ ValuedSet(selected) /\ Total(selected) >= r
  <2>1. CASE ExactMatches(E, r) # {}
    <3>1. PICK u \in E : selected = {u} /\ u.value = r
      BY <2>1 DEF Selections, ExactMatches
    <3>2. ValuedSet({u}) /\ Total({u}) = r
      BY <1>1, <3>1, TotalSingle
    <3> QED
      BY <1>1, <3>1, <3>2
  <2>2. CASE ~(ExactMatches(E, r) # {})
    <3>1. selected \in SUBSET E /\ Total(selected) >= r
      BY <2>2 DEF Selections, GreedySelections
    <3> QED
      BY <3>1, TotalSubset
  <2> QED
    BY <2>1, <2>2
<1>3. Total(selected) \in Nat /\ change \in Nat
  BY <1>1, <1>2, TotalInNat
<1>4. /\ e.inputs = selected /\ e.outputs = payment \cup back /\ e.fee = RealFee(t, change)
  BY DEF BuildOffer
<1>5. ValuedSet({}) /\ Total({}) = 0
  BY TotalEmpty, FS_EmptySet DEF ValuedSet
<1>6. ValuedSet(payment) /\ Total(payment) = amount
  <2>1. paid.value = amount
    OBVIOUS
  <2> HIDE DEF paid
  <2>2. ValuedSet({paid}) /\ Total({paid}) = amount
    BY <2>1, TotalSingle
  <2> QED
    BY <1>5, <2>2
<1>7. ValuedSet(back) /\ Total(back) = change - (RealFee(t, change) - fee) /\ RealFee(t, change) \in Nat
  <2>0. fee \in Nat
    OBVIOUS
  <2>1. left.value = change
    OBVIOUS
  <2> HIDE DEF left
  <2>2. ValuedSet({left}) /\ Total({left}) = change
    BY <1>3, <2>1, TotalSingle
  <2>3. RealFee(t, change) = IF change < DUST_THRESHOLD THEN fee + change ELSE fee
    BY DEF RealFee
  <2>4. CASE change > 0 /\ change >= DUST_THRESHOLD
    <3>1. back = {left}
      BY <2>4
    <3>2. RealFee(t, change) = fee
      BY <1>1, <1>3, <2>3, <2>4
    <3> HIDE DEF change, fee, back
    <3> QED
      BY <1>3, <2>0, <2>2, <3>1, <3>2
  <2>5. CASE ~(change > 0 /\ change >= DUST_THRESHOLD)
    <3>1. back = {}
      BY <2>5
    <3>2. RealFee(t, change) = fee + change
      BY <1>1, <1>3, <2>3, <2>5
    <3> HIDE DEF change, fee, back
    <3> QED
      BY <1>3, <1>5, <2>0, <3>1, <3>2
  <2> QED
    BY <2>4, <2>5
<1>8. payment \cap back = {}
  <2>1. paid.id # left.id
    OBVIOUS
  <2> QED
    BY <2>1
<1>9. \A o \in payment \cup back : o.id \in {<<t, 1>>, <<t, 2>>}
  OBVIOUS
<1>10. ValuedSet(payment \cup back) /\ Total(payment \cup back) = Total(payment) + Total(back)
  <2> HIDE DEF payment, back
  <2> QED
    BY <1>6, <1>7, <1>8, TotalUnion
<1>11. change = Total(selected) - r
  OBVIOUS
<1>12. fee \in Nat /\ amount \in Nat
  OBVIOUS
<1> HIDE DEF change, payment, back, r, amount, fee
<1>13. Total(payment \cup back) = amount + change - (RealFee(t, change) - fee)
  BY <1>3, <1>6, <1>7, <1>10, <1>12
<1>14. Total(selected) = Total(payment \cup back) + RealFee(t, change)
  BY <1>1, <1>3, <1>7, <1>11, <1>12, <1>13
<1> QED
  BY <1>2, <1>4, <1>7, <1>9, <1>10, <1>14

\* While the same calls have taken effect, and with the same offers, the funds
\* stay where they are.
LEMMA LedgerUnmoved ==
    ASSUME MoneyInv, UNCHANGED AppliedBy(Len(chain)),
           \A u \in AppliedBy(Len(chain)) : offer'[u] = offer[u],
           (\A u \in Tasks : Balanced(u))'
    PROVE  MoneyInv'
<1>1. /\ UtxosAt(Len(chain))' = UtxosAt(Len(chain))
      /\ Produced(Len(chain))' = Produced(Len(chain))
      /\ Consumed(Len(chain))' = Consumed(Len(chain))
      /\ {[id |-> u, value |-> offer[u].fee] : u \in AppliedBy(Len(chain))}'
            = {[id |-> u, value |-> offer[u].fee] : u \in AppliedBy(Len(chain))}
  BY DEF UtxosAt, Produced, Consumed
<1> QED
  BY <1>1 DEF MoneyInv, FundsAccountedFor

\* A transaction that takes effect moves its inputs' value to its outputs and
\* to the fees.
LEMMA IncludeConserves ==
    ASSUME BuilderInv, MoneyInv, NEW t \in Tasks, NEW status \in Statuses, Include(t, status)
    PROVE  MoneyInv'
<1> DEFINE n == Len(chain)
           A == AppliedBy(n)
           I == offer[t].inputs
           O == offer[t].outputs
           fees == [u \in Tasks |-> offer[u].fee]
<1>1. /\ TypeOK /\ chain \in Seq(Entry) /\ n \in Nat /\ t \in pool
      /\ chain' = Append(chain, [task |-> t, status |-> status])
      /\ UNCHANGED offer
  BY DEF BuilderInv, TypeOK, Include, local
<1>2. /\ Len(chain') = n + 1 /\ chain'[n + 1] = [task |-> t, status |-> status]
      /\ \A i \in 1 .. n : chain'[i] = chain[i]
  BY <1>1
<1>3. t \notin A
  BY <1>1 DEF BuilderInv, ChainInv, AppliedBy
<1>4. (\A u \in Tasks : Balanced(u))'
  BY <1>1 DEF MoneyInv, Balanced
<1>5. CASE status \notin Applied
  <2>1. \A i \in 1 .. Len(chain') : chain'[i].status \in Applied => i \in 1 .. n
    BY <1>1, <1>2, <1>5
  <2>2. AppliedBy(Len(chain))' = A
    BY <1>1, <1>2, <2>1 DEF AppliedBy
  <2> QED
    BY <1>1, <1>4, <2>2, LedgerUnmoved
<1>6. CASE status \in Applied
  <2>1. \A i : i \in 1 .. Len(chain') <=> i \in 1 .. n \/ i = n + 1
    BY <1>1, <1>2
  <2>2. AppliedBy(Len(chain))' = A \cup {t}
    BY <1>2, <1>6, <2>1 DEF AppliedBy
  <2>3. I \subseteq UtxosAt(n)
    BY <1>6 DEF Include
  <2>4. /\ ValuedSet(UtxosAt(n)) /\ ValuedSet(Produced(n))
        /\ UtxosAt(n) = Produced(n) \ Consumed(n)
    BY <1>1, LedgerValued DEF MoneyInv
  <2>5. A \subseteq Tasks /\ IsFiniteSet(A)
    BY <1>1, AppliedFinite
  <2>6. Balanced(t) /\ ValuedSet(I) /\ ValuedSet(O) /\ offer[t].fee \in Nat
        /\ Total(I) = Total(O) + offer[t].fee
    BY DEF MoneyInv, Balanced
  <2>7. O \cap Produced(n) = {}
    <3>1. ASSUME NEW o \in O, o \in Genesis PROVE FALSE
      <4>1. o.id \in {<<t, 1>>, <<t, 2>>}
        BY <2>6 DEF Balanced
      <4> QED
        BY <3>1, <4>1, BuilderAssumption
    <3>2. ASSUME NEW o \in O, NEW u \in A, o \in offer[u].outputs PROVE FALSE
      <4>1. o.id \in {<<t, 1>>, <<t, 2>>} /\ o.id \in {<<u, 1>>, <<u, 2>>}
        BY <2>5, <2>6, <3>2 DEF Balanced, MoneyInv
      <4> QED
        BY <1>3, <4>1
    <3> QED
      BY <3>1, <3>2 DEF Produced
  <2>8. /\ Produced(Len(chain))' = Produced(n) \cup O
        /\ Consumed(Len(chain))' = Consumed(n) \cup I
        /\ UtxosAt(Len(chain))' = Produced(Len(chain))' \ Consumed(Len(chain))'
    BY <1>1, <2>2 DEF Produced, Consumed, UtxosAt
  <2>9. UtxosAt(Len(chain))' = (UtxosAt(n) \ I) \cup O
    BY <2>3, <2>4, <2>7, <2>8 DEF MoneyInv
  <2>10. Consumed(Len(chain))' \subseteq Produced(Len(chain))'
    BY <2>3, <2>4, <2>8 DEF MoneyInv
  <2>11. /\ Total((UtxosAt(n) \ I) \cup O) = Total(UtxosAt(n)) - Total(I) + Total(O)
         /\ Total(UtxosAt(n)) \in Nat /\ Total(I) \in Nat /\ Total(O) \in Nat
    <3> HIDE DEF I, O, n
    <3>1. /\ ValuedSet(UtxosAt(n) \ I)
          /\ Total(UtxosAt(n)) = Total(I) + Total(UtxosAt(n) \ I)
      BY <2>3, <2>4, TotalSubset
    <3>2. (UtxosAt(n) \ I) \cap O = {}
      BY <2>4, <2>7
    <3>3. Total((UtxosAt(n) \ I) \cup O) = Total(UtxosAt(n) \ I) + Total(O)
      BY <2>6, <3>1, <3>2, TotalUnion
    <3>4. Total(UtxosAt(n)) \in Nat /\ Total(I) \in Nat /\ Total(O) \in Nat
          /\ Total(UtxosAt(n) \ I) \in Nat
      BY <2>4, <2>6, <3>1, TotalInNat
    <3> QED
      BY <3>1, <3>3, <3>4
  <2>12. /\ Total(Lines(A \cup {t}, fees)) = Total(Lines(A, fees)) + offer[t].fee
         /\ Total(Lines(A, fees)) \in Nat
    <3>1. \A d \in A \cup {t} : fees[d] = offer[d].fee /\ fees[d] \in Nat
      BY <2>5 DEF MoneyInv, Balanced
    <3> HIDE DEF A, fees
    <3>2. Total(Lines(A, fees)) \in Nat
      BY <2>5, <3>1, LinesValued, TotalInNat
    <3>3. fees[t] = offer[t].fee /\ fees[t] \in Nat
      BY <3>1
    <3>4. Total(Lines(A \cup {t}, fees)) = Total(Lines(A, fees)) + fees[t]
      BY <1>3, <2>5, <3>1, <3>3, LinesJoin
    <3> QED
      BY <3>2, <3>3, <3>4
  <2>13. /\ Lines(A, fees) = {[id |-> u, value |-> offer[u].fee] : u \in A}
         /\ Lines(A \cup {t}, fees) = {[id |-> u, value |-> offer[u].fee] : u \in A \cup {t}}
    BY <2>5 DEF Lines
  <2>14. Total(UtxosAt(n)) + Total(Lines(A, fees)) = Total(Genesis)
    BY <2>13 DEF MoneyInv, FundsAccountedFor
  <2>15. {[id |-> u, value |-> offer[u].fee] : u \in AppliedBy(Len(chain))}'
            = Lines(A \cup {t}, fees)
    BY <1>1, <2>2, <2>13
  <2>16. Total(UtxosAt(Len(chain))') + Total(Lines(A \cup {t}, fees)) = Total(Genesis)
    <3> HIDE DEF I, O, n, A, fees
    <3> QED
      BY <2>6, <2>9, <2>11, <2>12, <2>14, SMTT(30)
  <2>17. FundsAccountedFor'
    BY <2>15, <2>16 DEF FundsAccountedFor
  <2> QED
    BY <1>4, <2>10, <2>17 DEF MoneyInv
<1> QED
  BY <1>5, <1>6

\* Putting a balanced offer on the wire moves nothing yet: its transaction is
\* not on the chain.
LEMMA SerializeConserves ==
    ASSUME BuilderInv, MoneyInv, NEW t \in Tasks, NEW e, SerializeAndSubmit(t, e),
           wire[t] = "none", UNCHANGED network,
           /\ ValuedSet(e.inputs) /\ ValuedSet(e.outputs) /\ e.fee \in Nat
           /\ \A o \in e.outputs : o.id \in {<<t, 1>>, <<t, 2>>}
           /\ Total(e.inputs) = Total(e.outputs) + e.fee
    PROVE  MoneyInv'
<1>1. \A u \in AppliedBy(Len(chain)) : u \in Tasks \ {t}
  <2>1. TypeOK /\ \A i \in 1 .. Len(chain) : wire[chain[i].task] = "accepted"
    BY DEF BuilderInv, ChainInv
  <2> QED
    BY <2>1, ChainEntries DEF AppliedBy
<1>2. \/ offer' = offer
      \/ offer' = [offer EXCEPT ![t] = e]
  BY DEF SerializeAndSubmit
<1>3. DOMAIN offer = Tasks /\ chain' = chain
  BY DEF BuilderInv, TypeOK, network
<1>4. \A u \in AppliedBy(Len(chain)) : offer'[u] = offer[u]
  BY <1>1, <1>2, <1>3
<1>5. AppliedBy(Len(chain))' = AppliedBy(Len(chain))
  BY <1>3 DEF AppliedBy
<1>6. (\A u \in Tasks : Balanced(u))'
  <2>1. ASSUME NEW u \in Tasks PROVE offer'[u] = offer[u] \/ (u = t /\ offer'[u] = e)
    BY <1>2, <1>3
  <2> QED
    BY <2>1 DEF MoneyInv, Balanced
<1> QED
  BY <1>4, <1>5, <1>6, LedgerUnmoved

\* A step of a call conserves the funds, whatever it builds.
LEMMA CallStepConserves ==
    ASSUME BuilderInv, MoneyInv, NEW t \in Tasks, CallStep(t)
    PROVE  MoneyInv'
<1>1. ASSUME UNCHANGED <<offer, chain>> PROVE MoneyInv'
  BY <1>1, LedgerUnmoved DEF MoneyInv, Balanced, AppliedBy
<1>2. TypeOK /\ UNCHANGED network /\ pc[t] # "idle"
  BY DEF BuilderInv, CallStep, FetchFails, FetchAnswered, HealthFails, HealthAnswered,
         ProofAnswered, ProofFails, SubmitAnswered, SubmitRejected, SubmitBreaks,
         PollFinds, WaitTimesOut
<1>3. pc[t] \in {"fetch", "health", "prove"} => wire[t] = "none"
  BY DEF BuilderInv, CallInv, CallOK
<1>4. CASE FetchAnswered(t)
  <2>1. PICK n \in since[t] .. indexed :
            \/ UNCHANGED offer
            \/ \E selected \in Selections(EligibleAt(t, n), Required(t)) :
                   SerializeAndSubmit(t, BuildOffer(t, selected))
    BY <1>4 DEF FetchAnswered
  <2>2. CASE \E selected \in Selections(EligibleAt(t, n), Required(t)) :
                 SerializeAndSubmit(t, BuildOffer(t, selected))
    <3>1. PICK selected \in Selections(EligibleAt(t, n), Required(t)) :
                   SerializeAndSubmit(t, BuildOffer(t, selected))
      BY <2>2
    <3>2. n \in 0 .. Len(chain)
      BY <1>2 DEF TypeOK
    <3>3. ValuedSet(EligibleAt(t, n))
      <4>1. ValuedSet(UtxosAt(n))
        BY <1>2, <3>2, LedgerValued DEF MoneyInv
      <4> QED
        BY <4>1, FS_Subset DEF ValuedSet, EligibleAt
    <3>4. PaidAmount(t) \in Nat /\ call[t].fee \in Nat
      BY <1>2, BuilderAssumption DEF TypeOK, PaidAmount
    <3>5. pc[t] = "fetch"
      BY <1>4 DEF FetchAnswered
    <3> DEFINE e == BuildOffer(t, selected)
    <3>6. /\ ValuedSet(e.inputs) /\ ValuedSet(e.outputs) /\ e.fee \in Nat
          /\ \A o \in e.outputs : o.id \in {<<t, 1>>, <<t, 2>>}
          /\ Total(e.inputs) = Total(e.outputs) + e.fee
      BY <3>3, <3>4, BuilderAssumption, OfferBalances
    <3>7. SerializeAndSubmit(t, e)
      BY <3>1
    <3> HIDE DEF e
    <3> QED
      BY <1>2, <1>3, <3>5, <3>6, <3>7, SerializeConserves
  <2> QED
    BY <1>1, <1>2, <2>1, <2>2 DEF network
<1>5. CASE (HealthAnswered(t) \/ ProofAnswered(t)) /\ SerializeAndSubmit(t, NoOffer)
  <2>1. /\ ValuedSet(NoOffer.inputs) /\ ValuedSet(NoOffer.outputs) /\ NoOffer.fee \in Nat
        /\ \A o \in NoOffer.outputs : o.id \in {<<t, 1>>, <<t, 2>>}
        /\ Total(NoOffer.inputs) = Total(NoOffer.outputs) + NoOffer.fee
    BY TotalEmpty, FS_EmptySet DEF NoOffer, ValuedSet
  <2>2. wire[t] = "none"
    BY <1>3, <1>5 DEF HealthAnswered, ProofAnswered
  <2> QED
    BY <1>2, <1>5, <2>1, <2>2, SerializeConserves
<1>6. CASE UNCHANGED offer
  BY <1>1, <1>2, <1>6 DEF network
<1> QED
  BY <1>4, <1>5, <1>6 DEF CallStep, FetchFails, HealthFails, HealthAnswered, ProofAnswered,
         ProofFails, SubmitAnswered, SubmitRejected, SubmitBreaks, PollFinds, WaitTimesOut

\* At first the ledger holds the initial funds, and no offer has been made.
LEMMA InitConserves == Init => MoneyInv
<1> SUFFICES ASSUME Init PROVE MoneyInv
  OBVIOUS
<1>1. \A t \in Tasks : Balanced(t)
  <2> SUFFICES ASSUME NEW t \in Tasks PROVE Balanced(t)
    OBVIOUS
  <2>1. offer[t].inputs = {} /\ offer[t].outputs = {} /\ offer[t].fee = 0
    BY DEF Init, NoOffer
  <2>2. ValuedSet({})
    BY FS_EmptySet DEF ValuedSet
  <2> QED
    BY <2>1, <2>2, TotalEmpty DEF Balanced
<1>2. AppliedBy(Len(chain)) = {}
  BY DEF Init, AppliedBy
<1>3. UtxosAt(Len(chain)) = Genesis /\ Consumed(Len(chain)) = {}
  BY <1>2 DEF UtxosAt, Consumed
<1>4. Total(Genesis) \in Nat
  BY BuilderAssumption, TotalInNat DEF ValuedSet
<1>5. {[id |-> t, value |-> offer[t].fee] : t \in AppliedBy(Len(chain))} = {}
  BY <1>2
<1>6. FundsAccountedFor
  BY <1>3, <1>4, <1>5, TotalEmpty, SMTT(30) DEF FundsAccountedFor
<1> QED
  BY <1>1, <1>3, <1>6 DEF MoneyInv

\* Whatever the calls and their interleaving, the ledger and the fees of what
\* took effect add up to the wallet's initial funds: each offer balances, a
\* UTXO is consumed once, and an output is never mistaken for another
\* (_build_unshielded_transfer).
THEOREM FundsConserved == Spec => []FundsAccountedFor
<1>1. BuilderInv /\ MoneyInv /\ [Next]_vars => MoneyInv'
  <2> SUFFICES ASSUME BuilderInv, MoneyInv, [Next]_vars PROVE MoneyInv'
    OBVIOUS
  <2>1. CASE UNCHANGED <<offer, chain>>
    BY <2>1, LedgerUnmoved DEF MoneyInv, Balanced, AppliedBy
  <2>2. ASSUME NEW t \in Tasks, Start(t) PROVE MoneyInv'
    BY <2>1, <2>2 DEF Start, Begin, BeginShielded, BeginBadAddress, network
  <2>3. CASE ServiceStep
    BY <2>1, <2>3, IncludeConserves DEF ServiceStep, Disconnect, IndexNext, NodeAccepts,
           NodeRejects, DropFromPool, local, network
  <2>4. CASE UNCHANGED vars
    BY <2>1, <2>4 DEF vars, local, network
  <2> QED
    BY <2>2, <2>3, <2>4, CallStepConserves DEF Next, Finished
<1>2. MoneyInv => FundsAccountedFor
  BY DEF MoneyInv
<1> QED
  BY <1>1, <1>2, InitConserves, BuilderInvariant, PTL DEF Spec

-----------------------------------------------------------------------------
(* The calls implement TransferContract. *)

\* The step of the contract that a change of one promise is.
LEMMA PromiseStep ==
    ASSUME NEW t \in Tasks, UNCHANGED chain,
           \A u \in Tasks \ {t} : pc'[u] = pc[u] /\ result'[u] = result[u],
           \/ Promise(t)' = Promise(t)
           \/ Promise(t) = "idle" /\ Promise(t)' = "running"
           \/ /\ Promise(t) \in {"idle", "running"} /\ Promise(t)' = "no effect"
              /\ t \notin AppliedBy(Len(chain))
           \/ /\ Promise(t) = "running" /\ Promise(t)' = "confirmed"
              /\ t \in AppliedBy(Len(chain))
           \/ Promise(t) = "running" /\ Promise(t)' = "unknown"
    PROVE  [Contract!Next]_(Contract!vars)
<1> DEFINE promise == [u \in Tasks |-> Promise(u)]
<1>1. AppliedBy(Len(chain))' = AppliedBy(Len(chain))
  BY DEF AppliedBy
<1>2. \A u \in Tasks \ {t} : Promise(u)' = Promise(u)
  BY DEF Promise
<1>3. promise' = [promise EXCEPT ![t] = Promise(t)']
  BY <1>2
<1>4. promise[t] = Promise(t)
  OBVIOUS
<1>5. CASE Promise(t)' = Promise(t)
  BY <1>1, <1>2, <1>5 DEF Contract!vars
<1>6. CASE Promise(t) = "idle" /\ Promise(t)' = "running"
  BY <1>1, <1>3, <1>6 DEF Contract!Next, Contract!Begin
<1>7. CASE /\ Promise(t) \in {"idle", "running"} /\ Promise(t)' = "no effect"
           /\ t \notin AppliedBy(Len(chain))
  BY <1>1, <1>3, <1>7 DEF Contract!Next, Contract!Refuse
<1>8. CASE /\ Promise(t) = "running" /\ Promise(t)' = "confirmed"
           /\ t \in AppliedBy(Len(chain))
  BY <1>1, <1>3, <1>8 DEF Contract!Next, Contract!Answer, Contract!Confirm
<1>9. CASE Promise(t) = "running" /\ Promise(t)' = "unknown"
  BY <1>1, <1>3, <1>9 DEF Contract!Next, Contract!Answer, Contract!GiveUp
<1> QED
  BY <1>5, <1>6, <1>7, <1>8, <1>9

\* What the chain says of a call that has ended.
Justified ==
    \A t \in Tasks : pc[t] = "done" =>
        \/ Promise(t) = "confirmed" /\ t \in AppliedBy(Len(chain))
        \/ Promise(t) = "no effect" /\ t \notin AppliedBy(Len(chain))
        \/ Promise(t) = "unknown"

LEMMA AnswersJustified == BuilderInv => Justified
<1> SUFFICES ASSUME BuilderInv, NEW t \in Tasks, pc[t] = "done"
             PROVE  \/ Promise(t) = "confirmed" /\ t \in AppliedBy(Len(chain))
                    \/ Promise(t) = "no effect" /\ t \notin AppliedBy(Len(chain))
                    \/ Promise(t) = "unknown"
  BY DEF Justified
<1>1. /\ TypeOK /\ ChainInv /\ CallOK(t)
      /\ indexed \in 0 .. Len(chain) /\ Len(chain) \in Nat
  BY DEF BuilderInv, CallInv, TypeOK
<1>2. CASE result[t] \in Applied
  <2>1. PICK i \in 1 .. indexed : chain[i] = [task |-> t, status |-> result[t]]
    BY <1>1, <1>2 DEF CallOK, Applied, Statuses
  <2>2. i \in 1 .. Len(chain) /\ chain[i].task = t /\ chain[i].status \in Applied
    BY <1>1, <1>2, <2>1
  <2>3. t \in AppliedBy(Len(chain))
    BY <2>2 DEF AppliedBy
  <2>4. result[t] \notin SafeToRetry \cup {"FAILURE"}
    BY <1>2 DEF Applied, SafeToRetry, Errors
  <2> QED
    BY <1>2, <2>3, <2>4 DEF Promise
<1>3. CASE result[t] = "FAILURE"
  <2>1. PICK i \in 1 .. indexed : chain[i] = [task |-> t, status |-> "FAILURE"]
    BY <1>1, <1>3 DEF CallOK, Statuses
  <2>2. i \in 1 .. Len(chain) /\ chain[i].task = t /\ chain[i].status \notin Applied
    BY <1>1, <2>1 DEF Applied
  <2>3. \A j \in 1 .. Len(chain) : chain[j].task = t => chain[j].status \notin Applied
    BY <1>1, <2>2 DEF ChainInv, AppliedOnce
  <2>4. t \notin AppliedBy(Len(chain))
    BY <2>3 DEF AppliedBy
  <2> QED
    BY <1>3, <2>4 DEF Promise, Applied
<1>4. CASE result[t] \in SafeToRetry
  <2>1. \A j \in 1 .. Len(chain) : chain[j].task # t
    BY <1>1, <1>4 DEF CallOK, ChainInv
  <2>2. t \notin AppliedBy(Len(chain))
    BY <2>1 DEF AppliedBy
  <2>3. result[t] \notin Applied
    BY <1>4 DEF Applied, SafeToRetry, Errors
  <2> QED
    BY <1>4, <2>2, <2>3 DEF Promise
<1>5. CASE result[t] \notin Applied \cup SafeToRetry \cup {"FAILURE"}
  BY <1>5 DEF Promise
<1> QED
  BY <1>2, <1>3, <1>4, <1>5

\* A step of a call that is under way changes its promise as the contract
\* allows.
LEMMA CallStepRefines ==
    ASSUME BuilderInv, BuilderInv', NEW t \in Tasks, CallStep(t)
    PROVE  [Contract!Next]_(Contract!vars)
<1>0. Justified'
  BY AnswersJustified, PTL
<1>1. /\ pc[t] \notin {"idle", "done"} /\ pc'[t] # "idle" /\ UNCHANGED chain
      /\ \A u \in Tasks \ {t} : pc'[u] = pc[u] /\ result'[u] = result[u]
  <2>1. pc \in [Tasks -> PCs] /\ result \in [Tasks -> {"none"} \cup Statuses \cup Errors]
    BY DEF BuilderInv, TypeOK, PCs
  <2>2. ASSUME NEW e, Raise(t, e)
        PROVE  /\ pc'[t] = "done"
               /\ \A u \in Tasks \ {t} : pc'[u] = pc[u] /\ result'[u] = result[u]
    BY <2>1, <2>2 DEF Raise
  <2>3. ASSUME NEW e, SerializeAndSubmit(t, e)
        PROVE  /\ pc'[t] \in {"done", "submit"}
               /\ \A u \in Tasks \ {t} : pc'[u] = pc[u] /\ result'[u] = result[u]
    BY <2>1, <2>2, <2>3 DEF SerializeAndSubmit
  <2>4. CASE FetchAnswered(t)
    BY <2>1, <2>2, <2>3, <2>4 DEF FetchAnswered, network
  <2>5. CASE HealthAnswered(t)
    BY <2>1, <2>3, <2>5 DEF HealthAnswered, network
  <2>6. CASE ProofAnswered(t)
    BY <2>1, <2>3, <2>6 DEF ProofAnswered, network
  <2>7. CASE FetchFails(t) \/ HealthFails(t) \/ ProofFails(t)
    BY <2>1, <2>2, <2>7 DEF FetchFails, HealthFails, ProofFails, network
  <2>8. CASE SubmitAnswered(t) \/ SubmitRejected(t) \/ SubmitBreaks(t)
    BY <2>1, <2>2, <2>8 DEF SubmitAnswered, SubmitRejected, SubmitBreaks, network
  <2>9. CASE PollFinds(t) \/ WaitTimesOut(t)
    BY <2>1, <2>2, <2>9 DEF PollFinds, WaitTimesOut, network
  <2> QED
    BY <2>4, <2>5, <2>6, <2>7, <2>8, <2>9 DEF CallStep
<1>2. Promise(t) = "running"
  BY <1>1 DEF Promise
<1>3. CASE pc'[t] # "done"
  <2>1. Promise(t)' = "running"
    BY <1>1, <1>3 DEF Promise
  <2> QED
    BY <1>1, <1>2, <2>1, PromiseStep
<1>4. CASE pc'[t] = "done"
  <2>1. \/ Promise(t)' = "confirmed" /\ t \in AppliedBy(Len(chain))'
        \/ Promise(t)' = "no effect" /\ t \notin AppliedBy(Len(chain))'
        \/ Promise(t)' = "unknown"
    BY <1>0, <1>4 DEF Justified
  <2>2. AppliedBy(Len(chain))' = AppliedBy(Len(chain))
    BY <1>1 DEF AppliedBy
  <2> QED
    BY <1>1, <1>2, <2>1, <2>2, PromiseStep
<1> QED
  BY <1>3, <1>4

\* A call that begins is running, or has been refused.
LEMMA StartRefines ==
    ASSUME BuilderInv, NEW t \in Tasks, Start(t)
    PROVE  [Contract!Next]_(Contract!vars)
<1>1. pc[t] = "idle" /\ UNCHANGED chain
  BY DEF Start, Begin, BeginShielded, BeginBadAddress, network
<1>2. \/ pc' = [pc EXCEPT ![t] = "fetch"] /\ UNCHANGED result
      \/ \E e \in {"TransactionError", "AddressError"} : Raise(t, e)
  BY DEF Start, Begin, BeginShielded, BeginBadAddress
<1>3. pc \in [Tasks -> PCs] /\ result \in [Tasks -> {"none"} \cup Statuses \cup Errors]
  BY DEF BuilderInv, TypeOK, PCs
<1>4. \A u \in Tasks \ {t} : pc'[u] = pc[u] /\ result'[u] = result[u]
  BY <1>2, <1>3 DEF Raise
<1>5. Promise(t) = "idle"
  BY <1>1 DEF Promise
<1>6. CASE pc' = [pc EXCEPT ![t] = "fetch"] /\ UNCHANGED result
  <2>1. pc'[t] = "fetch"
    BY <1>3, <1>6
  <2>2. Promise(t)' = "running"
    BY <2>1 DEF Promise
  <2> QED
    BY <1>1, <1>4, <1>5, <2>2, PromiseStep
<1>7. CASE \E e \in {"TransactionError", "AddressError"} : Raise(t, e)
  <2>1. pc'[t] = "done" /\ result'[t] \in {"TransactionError", "AddressError"}
    BY <1>3, <1>7 DEF Raise
  <2>2. result'[t] \in SafeToRetry /\ result'[t] \notin Applied
    BY <2>1 DEF SafeToRetry, Errors, Applied
  <2>3. Promise(t)' = "no effect"
    BY <2>1, <2>2 DEF Promise
  <2>4. \A i \in 1 .. Len(chain) : chain[i].task # t
    BY <1>1 DEF BuilderInv, CallInv, CallOK, ChainInv
  <2>5. t \notin AppliedBy(Len(chain))
    BY <2>4 DEF AppliedBy
  <2> QED
    BY <1>1, <1>4, <1>5, <2>3, <2>5, PromiseStep
<1> QED
  BY <1>2, <1>6, <1>7

\* A transaction that enters a block takes effect under a call that is still
\* running or has given up, or has no effect.
LEMMA IncludeRefines ==
    ASSUME BuilderInv, NEW t \in Tasks, NEW status \in Statuses, Include(t, status)
    PROVE  [Contract!Next]_(Contract!vars)
<1> DEFINE n == Len(chain)
           promise == [u \in Tasks |-> Promise(u)]
<1>1. /\ TypeOK /\ chain \in Seq(Entry) /\ n \in Nat
      /\ chain' = Append(chain, [task |-> t, status |-> status]) /\ t \in pool
      /\ UNCHANGED <<pc, result>>
  BY DEF BuilderInv, TypeOK, Include, local
<1>2. /\ Len(chain') = n + 1 /\ chain'[n + 1] = [task |-> t, status |-> status]
      /\ \A i \in 1 .. n : chain'[i] = chain[i]
  BY <1>1
<1>3. promise' = promise
  BY <1>1 DEF Promise
<1>4. \A i \in 1 .. n : chain[i].task # t
  BY <1>1 DEF BuilderInv, ChainInv
<1>5. CASE status \notin Applied
  <2>1. \A i \in 1 .. Len(chain') : chain'[i].status \in Applied => i \in 1 .. n
    BY <1>1, <1>2, <1>5
  <2>2. AppliedBy(Len(chain))' = AppliedBy(Len(chain))
    BY <1>1, <1>2, <2>1 DEF AppliedBy
  <2> QED
    BY <1>3, <2>2 DEF Contract!vars
<1>6. CASE status \in Applied
  <2>1. \A i : i \in 1 .. Len(chain') <=> i \in 1 .. n \/ i = n + 1
    BY <1>1, <1>2
  <2>2. AppliedBy(Len(chain))' = AppliedBy(Len(chain)) \cup {t}
    BY <1>2, <1>6, <2>1 DEF AppliedBy
  <2>3. t \notin AppliedBy(Len(chain))
    BY <1>4 DEF AppliedBy
  <2>4. wire[t] = "accepted" /\ CallOK(t)
    BY <1>1 DEF BuilderInv, ChainInv, CallInv
  <2>5. pc[t] # "idle"
    BY <2>4 DEF CallOK
  <2>6. result[t] \notin Statuses
    <3>1. indexed \in 0 .. n
      BY <1>1 DEF TypeOK
    <3> QED
      BY <1>1, <1>4, <2>4, <3>1 DEF CallOK
  <2>7. result[t] \notin SafeToRetry
    BY <2>4 DEF CallOK
  <2>8. Promise(t) \in {"running", "unknown"}
    BY <2>5, <2>6, <2>7 DEF Promise, Statuses, Applied
  <2> QED
    BY <1>3, <2>2, <2>3, <2>8 DEF Contract!Next, Contract!Apply
<1> QED
  BY <1>5, <1>6

LEMMA NextRefines ==
    BuilderInv /\ BuilderInv' /\ [Next]_vars => [Contract!Next]_(Contract!vars)
<1> SUFFICES ASSUME BuilderInv, BuilderInv', [Next]_vars
             PROVE  [Contract!Next]_(Contract!vars)
  OBVIOUS
<1>1. ASSUME UNCHANGED <<pc, result, chain>> PROVE [Contract!Next]_(Contract!vars)
  BY <1>1 DEF Contract!vars, Promise, AppliedBy
<1>2. CASE ServiceStep
  <2>1. CASE \E t \in Tasks, status \in Statuses : Include(t, status)
    BY <2>1, IncludeRefines
  <2>2. CASE UNCHANGED <<pc, result, chain>>
    BY <1>1, <2>2
  <2> QED
    BY <1>2, <2>1, <2>2 DEF ServiceStep, Disconnect, IndexNext, NodeAccepts, NodeRejects,
                            DropFromPool, local, network
<1>3. CASE UNCHANGED vars
  BY <1>1, <1>3 DEF vars, local, network
<1> QED
  BY <1>2, <1>3, StartRefines, CallStepRefines DEF Next, Finished

\* The calls keep what TransferContract promises their callers, but for its
\* liveness: "no effect" and success are answered only where they are true
\* and stay true, and a transaction takes effect only under a call that is
\* running or has ended without knowing (transfer, call_contract and
\* deploy_contract down to _wait_for_receipt).
THEOREM ImplementsContract == Spec => Contract!Init /\ [][Contract!Next]_(Contract!vars)
<1>1. Init => Contract!Init
  <2> SUFFICES ASSUME Init PROVE Contract!Init
    OBVIOUS
  <2>1. \A t \in Tasks : Promise(t) = "idle"
    BY DEF Init, Promise
  <2>2. AppliedBy(Len(chain)) = {}
    BY DEF Init, AppliedBy
  <2> QED
    BY <2>1, <2>2 DEF Contract!Init
<1> QED
  BY <1>1, NextRefines, BuilderInvariant, PTL DEF Spec

=============================================================================
