-------------------------- MODULE TransferContract --------------------------
(***************************************************************************)
(* What transfer, call_contract and deploy_contract promise their callers, *)
(* with the services left out.  A call either has no effect and says so,   *)
(* or takes effect once and says so, or does not know.  Only in the last   *)
(* case may its transaction still take effect after the call has ended.    *)
(***************************************************************************)
CONSTANT Tasks

VARIABLES
    promise,   \* what each call has told its caller
    applied    \* the calls whose transaction has taken effect

vars == <<promise, applied>>

Init ==
    /\ promise = [t \in Tasks |-> "idle"]
    /\ applied = {}

\* The application makes the call.
Begin(t) ==
    /\ promise[t] = "idle"
    /\ promise' = [promise EXCEPT ![t] = "running"]
    /\ UNCHANGED applied

\* The transaction takes effect: while the call runs or after it gave up.
Apply(t) ==
    /\ promise[t] \in {"running", "unknown"}
    /\ t \notin applied
    /\ applied' = applied \cup {t}
    /\ UNCHANGED promise

\* An exception that says nothing has happened, or a receipt of a failure.
Refuse(t) ==
    /\ promise[t] \in {"idle", "running"}
    /\ t \notin applied
    /\ promise' = [promise EXCEPT ![t] = "no effect"]
    /\ UNCHANGED applied

\* A receipt of a transaction that took effect.
Confirm(t) ==
    /\ promise[t] = "running"
    /\ t \in applied
    /\ promise' = [promise EXCEPT ![t] = "confirmed"]
    /\ UNCHANGED applied

\* The timeout, or a connection lost under the submission.
GiveUp(t) ==
    /\ promise[t] = "running"
    /\ promise' = [promise EXCEPT ![t] = "unknown"]
    /\ UNCHANGED applied

Answer(t) == (promise[t] = "running" /\ Refuse(t)) \/ Confirm(t) \/ GiveUp(t)

Next == \E t \in Tasks : Begin(t) \/ Apply(t) \/ Refuse(t) \/ Answer(t)

\* Every call is answered.
Spec == Init /\ [][Next]_vars /\ \A t \in Tasks : WF_vars(Answer(t))
=============================================================================
