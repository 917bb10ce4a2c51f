----------------------------- MODULE ReceiptWait -----------------------------
(***************************************************************************)
(* The clock of TransactionBuilder._wait_for_receipt: polls of the         *)
(* indexer, each up to three requests of get_transactions, separated by    *)
(* growing delays until a deadline.  Time is counted in seconds; requests  *)
(* take one of a set of latencies, everything else takes no time.          *)
(***************************************************************************)
EXTENDS Integers

CONSTANTS
    Timeout,     \* the timeout argument, 120
    Latencies,   \* how long a request may take
    MaxLatency,  \* the longest of them: the limit of the GraphQL client
    ShownTimes,  \* when the indexer may begin to show the transaction's result
    ResultKeys   \* keys under which an indexer may write the result

ASSUME WaitAssumption ==
    /\ Timeout \in Nat
    /\ MaxLatency \in Nat
    /\ Latencies \subseteq 0 .. MaxLatency
    /\ ShownTimes \subseteq Nat

\* retry(stop=stop_after_attempt(3)) on get_transactions
GetTransactionsAttempts == 3

VARIABLES
    phase,        \* "check" the deadline, "request", "sleep" or "done"
    now,          \* event loop time since the call
    retry_count,
    attempt,      \* failed requests of this poll
    asked,        \* history: when the last request was sent
    swallowed,    \* history: the last poll ended in an exception
    shown,        \* when the indexer begins to show the result
    result_key,   \* the key this indexer writes the result under
    result

waitVars == <<phase, now, retry_count, attempt, asked, swallowed, shown,
              result_key, result>>

WaitInit ==
    /\ phase = "check"
    /\ now = 0
    /\ retry_count = 0
    /\ attempt = 0
    /\ asked = 0
    /\ swallowed = FALSE
    /\ shown \in ShownTimes
    /\ result_key \in ResultKeys
    /\ result = "none"

\* The while condition.
Check ==
    /\ phase = "check"
    /\ \/ /\ now < Timeout
          /\ phase' = "request"
          /\ attempt' = 0
          /\ asked' = now
          /\ UNCHANGED result
       \/ /\ now >= Timeout
          /\ phase' = "done"
          /\ result' = "TransactionTimeoutError"
          /\ UNCHANGED <<attempt, asked>>
    /\ UNCHANGED <<now, retry_count, swallowed, shown, result_key>>

\* An answer is the indexer's state at some moment between the request and
\* its arrival.  Transaction reads the result under "transaction_result" only,
\* as the testkit's indexer writes it; the query asks for transactionResult.
MayFind(seconds) == result_key = "transaction_result" /\ shown <= now + seconds
MayMiss == result_key # "transaction_result" \/ shown > now

\* get_transactions is answered, with the result or without.  Building the
\* receipt may raise (a null fee, an event whose data is null): the exception
\* is swallowed like that of a failed request.
RequestAnswered(seconds) ==
    /\ phase = "request"
    /\ now' = now + seconds
    /\ \/ /\ MayFind(seconds)
          /\ \/ phase' = "done" /\ result' = "receipt" /\ swallowed' = FALSE
             \/ phase' = "sleep" /\ UNCHANGED result /\ swallowed' = TRUE
       \/ /\ MayMiss
          /\ phase' = "sleep"
          /\ swallowed' = FALSE
          /\ UNCHANGED result
    /\ UNCHANGED <<retry_count, attempt, asked, shown, result_key>>

\* wait_exponential(min=1, max=10) after the n-th of three attempts.
RetryWait(n) == IF n = 1 THEN 1 ELSE 2

\* A request fails: tenacity waits and retries; after the third failure
\* "except Exception: pass" goes on to the delay.
RequestFails(seconds) ==
    /\ phase = "request"
    /\ attempt' = attempt + 1
    /\ \/ /\ attempt + 1 < GetTransactionsAttempts
          /\ now' = now + seconds + RetryWait(attempt + 1)
          /\ asked' = now'
          /\ UNCHANGED <<phase, swallowed>>
       \/ /\ attempt + 1 >= GetTransactionsAttempts
          /\ now' = now + seconds
          /\ swallowed' = TRUE
          /\ phase' = "sleep"
          /\ UNCHANGED asked
    /\ UNCHANGED <<retry_count, shown, result_key, result>>

MaxDelay == 10

\* Faulty: the delay is not capped.
DelayUncapped(n) == 2 * (n + 1)

\* Faulty: no delay before the second poll.
DelayFromZero(n) == IF 2 * n < MaxDelay THEN 2 * n ELSE MaxDelay

\* delay = min(10, 2 * (retry_count + 1))
Delay(n) == IF 2 * (n + 1) < MaxDelay THEN 2 * (n + 1) ELSE MaxDelay

\* await asyncio.sleep(delay)
Sleep ==
    /\ phase = "sleep"
    /\ now' = now + Delay(retry_count)
    /\ retry_count' = retry_count + 1
    /\ phase' = "check"
    /\ UNCHANGED <<attempt, asked, swallowed, shown, result_key, result>>

WaitNext ==
    \/ Check
    \/ \E seconds \in Latencies : RequestAnswered(seconds) \/ RequestFails(seconds)
    \/ Sleep
    \/ phase = "done" /\ UNCHANGED waitVars

WaitSpec == WaitInit /\ [][WaitNext]_waitVars

-----------------------------------------------------------------------------
WaitTypeOK ==
    /\ phase \in {"check", "request", "sleep", "done"}
    /\ now \in Nat
    /\ retry_count \in Nat
    /\ attempt \in 0 .. GetTransactionsAttempts
    /\ asked \in Nat
    /\ swallowed \in BOOLEAN
    /\ shown \in ShownTimes
    /\ result_key \in ResultKeys
    /\ result \in {"none", "receipt", "TransactionTimeoutError"}

\* The deadline is looked at between polls only, so the call may outlast it,
\* but by no more than one poll of three slow requests and one delay (lines
\* 566-597).
OvershootBounded == now < Timeout + 3 * MaxLatency + 3 + MaxDelay

\* The wait is never blind for long before it gives up: whatever its polls
\* ended in, swallowed exceptions of requests and of receipts included, the
\* last request was sent at most one request and one delay before the deadline
\* (lines 566, 591-597).
AskedNearDeadline ==
    result = "TransactionTimeoutError" => asked >= Timeout - MaxLatency - MaxDelay

\* The growing delays bound the load on the indexer: each poll has ten
\* seconds of its own, but for 20 seconds saved by the short delays at the
\* start.
PollsSpaced == MaxDelay * retry_count <= now + 20

\* "Exponential backoff: 2s, 4s, 8s, 16s... up to 10s": the delay after the
\* n-th poll.
ExponentialBackoff ==
    [][retry_count' = retry_count + 1 =>
           now' - now = IF 2 ^ (retry_count + 1) < 10 THEN 2 ^ (retry_count + 1) ELSE 10]_waitVars

\* "Poll Indexer until tx is finalized": a transaction that was shown from the
\* start does not time out when the last poll ended without an exception.
FinalizedIsFound ==
    (result = "TransactionTimeoutError" /\ ~swallowed) => shown > 0
=============================================================================
