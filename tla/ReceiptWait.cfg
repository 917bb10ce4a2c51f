\* The clock of the wait with the default timeout, on the indexer's answers and
\* on the testkit's.
SPECIFICATION WaitSpec
CONSTANTS
    Timeout = 120
    Latencies = {0, 1, 10}
    MaxLatency = 10
    ShownTimes = {0, 60, 100, 119, 200}
    ResultKeys = {"transactionResult", "transaction_result"}
INVARIANTS
    OvershootBounded
    AskedNearDeadline
    PollsSpaced
