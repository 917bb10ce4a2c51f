\* The wait when the indexer answers with the field its query asks for, and the
\* delays against the comment that describes them.
SPECIFICATION WaitSpec
CONSTANTS
    Timeout = 120
    Latencies = {0, 1, 10}
    MaxLatency = 10
    ShownTimes = {0, 60, 100, 119, 200}
    ResultKeys = {"transactionResult"}
INVARIANTS
    FinalizedIsFound
PROPERTIES
    ExponentialBackoff
