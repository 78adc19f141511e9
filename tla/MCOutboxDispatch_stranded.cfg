\* One poller; a publish fails, and then the UPDATE that makes the row
\* retryable fails too.
CONSTANTS
    u1 = u1
    x1 = x1
    x2 = x2
    x3 = x3
    t1 = t1
    t2 = t2
    Rows = {x1}
    Transactions = {t1}
    transaction <- MCTransactionEach
    partitionKey <- MCPartitionKey
    Pollers = {p1}
    NoRow = NoRow
    BatchSize = 2
    SendTries = 2
    Faults = {"publish", "reset"}
    MaxFaults = 2
SPECIFICATION FairSpec
PROPERTIES
    EveryRowPublished
CHECK_DEADLOCK FALSE
