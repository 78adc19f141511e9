\* One poller, one row at a time, and no failure at all.
CONSTANTS
    u1 = u1
    x1 = x1
    x2 = x2
    x3 = x3
    t1 = t1
    t2 = t2
    Rows = {x1, x2}
    Transactions = {t1, t2}
    transaction <- MCTransactionEach
    partitionKey <- MCPartitionKey
    Pollers = {p1}
    NoRow = NoRow
    BatchSize = 1
    SendTries = 2
    Faults = {}
    MaxFaults = 0
SPECIFICATION Spec
INVARIANTS
    PerUserOrder
CHECK_DEADLOCK FALSE
