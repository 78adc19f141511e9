\* Two instances, two rows of one transaction and one of another, and up to
\* four failures of any kind.
CONSTANTS
    u1 = u1
    x1 = x1
    x2 = x2
    x3 = x3
    t1 = t1
    t2 = t2
    Rows = {x1, x2, x3}
    Transactions = {t1, t2}
    transaction <- MCTransaction
    partitionKey <- MCPartitionKey
    Pollers = {p1, p2}
    NoRow = NoRow
    BatchSize = 2
    SendTries = 2
    Faults = {"claim", "ack", "publish", "mark", "reset", "crash"}
    MaxFaults = 4
SYMMETRY MCSymmetry
SPECIFICATION Spec
INVARIANTS
    ClaimedByOne
    PublishedWasSent
    DuplicatesAreAttempts
    StrandedBounded
    IInv
PROPERTIES
    RelaysRows
CHECK_DEADLOCK FALSE
