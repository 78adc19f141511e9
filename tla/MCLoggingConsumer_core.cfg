\* Two instances, a partition of up to three messages with repetitions, and
\* up to two faults of any kind.
CONSTANTS
    e1 = e1
    e2 = e2
    bad = bad
    Consumers = {c1, c2}
    NoConsumer = NoConsumer
    Messages = {e1, e2, bad}
    kind <- MCKind
    Established = TRUE
    MaxMessages = 3
    MaxFaults = 2
SPECIFICATION FairSpec
INVARIANTS
    OneRowPerEvent
    CommittedIsSettled
    IInv
PROPERTIES
    EveryMessageSettled
    OffsetsMoveForward
    LogsOnlyEvents
CHECK_DEADLOCK FALSE
