\* Two requests of one user that may overlap, two areas, a poller that takes
\* one row at a time and whose calls to Kafka and status updates fail, and a
\* consumer that fails too.
CONSTANTS
    u1 = u1
    Users = {u1}
    Areas = {a1, a2}
    Requests = {r1, r2}
    Timestamps = {1, 2}
    LegacyStamps = {}
    sender <- MCsender
    Pollers = {p1}
    BatchSize = 1
    NoEvent = NoEvent
    SendTries = 2
    DispatchFaults = {"publish", "mark"}
    MaxDispatchFaults = 1
    Consumers = {c1}
    NoConsumer = NoConsumer
    Established = TRUE
    MaxConsumerFaults = 1
SPECIFICATION FairSpec
INVARIANTS
    IInv
    NothingLost
    LogTellsMembership
    OrderedWhenSerial
PROPERTIES
    DeliversTransitions
    EveryRowPublished
CHECK_DEADLOCK FALSE
