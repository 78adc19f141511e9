\* Two overlapping requests of one user about one area, which may be created
\* meanwhile; a failed publish or mark, and a failure of the consumer.
CONSTANTS
    u1 = u1
    a1 = a1
    k1 = k1
    outside = outside
    in1 = in1
    Users = {u1}
    Areas = {a1}
    Points = {outside, in1}
    Covers <- MCCovers
    LockKeys = {k1}
    hashtext <- MChashtext
    Requests = {r1, r2}
    NoRequest = NoRequest
    NoCommand = NoCommand
    Timestamps = {1, 2}
    LegacyStamps = {}
    PoolSize = 2
    sender <- MCsender
    Pollers = {p1}
    BatchSize = 2
    NoEvent = NoEvent
    SendTries = 2
    DispatchFaults = {"ack", "publish", "mark"}
    MaxDispatchFaults = 1
    Consumers = {c1}
    NoConsumer = NoConsumer
    Established = TRUE
    MaxConsumerFaults = 1
SPECIFICATION SystemFairSpec
INVARIANTS
    SystemInv
    AnsweredIsNotLost
    NothingElseIsLogged
PROPERTIES
    ImplementsPipeline
    AnsweredIsLogged
CHECK_DEADLOCK FALSE
