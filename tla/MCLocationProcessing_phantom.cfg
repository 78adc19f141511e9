\* An area created between the spatial query and the transaction of a request.
CONSTANTS
    a1 = a1
    a2 = a2
    u1 = u1
    u2 = u2
    k1 = k1
    outside = outside
    in1 = in1
    in2 = in2
    both = both
    Users = {u1}
    Areas = {a1}
    Points = {in1}
    Covers <- MCCoversOneIn
    LockKeys = {k1}
    hashtext <- MChashtext
    Requests = {r1, r2}
    NoRequest = NoRequest
    NoCommand = NoCommand
    Timestamps = {1, 2}
    LegacyStamps = {}
    PoolSize = 2
SPECIFICATION Spec
INVARIANTS
    ExitMeansOutside
CHECK_DEADLOCK FALSE
