\* Two users on one lock key, a pool of two connections for three requests,
\* and no area created while they run.
CONSTANTS
    a1 = a1
    a2 = a2
    u1 = u1
    u2 = u2
    k1 = k1
    outside = outside
    in1 = in1
    in2 = in2
    both = both
    Users = {u1, u2}
    Areas = {a1}
    Points = {outside, in1}
    Covers <- MCCoversOne
    LockKeys = {k1}
    hashtext <- MChashtext
    Requests = {r1, r2, r3}
    NoRequest = NoRequest
    NoCommand = NoCommand
    Timestamps = {1, 2}
    LegacyStamps = {}
    PoolSize = 2
SPECIFICATION FixedAreasFairSpec
INVARIANTS
    MembershipIsNewestLocation
    ExitMeansOutside
PROPERTIES
    EveryRequestAnswered
CHECK_DEADLOCK FALSE
