\* Three concurrent requests of one user, two overlapping areas that may be
\* created at any moment, membership rows from before the watermark table.
CONSTANTS
    a1 = a1
    a2 = a2
    u1 = u1
    u2 = u2
    k1 = k1
    outside = outside
    in1 = in1
    in2 = in2
    both = both
    Users = {u1}
    Areas = {a1, a2}
    Points = {outside, in1, both}
    Covers <- MCCoversOverlap
    LockKeys = {k1}
    hashtext <- MChashtext
    Requests = {r1, r2, r3}
    NoRequest = NoRequest
    NoCommand = NoCommand
    Timestamps = {1, 2, 3}
    LegacyStamps = {2}
    PoolSize = 2
SYMMETRY MCSymmetry
SPECIFICATION Spec
INVARIANTS
    IInv
    EventsAlternate
    MembershipMatchesEvents
    OneRequestPerTimestamp
    ResponseMatchesOutbox
    AnsweredIsAccountedFor
PROPERTIES
    DualWriteAtomic
    ImplementsTransitions
CHECK_DEADLOCK FALSE
