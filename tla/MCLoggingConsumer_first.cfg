\* A group that has not committed anything, joined before the first message,
\* and one fault.
CONSTANTS
    e1 = e1
    e2 = e2
    bad = bad
    Consumers = {c1}
    NoConsumer = NoConsumer
    Messages = {e1, e2, bad}
    kind <- MCKind
    Established = FALSE
    MaxMessages = 2
    MaxFaults = 1
SPECIFICATION JoinedSpec
INVARIANTS
    CommittedIsSettled
CHECK_DEADLOCK FALSE
