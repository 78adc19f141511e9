\* An event behind a message that makes the handler throw, and no fault.
CONSTANTS
    e1 = e1
    e2 = e2
    bad = bad
    Consumers = {c1}
    NoConsumer = NoConsumer
    Messages = {e1, bad}
    kind <- MCKindPoison
    Established = TRUE
    MaxMessages = 2
    MaxFaults = 0
SPECIFICATION FairSpec
PROPERTIES
    EveryMessageSettled
CHECK_DEADLOCK FALSE
