\* Every field at, next to and beyond its limits; a database that works,
\* refuses, or commits without being heard.
CONSTANTS
    AreaBodies <- MCAreaBodies
    LocationBodies <- MCLocationBodies
    Messages <- MCMessages
    TransitionSets <- MCTransitionSets
    RequestId = r1
SPECIFICATION Spec
INVARIANTS
    FaultIsAttributed
    StoredAreaIsValid
    ListingMatchesAnswer
    SameRowSameLock
    ContractKept
    NothingLoggableIsSkipped
CHECK_DEADLOCK FALSE
