SPECIFICATION FairSpec
CONSTANTS
    Events = {e1, e2}
    NumInputs = 2
    MaxLoads = 2
    MaxSize = 3
INVARIANTS
    NoEventLost
    CopiesBounded
    CountedOnce
    TotalsDrift
    GroupsInPlace
    ServedInputs
PROPERTIES
    ImplementsIngest
    EventuallyInMemory
CHECK_DEADLOCK FALSE
