SPECIFICATION FairSpec
CONSTANTS
    Hosts = {h1}
    HostSerialises = TRUE
    MaxSaved = 2
    MaxCalls = 5
    MaxLoads = 3
INVARIANTS
    OwnOutput
    LatestInputsKept
    StaleInputsWashOut
PROPERTIES
    QueryAnswers
    CallsReturn
CHECK_DEADLOCK FALSE
