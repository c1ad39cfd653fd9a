SPECIFICATION Spec
CONSTANTS
    Hosts = {h1, h2}
    HostSerialises = TRUE
    MaxSaved = 2
    MaxCalls = 3
    MaxLoads = 2
INVARIANT ModelAlive
CHECK_DEADLOCK FALSE
