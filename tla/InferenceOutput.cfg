SPECIFICATION Spec
CONSTANTS
    Hosts = {h1, h2}
    HostSerialises = FALSE
    MaxSaved = 2
    MaxCalls = 3
    MaxLoads = 1
INVARIANT OutputNotOverwritten
CHECK_DEADLOCK FALSE
