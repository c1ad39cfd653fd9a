SPECIFICATION Spec
CONSTANTS
    Default = 9
    Groups = {ga, gb}
    Values = {1, 2}
    Window = 1
    Expiry = 2
    Schemas = {"s1", "s2"}
    NoSchema = "none"
    MaxLag = 1
    MaxClock = 3
    MaxEvents = 3
    MaxStops = 1
INVARIANTS
    NoFreshEventMissing
    StoreMatchesCounted
    MemoryMirrorsTable
    DefinedUntilExpiry
PROPERTIES
    ExpiredForgotten
CHECK_DEADLOCK FALSE
SYMMETRY GroupSymmetry
