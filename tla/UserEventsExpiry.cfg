SPECIFICATION Spec
CONSTANTS
    Default = 9
    Groups = {ga}
    Values = {1, 2}
    Window = 1
    Expiry = 2
    Schemas = {"s1"}
    NoSchema = "none"
    MaxLag = 1
    MaxClock = 4
    MaxEvents = 3
    MaxStops = 0
PROPERTY ReturnsCurrentWindow
CHECK_DEADLOCK FALSE
