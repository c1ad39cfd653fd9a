SPECIFICATION LoggerSpec
CONSTANTS
    Lines = {l1, l2, l3, l4}
    MaxFileLines = 2
    MinFileLines = 1
    MaxFaults = 2
INVARIANTS
    NoLineLost
    CopiesExplained
