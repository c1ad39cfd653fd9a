SPECIFICATION ReportingSpec
CONSTANTS
    NumModels = 2
    v1 = v1
    v2 = v2
    v3 = v3
    Versions = {v3}
    None = None
    Garbled = Garbled
    PlanLength <- MCPlanLength
    FileParts <- MCFileParts
    BadPlans = {}
    MaxRetries = 1
    MaxCrashes = 1
    MaxPublishes = 0
PROPERTY EventuallyUpdated
