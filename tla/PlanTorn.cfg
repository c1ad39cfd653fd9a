SPECIFICATION Spec
CONSTANTS
    NumModels = 1
    v1 = v1
    v2 = v2
    v3 = v3
    Versions = {v1, v2}
    None = None
    Garbled = Garbled
    PlanLength <- MCPlanLength
    FileParts <- MCFileParts
    BadPlans = {}
    MaxRetries = 2
    MaxCrashes = 2
    MaxPublishes = 1
INVARIANT LoadedIsOnePlan
