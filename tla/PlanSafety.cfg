SPECIFICATION Spec
CONSTANTS
    NumModels = 1
    v1 = v1
    v2 = v2
    v3 = v3
    Versions = {v1, v2, v3}
    None = None
    Garbled = Garbled
    PlanLength <- MCPlanLength
    FileParts <- MCFileParts
    BadPlans = {v2}
    MaxRetries = 3
    MaxCrashes = 2
    MaxPublishes = 2
INVARIANTS
    TypeOK
    UpdatedMeansAnnounced
    AttemptsBounded
    NoRedundantDownload
PROPERTY ImplementsService
