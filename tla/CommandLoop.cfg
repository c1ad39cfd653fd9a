SPECIFICATION FairSpec
CONSTANTS
    RegisterRetries = 1
    AuthRetries = 1
    ConfigRetries = 1
    Lines = {l1}
    MaxFileLines = 0
    MinFileLines = 0
    MaxFaults = 1
INVARIANTS
    RegistrationsHaveReason
PROPERTIES
    RequestsRecover
    EventuallyConfigured
    EventuallyUploaded
