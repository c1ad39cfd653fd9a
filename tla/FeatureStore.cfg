SPECIFICATION FairSpec
CONSTANTS
    Readers = {r1, r2}
    MaxVersion = 2
    MaxClock = 1
    MaxPublishes = 1
    MaxCrashes = 1
INVARIANTS
    ReaderBufferAlive
    OneBufferAtRest
    TornIsReplaced
PROPERTIES
    EventuallyRefreshed
    InferencesReturn
    ImplementsFeatureService
