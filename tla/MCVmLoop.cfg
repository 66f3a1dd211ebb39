CONSTANTS
    vmCount = 5
    Title = {t1, t2}
    Leak = {t2}
    External = External
    NoCrash = NoCrash
    maxReproAttempts = 1
    HubQueueSize = 1
    MaxCrashes = 2
SPECIFICATION LiveSpec
INVARIANTS
    VMsAccounted
    OneReproPerTitle
    AttemptsBounded
PROPERTIES
    QueuedReproRuns
    ShutdownEnds
