CONSTANTS
    ExpectedEvery = 2
    AlertingDelay = 1
    MaxTime = 6
    MaxIDs = 9
SPECIFICATION MonitorSpec
INVARIANTS
    MonitorTypeOK
    EpisodesPaired
    FreshIDs
    AlertJustified
PROPERTIES
    ImplementsLifecycle
