CONSTANTS
    ExpectedEvery = 1
    AlertingDelay = 1
    MaxTime = 5
    MaxIDs = 0
    Gauges <- OneGauge
    TicksPerSecond = 1
    Handlers = {h1}
    Loop = loop
    StartActive = {TRUE, FALSE}
    ResolvedReceivers = {TRUE}
    EnqueueOutcomes = {"queued"}
    MaxRequests = 2
    MayShutdown = TRUE
SPECIFICATION FairSchedulerSpec
PROPERTIES
    SilenceIsNoticed
    ShutdownStopsLoop
    RequestsAreAnswered
