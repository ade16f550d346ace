CONSTANTS
    ExpectedEvery = 1
    AlertingDelay = 1
    MaxTime = 5
    MaxIDs = 0
    Gauges <- OneGauge
    TicksPerSecond = 1
    Handlers = {h1}
    Loop = loop
    StartActive = {TRUE}
    ResolvedReceivers = {TRUE}
    EnqueueOutcomes = {"queued"}
    MaxRequests = 1
    MayShutdown = FALSE
SPECIFICATION SchedulerSpec
INVARIANTS
    AlertQueuedBeforeResolved
