CONSTANTS
    ExpectedEvery = 2
    AlertingDelay = 1
    MaxTime = 6
    MaxIDs = 0
    Gauges <- OneGauge
    TicksPerSecond = 1
    Handlers = {h1, h2}
    Loop = loop
    StartActive = {FALSE}
    ResolvedReceivers = {TRUE}
    EnqueueOutcomes = {"queued"}
    MaxRequests = 2
    MayShutdown = FALSE
SYMMETRY HandlerSymmetry
SPECIFICATION SchedulerSpec
INVARIANTS
    NoEarlyOverdue
