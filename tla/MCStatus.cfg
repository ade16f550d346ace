CONSTANTS
    ExpectedEvery = 1
    AlertingDelay = 1
    MaxTime = 5
    MaxIDs = 0
    Gauges <- SevenGauges
    TicksPerSecond = 1
    Handlers = {h1}
    Loop = loop
    StartActive = {TRUE, FALSE}
    ResolvedReceivers = {TRUE}
    EnqueueOutcomes = {"queued"}
    MaxRequests = 1
    MayShutdown = FALSE
SPECIFICATION StatusSpec
INVARIANTS
    ElapsedTimesAgree
    GaugesConverge
