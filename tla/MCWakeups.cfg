CONSTANTS
    ExpectedEvery = 1
    AlertingDelay = 1
    MaxTime = 5
    MaxIDs = 0
    Gauges <- TwoGauges
    TicksPerSecond = 1
    Handlers = {h1, h2}
    Loop = loop
    StartActive = {TRUE}
    ResolvedReceivers = {TRUE}
    EnqueueOutcomes = {"queued"}
    MaxRequests = 2
    MayShutdown = FALSE
SYMMETRY HandlerSymmetry
SPECIFICATION SchedulerSpec
INVARIANTS
    SchedulerTypeOK
    NoLostWakeup
    TimerWakeMakesProgress
    NoSpuriousAlert
    GaugesConverge
