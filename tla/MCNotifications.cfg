CONSTANTS
    ExpectedEvery = 1
    AlertingDelay = 1
    MaxTime = 5
    MaxIDs = 0
    Gauges <- OneGauge
    TicksPerSecond = 1
    Handlers = {h1}
    Loop = loop
    StartActive = {TRUE}
    ResolvedReceivers = {TRUE, FALSE}
    EnqueueOutcomes = {"queued", "queue_failed", "empty_queue_id"}
    MaxRequests = 2
    MayShutdown = TRUE
SPECIFICATION SchedulerSpec
INVARIANTS
    NotificationsAccounted
    AlertsReachQueue
PROPERTY
    ImplementsAlarm
