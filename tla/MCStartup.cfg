CONSTANT
    CommandLines <- AllLines
    MinAuthTokenLength = 2
    MaxAuthTokenLength = 3
SPECIFICATION FairStartupSpec
INVARIANTS
    StartupTypeOK
    ExitStatusIsRight
    RequestsAreWatched
    RoutesAreKept
    LinksReachRoutes
    TokenCanBePresented
    TargetsHaveReceivers
    ReceiversKeepFields
    ResolvedOnlyWhereAsked
PROPERTY
    SignalEndsProcess
