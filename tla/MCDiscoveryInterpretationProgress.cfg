\* The cron alone brings cancelled runs and claimed queues to an end.
CONSTANTS
    Workers = {"cron"}
    NumSources = 2
    ItemsPerSource = 2
    MaxCalls = 2
    BatchSize = 2
    ProviderStates = {TRUE}
    MaxReports = 2
    MaxFaults = 1
SPECIFICATION FairSpec
PROPERTIES
    CancelledRunsEnd
    ClaimsAreReleased
CHECK_DEADLOCK FALSE
