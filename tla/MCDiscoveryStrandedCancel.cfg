\* A receipt is lost with an observation unattempted, and the run is cancelled.
CONSTANTS
    Workers = {"cron"}
    NumSources = 2
    ItemsPerSource = 2
    MaxCalls = 2
    BatchSize = 2
    ProviderStates = {TRUE}
    MaxReports = 2
    MaxFaults = 0
SPECIFICATION FairSpec
PROPERTIES
    CancellationFinalizes
CHECK_DEADLOCK FALSE
