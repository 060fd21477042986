\* An observation is reported during the calls of a tick that loses a receipt.
CONSTANTS
    Workers = {"cron"}
    NumSources = 1
    ItemsPerSource = 2
    MaxCalls = 2
    BatchSize = 2
    ProviderStates = {TRUE}
    MaxReports = 2
    MaxFaults = 0
SPECIFICATION Spec
INVARIANTS
    ReceiptLossPreserves
CHECK_DEADLOCK FALSE
