\* Two workers on two sources that share one call.
CONSTANTS
    Workers = {"cron", "inngest"}
    NumSources = 2
    ItemsPerSource = 1
    MaxCalls = 1
    BatchSize = 1
    ProviderStates = {TRUE, FALSE}
    MaxReports = 2
    MaxFaults = 1
SPECIFICATION Spec
INVARIANTS
    TypeOK
    ReservationsWithinCeiling
    CompletedRunsAreInterpreted
    NothingPendingOnceClosed
PROPERTIES
    ReceiptLossIsFinal
    NoCandidateAfterCancel
    ImplementsInterpretedRun
CHECK_DEADLOCK FALSE
