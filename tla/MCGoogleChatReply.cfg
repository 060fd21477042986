SPECIFICATION FairSpec
CONSTANTS
    Workers = {w1, w2}
    MaxAttempts = 2
    QmLease = 1
    StaleLock = 2
    RetryDelay = 1
    EventCalls = 2
    MaxDeliveries = 2
    MaxRenewals = 1
    MaxChanges = 1
    MaxFaults = 1
INVARIANTS TypeOK OneDelivery CompletedIsShown EndedJobsAreReported RunIsKept
PROPERTIES SavedAnswerIsKept JobsEnd
CHECK_DEADLOCK FALSE
