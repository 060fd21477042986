\* Crashed dispatchers, lost sends and wakes, failed and retried steps.
CONSTANTS
    Requests = {}
    CompletionStatuses = {"completed", "cancelled"}
    Commands = {"publish", "cancel"}
    Interval = 2
    Horizon = 1
    DispatchLease = 1
    RepairAfter = 1
    OverallDeadline = 1
    HeartbeatLease = 1
    MaxTime = 3
    MaxGen = 1
    MaxDispatches = 2
    MaxFaults = 1
SPECIFICATION FairSpec
INVARIANTS
    AttemptFence
    CollectorAuthorized
PROPERTIES
    RunsEndOnce
    ClaimsAreFenced
    DueRunsLeavePending
    ActiveRunsEnd
CHECK_DEADLOCK FALSE
