\* Operator commands, manual requests among them, against a run in progress, and its progress, without faults.
CONSTANTS
    r1 = r1
    Requests = {r1}
    CompletionStatuses = {"completed", "cancelled"}
    Commands = {"publish", "pause", "request", "cancel"}
    Interval = 2
    Horizon = 1
    DispatchLease = 1
    RepairAfter = 1
    OverallDeadline = 1
    HeartbeatLease = 1
    MaxTime = 2
    MaxGen = 2
    MaxDispatches = 1
    MaxFaults = 0
SPECIFICATION FairSpec
INVARIANTS
    TypeOK
    SingleFlight
    WaitingRunsAreCurrent
PROPERTIES
    CancelRequestIsFinal
    ImplementsLifecycle
    DueRunsLeavePending
    ActiveRunsEnd
CHECK_DEADLOCK FALSE
