\* The comment of migration 0086 on next_due_at, against manual runs.
CONSTANTS
    r1 = r1
    Requests = {r1}
    CompletionStatuses = {"completed", "cancelled"}
    Commands = {"publish", "request"}
    Interval = 2
    Horizon = 1
    DispatchLease = 1
    RepairAfter = 1
    OverallDeadline = 2
    HeartbeatLease = 1
    MaxTime = 3
    MaxGen = 1
    MaxDispatches = 1
    MaxFaults = 0
SPECIFICATION Spec
INVARIANTS
    ArmedProgrammeHasRun
CHECK_DEADLOCK FALSE
