SPECIFICATION Spec
CONSTANTS
    Searches = {s1}
    Workers = {w1, w2}
    Employees = {e1}
    Owner <- OneOwner
    NativeSearches = {s1}
    MaxAttempts = 2
    Lease = 3
    LaneIdle = 1
    CallLimit = 1
    BusyRetry = 1
    RetryAfter = 1
    NumTokens = 5
    MaxCredentials = 2
    MaxDenials = 1
    MaxFaults = 1
    MaxMisreads = 0
INVARIANTS TypeOK OneCall KeyFixedDuringCall KeyErrorIsCurrent CompletedJobsAreImported
    EndedJobsAreSettled LostCallsAreAmbiguous
PROPERTIES OutcomeIsFinal RetryAfterHonoured
SYMMETRY WorkerSymmetry
