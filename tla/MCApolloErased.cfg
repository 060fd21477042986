SPECIFICATION Spec
CONSTANTS
    Searches = {s1}
    Workers = {w1, w2}
    Employees = {e1}
    Owner <- OneOwner
    NativeSearches = {s1}
    MaxAttempts = 2
    Lease = 2
    LaneIdle = 1
    CallLimit = 0
    BusyRetry = 0
    RetryAfter = 0
    NumTokens = 6
    MaxCredentials = 1
    MaxDenials = 1
    MaxFaults = 0
    MaxMisreads = 0
PROPERTIES AmbiguityIsNeverErased
