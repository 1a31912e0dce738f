SPECIFICATION Spec
CONSTANTS
    theJob = theJob
    Jobs <- MCJobs
    JobOf <- MCJobOf
    NoAttempt = NoAttempt
    Attempts = {a1, a2}
    FailFast = {}
    Overlay = {a1, a2}
    Unpreparable = {a1, a2}
    Destructive = {}
    SameHost = TRUE
    MaxJobs = 2
    MaxDispatches = 1
    MaxCuts = 1
    MaxRestarts = 1
    MaxReboots = 1
    MaxCancels = 1
SYMMETRY Interchangeable
INVARIANTS
    OrphanWatched
    JobFollowsAttempt
    OneProcessPerJob
    ProcessIsReportable

    
CHECK_DEADLOCK FALSE
