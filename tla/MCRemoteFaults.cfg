SPECIFICATION FairSpec
CONSTANTS
    theJob = theJob
    Jobs <- MCJobs
    JobOf <- MCJobOf
    NoAttempt = NoAttempt
    Attempts = {a1}
    FailFast = {theJob}
    Overlay = {a1}
    Unpreparable = {}
    Destructive = {a1}
    SameHost = TRUE
    MaxJobs = 1
    MaxDispatches = 1
    MaxCuts = 1
    MaxRestarts = 0
    MaxReboots = 0
    MaxCancels = 1

    
PROPERTIES
    
    
    OrphansResolve
    
CHECK_DEADLOCK FALSE
