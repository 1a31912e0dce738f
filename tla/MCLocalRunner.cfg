CONSTANTS
    j1 = j1
    j2 = j2
    Jobs = {j1, j2}
    Guarded = {j1}
    Decision <- HostDecision
    Completions <- HostCompletions
    Callers = {c1}
    Sweepers = {s1}
    Waiters = {w1}
    MaxConcurrentJobs = 2
SPECIFICATION FairSpec
INVARIANT HostWithinLimit NoLostWakeup SuccessIsFinal
PROPERTY GateHolds RunningJobSettles
CHECK_DEADLOCK FALSE
