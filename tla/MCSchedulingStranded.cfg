SPECIFICATION SchedulingFairSpec
CONSTANTS
    a1 = a1
    a2 = a2
    j1 = j1
    j2 = j2
    j3 = j3
    d1 = d1
    d2 = d2
    None = None
    Agents = {a1}
    Jobs = {j1}
    Dispatchers = {d1, d2}
    Caps <- MCCaps
    Rank <- MCRank
    Request <- MCRequestEither
    Order <- MCOrderOne
    Host <- MCHost
    Readings = {98}
    BaseMax = 80
    ReferenceScore = 24
    Copies = {1, 2, 3}
    Window = 1
    MaxUpsets = 2
    Backlog = {}
    Restless = {a1}
    Returning = {}
    Results <- MCResults
PROPERTY QueuedJobSettles
CHECK_DEADLOCK FALSE
