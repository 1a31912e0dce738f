SPECIFICATION SchedulingFairSpec
CONSTANTS
    a1 = a1
    a2 = a2
    j1 = j1
    j2 = j2
    j3 = j3
    d1 = d1
    d2 = d2
    None = None
    Agents = {a1, a2}
    Jobs = {j1, j2, j3}
    Dispatchers = {d1, d2}
    Caps <- MCCaps
    Rank <- MCRank
    Request <- MCRequest
    Order <- MCOrder
    Host <- MCHost
    Readings = {98}
    BaseMax = 80
    ReferenceScore = 24
    Copies = {1, 2, 3}
    Window = 1
    MaxUpsets = 1
    Backlog = {j1, j3}
    Restless = {a1}
    Returning = {a1}
    Results <- MCResults
INVARIANT OvercommitBounded
PROPERTY QueuedJobSettles
CHECK_DEADLOCK FALSE
