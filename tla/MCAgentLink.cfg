SPECIFICATION FairSpec
CONSTANTS
    MaxSockets = 2
    MaxRequests = 3
    Hosts = {h1, h2}
    MaxFaults = 2
INVARIANTS
    SessionIsCurrent

    
CHECK_DEADLOCK FALSE
