CONSTANTS
    Paths = {1, 2, 3, 4}
    Roots = {4}
    Ignored = {3}
    IncludeIgnored = {3}
    IncludeUntracked = TRUE
    Secrets = {}
    MaxFiles = 3
    Absent = Absent
    Values <- MCValues
    Starts <- MCStarts
SPECIFICATION Spec
INVARIANT ShippedIsOneMoment
 
CHECK_DEADLOCK TRUE
