CONSTANTS
    n1 = n1
    n2 = n2
    p0 = p0
    p1 = p1
    Names = {n1, n2}
    RunJob = p0
    Resumes = {p1}
    None = None
    MaxFaults = 1
SPECIFICATION UploadFairSpec
INVARIANT StoredIsWhole
 
CHECK_DEADLOCK FALSE
