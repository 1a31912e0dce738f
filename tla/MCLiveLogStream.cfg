SPECIFICATION FairSpec
CONSTANTS
    NChunks = 4
    MaxBuffered = 2
    MaxRequests = 2
INVARIANTS
    ViewerSeesPrefix
    DoneIsWhole
PROPERTIES
    StreamEnds
CHECK_DEADLOCK FALSE
