SPECIFICATION FairSpec
CONSTANTS
    NChunks = 2
    MaxQueue = 1
    MaxCuts = 2
    MaxRestarts = 1
INVARIANTS
    IndexIsPrefix
    AckedIsDurable
    OutputOnce
    CompletedIsWhole
PROPERTIES
    LogsArriveWhileConnected
CHECK_DEADLOCK FALSE
