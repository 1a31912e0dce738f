CONSTANTS
    a1 = a1
    a2 = a2
    Attempts = {a1, a2}
    Overlay = {a1, a2}
    Readers = {a1, a2}
    Writers = {a1, a2}
    Cleaners = {c1}
    MaxCrashes = 1
    MaxSweeps = 1
SPECIFICATION FairSpec
INVARIANT LiveLockHasHolder EntryIsTrusted
PROPERTY  AttemptsFinish
CHECK_DEADLOCK FALSE
