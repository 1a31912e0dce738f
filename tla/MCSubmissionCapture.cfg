SPECIFICATION Spec
CONSTANTS
    key = key
    Keys <- MCKeys
    Requests = {r1, r2, r3}
    KeyOf <- MCKeyOf
    NFiles = 1
    TTL = 1
    MaxTime = 3
    MaxCrashes = 1
    NoRequest = NoRequest
SYMMETRY Interchangeable
INVARIANTS
    CommittedFilesPresent
    JobMatchesSubmission
    GenerationsDistinct
    AnswersAgree
PROPERTY
    TerminalIsFinal
CHECK_DEADLOCK FALSE
