\* Two uploads, and a fault at any point or none.
SPECIFICATION FairSpec
CONSTANTS
    None = None
    Jobs = {j1, j2}
    MaxActiveJobs = 2
    MaxAttempts = 2
    MaxFaults = 1
INVARIANTS
    HandedOutOnce
    ProcessingIsOwned
    InputKeptWhileActive
    CompletedHasResult
PROPERTIES
    ProcessingEnds
    CancelIsHonoured
    EveryUploadEndsUnlessFault
    CancelTakesEffect
CHECK_DEADLOCK FALSE
