\* Two generations whose relay may go silent, with the maintenance loop only.
SPECIFICATION MaintainedSpec
CONSTANTS
    None = None
    Runs = {r1, r2}
    Sessions = {x1, x2}
    Models = {m}
    Keys = {k1, k2}
    Results = {a1}
    Plans <- SinglePlans
    MaxStepAttempts = 1
    MaxActive = 2
    MaxDaily = 2
    MaxActiveSessions = 1
INVARIANTS
    SingleUpstreamCall
PROPERTIES
    EveryRunEnds
    LapsedLeaseIsNoticed
