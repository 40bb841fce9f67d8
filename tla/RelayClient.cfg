\* One generation of two calls; a session of this device and one of another.
SPECIFICATION FairClientSpec
CONSTANTS
    None = None
    Runs = {r1}
    Sessions = {x1, x3}
    Here = {x1}
    Models = {m}
    Keys = {k1}
    Results = {a1}
    Plans <- TwoCalls
    MaxSteps = 2
    MaxStepAttempts = 2
    MaxActive = 1
    MaxDaily = 1
    MaxActiveSessions = 2
INVARIANTS
    PaidWithConsent
PROPERTIES
    RunsAreLetGo
