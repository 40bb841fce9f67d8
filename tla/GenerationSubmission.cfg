\* Two submissions whose bodies may share a key, and a route with the same quota.
SPECIFICATION SubmissionSpec
CONSTANTS
    None = None
    Runs = {r1, r2}
    k1 = k1
    k2 = k2
    x1 = x1
    m = m
    Sessions = {x1}
    Models = {m}
    Keys = {k1, k2}
    Results = {a1}
    Plans <- ShortPlans
    MaxStepAttempts = 1
    MaxActive = 1
    MaxDaily = 2
    MaxActiveSessions = 1
    Bodies <- ThreeBodies
    Requests = {q1, q2}
    Buckets <- AllBuckets
    Limit <- LimitOne
    Callers = {c1}
    Routes <- AskRoute
SYMMETRY Symmetry
INVARIANTS
    OneRunPerKey
    LimitsHold
    AnswersAgree
    WithinQuota
PROPERTIES
    BegunAsPrepared
