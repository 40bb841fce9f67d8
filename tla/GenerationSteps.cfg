\* One generation of two steps, two relay sessions, two models, two answers.
SPECIFICATION Spec
CONSTANTS
    None = None
    Runs = {r1}
    Sessions = {x1, x2}
    Models = {m1, m2}
    Keys = {k1}
    Results = {a1, a2}
    Plans <- TwoStepPlans
    MaxStepAttempts = 3
    MaxActive = 1
    MaxDaily = 2
    MaxActiveSessions = 2
SYMMETRY Symmetry
INVARIANTS
    StepsInOrder
    TextKeptWhileNeeded
    NoSilentRetry
    BoundRelay
    StatusTellsSteps
PROPERTIES
    AnswersAreFenced
    ImplementsContract
