\* Three requests for two notes of two versions, indexed earlier or not.
SPECIFICATION FairSpec
CONSTANTS
    None = None
    Requests = {q1, q2, q3}
    Paths = {p1, p2}
    Contents = {c1, c2}
    Blank = {}
INVARIANTS
    RowIsKept
PROPERTIES
    SkipJustified
    RequestsEnd
\* All requests may have been answered: the system then rests.
CHECK_DEADLOCK FALSE
