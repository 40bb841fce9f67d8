\* Two index requests for one note.
SPECIFICATION Spec
CONSTANTS
    None = None
    Requests = {q1, q2}
    Paths = {p1}
    Contents = {c1, c2}
    Blank = {}
INVARIANTS
    LoopStaysFree
\* All requests may have been answered: the system then rests.
CHECK_DEADLOCK FALSE
