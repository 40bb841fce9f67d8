\* One note, edited once or twice.
SPECIFICATION Spec
CONSTANTS
    Notes = {n1}
    Ignored = {}
    MaxEdits = 2
    None = None
INVARIANTS
    SettledNotesAreIndexed
