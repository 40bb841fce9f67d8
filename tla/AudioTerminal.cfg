\* Cancelling a job while the worker starts or finishes it.
SPECIFICATION Spec
CONSTANTS
    None = None
    Jobs = {j1}
    MaxActiveJobs = 1
    MaxAttempts = 1
    MaxFaults = 0
PROPERTIES
    TerminalStateKept
\* All uploads may be served: the system then rests.
CHECK_DEADLOCK FALSE
