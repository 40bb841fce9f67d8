\* A crash between the pop and the commit that marks the job.
SPECIFICATION FairSpec
CONSTANTS
    None = None
    Jobs = {j1}
    MaxActiveJobs = 1
    MaxAttempts = 2
    MaxFaults = 1
PROPERTIES
    InterruptedJobsEnd
\* All uploads may be served: the system then rests.
CHECK_DEADLOCK FALSE
