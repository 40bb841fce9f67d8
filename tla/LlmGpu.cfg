\* Two requests to the gateway with one slot, and a diarization.
SPECIFICATION FairSpec
CONSTANTS
    Requests = {r1, r2}
    Uploads = {u1}
    Chat = chat
    Embed = embed
    Models = {chat, embed}
    Calls <- CallsOfRequests
    Plans <- SomePlans
    MaxCalls = 2
    MaxConcurrent = 1
INVARIANTS
    GpuExclusive
    AudioIsRemoved
    SlotsAreReturned
    ReportIsWhole
PROPERTIES
    RequestsEnd
    DiarizationEnds
    UploadsAreServed
\* All requests may have been answered: the system then rests.
CHECK_DEADLOCK FALSE
