\* The pure algorithms: meeting plans, note chunks and search results, speakers.
SPECIFICATION Spec
CONSTANTS
    Transcripts <- ShortTranscripts
    ManualNotes <- ShortNotes
    Thresholds = {0, 5}
    ChunkChars = 4
    MaxChunks = 2
    Slack = 2
    MaxSections = 2
    CoreSections = 3
    Documents = {"d1", "d2"}
    HitLists <- ShortHitLists
    TopKs = {1, 2, 3}
    Caps = {1, 2}
    MinScore = 2
    MaxContext = 5
    Bodies <- ShortBodies
    ChunkSettings <- FewSettings
    Speakers <- Voices
    Nobody = Nobody
    Diarizations <- FewTurns
    Recordings <- FewSegments
    MaxText = 8
    MaxLines = 4
    MaxHits = 4
    MaxTurns = 3
INVARIANTS
    SplitIsComplete
    PlanIsServable
    ChunksKeepTheNote
    SelectionIsFair
    SpeakersAreRight
CHECK_DEADLOCK FALSE
