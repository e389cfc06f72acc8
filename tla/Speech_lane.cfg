SPECIFICATION FairSpec
CONSTANTS
    stt1 = stt1
    tts1 = tts1
    rt1 = rt1
    NoOne = NoOne
    Transcribers <- OneTranscriber
    Synthesizers <- OneSynthesizer
    Talkers <- OneTalker
    MaxAttempts = 2
    HandoffEnabled = TRUE
INVARIANTS TypeOK LaneIsExclusive ThreadsAreOwned QuietBoundary ClosedAfterCleanups
PROPERTIES LaneComesToRest
CHECK_DEADLOCK FALSE
