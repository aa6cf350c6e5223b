SPECIFICATION Spec
CONSTANTS
    short = short
    long = long
    hf = hf
    other = other
    None = None
    Torn = Torn
    ChunkLength = 2
    Recordings <- OneRecording
    Duration <- MCDuration
    Takes <- AnyTake
    Providers <- OneProvider
    BatchSize = 1
    MaxAttempts = 1
    MaxRuns = 2
    MaxCrashes = 0
    MaxChanges = 0
    MaxExports = 0
PROPERTIES
    RejectedResultIsRetaken
CHECK_DEADLOCK FALSE
