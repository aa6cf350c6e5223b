SPECIFICATION FairSpec
CONSTANTS
    short = short
    long = long
    hf = hf
    other = other
    None = None
    Torn = Torn
    ChunkLength = 2
    Recordings <- TwoRecordings
    Duration <- MCDuration
    Takes <- AnyTake
    Providers <- TwoProviders
    BatchSize = 1
    MaxAttempts = 2
    MaxRuns = 2
    MaxCrashes = 1
    MaxChanges = 1
    MaxExports = 1
INVARIANTS
    TypeOK
    FinalTextsTranslateTheirCaptions
    CommittedPairAgrees
    PublishedCaptionsAreTheTranscript
    FinalRowMeansSuccess
    PreparedAudioFitsThePlan
    AsrSuccessIsVerifiable
    CandidatesAreOfTheTranscript
    
PROPERTIES
    OnlyARefusedRetryUnpublishes
    EveryRunEnds
CHECK_DEADLOCK FALSE
