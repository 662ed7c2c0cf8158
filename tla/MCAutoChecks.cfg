SPECIFICATION Spec
CONSTANTS
    Logs <- AllLogs
    Uploads <- AllUploads
    MaxLogSize = 4
    MaxMetadataSize = 3
    MaxDuration = 15
    WinStart = 1
    WinEnd = 6
    Grace = 1
    ByteBudget = 5
    MaxLine = 2
    None = None
INVARIANTS
    AcceptsExactlyWellFormed
    CostIsBounded
    CoverageIsReal
    BlameIsDeserved
    FullMarksAreEarned
    ScoredIsAssessed
    TierIsTheQuarter
