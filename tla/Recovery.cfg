SPECIFICATION FairSpec
CONSTANTS
    NumRuns = 2
    Files <- MCFiles
    MTime <- DistinctTimes
    MaxTime = 3
    MaxFilesPerTrigger = 2
    MaxResubmits = 1
    MaxBatches = 5
    MaxOtherCommits = 0
    MaxLegacyCommits = 2
    Modes = {"incremental"}
    Overlap = TRUE
    Prompt = TRUE
    Faults = {"crash", "tornClaim", "giveUp", "cancelUnconfirmed", "jobFails", "sources", "deletePending", "settleTimeout", "logRead", "logCleanup"}
    FaultyRuns <- EarlierRuns
INVARIANTS
    TypeOK
    NoLoss
    NoDuplicate
    CommitsAccountedFor
PROPERTIES
    WatermarkAdvances
    DoneMeansIngested
    RunsEnd
    LastRunIngests
