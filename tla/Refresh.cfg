SPECIFICATION Spec
CONSTANTS
    NumRuns = 2
    Files <- MCFiles
    MTime <- DistinctTimes
    MaxTime = 3
    MaxFilesPerTrigger = 2
    MaxResubmits = 1
    MaxBatches = 6
    MaxOtherCommits = 0
    MaxLegacyCommits = 2
    Modes = {"full"}
    Overlap = FALSE
    Prompt = TRUE
    Faults = {"crash", "tornClaim", "giveUp", "cancelUnconfirmed", "jobFails", "sources", "deletePending", "settleTimeout", "logRead", "logCleanup"}
    FaultyRuns <- EarlierRuns
INVARIANTS
    NoLoss
    NoDuplicate
