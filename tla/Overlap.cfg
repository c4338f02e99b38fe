SPECIFICATION Spec
CONSTANTS
    NumRuns = 2
    Files <- MCFiles
    MTime <- DistinctTimes
    MaxTime = 3
    MaxFilesPerTrigger = 1
    MaxResubmits = 0
    MaxBatches = 6
    MaxOtherCommits = 1
    MaxLegacyCommits = 2
    Modes = {"incremental"}
    Overlap = TRUE
    Prompt = FALSE
    Faults = {"crash", "tornClaim", "giveUp", "jobFails", "sources", "deletePending", "adoptSources", "adoptRead", "logRead", "settleTimeout", "fullPage"}
    FaultyRuns <- AllRuns
INVARIANTS
    NoLoss
