SPECIFICATION Spec
CONSTANTS
    NumRuns = 2
    Files <- MCFiles
    MTime <- DistinctTimes
    MaxTime = 3
    MaxFilesPerTrigger = 1
    MaxResubmits = 0
    MaxBatches = 6
    MaxOtherCommits = 0
    MaxLegacyCommits = 2
    Modes = {"incremental", "full"}
    Overlap = TRUE
    Prompt = TRUE
    Faults = {}
    FaultyRuns <- AllRuns
INVARIANTS
    NoLoss
