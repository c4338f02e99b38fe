SPECIFICATION Spec
CONSTANTS
    CompactionInterval = 2
    RetentionFiles = 5
    NameOrder <- DecimalStrings
    MaxBatch = 13
    MaxRefreshes = 1
    MaxFaults = 2
    MaxRetries = 1
INVARIANTS
    TypeOK
    BatchesReadable
    HistoryComplete
    CountedOnce
    Bounded
