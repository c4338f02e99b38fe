SPECIFICATION Spec
CONSTANTS
    NumRuns = 3
    Columns <- MCColumns
    Partition <- MCPartition
    Types <- MCTypes
    Canonical <- MCCanonical
    Models <- MCModels
    Unknown = Unknown
    Absent = Absent
    MaxJobs = 3
    MaxMigrations = 1
    MaxResubmits = 1
    Faults = {"crash", "jobFails", "giveUp", "probe", "schemaRead"}
INVARIANTS
    TypeOK
    NoneRejected
PROPERTIES
    CommitsFit
