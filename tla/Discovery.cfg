SPECIFICATION FairSpec
CONSTANTS
    Models = {m1}
    NumRoots = 2
    Dirs <- MCDirs
    RootOf <- TwoRoots
    Files <- MCFiles
    DirOf <- OneFileEach
    Buffer = 1
    MaxFilesPerTrigger = 2
    StartingTimestamp = 2
    Configs <- AllConfigs
    Steady = TRUE
    Faults = {"jobFails", "shutdown"}
    MaxTime = 5
    MaxCarried = 1
    MaxProcesses = 2
    m1 = m1
INVARIANTS
    TypeOK
    NoneSkipped
    IngestedOnce
    EndsAfterItsCycles
PROPERTIES
    EveryFileIngested
    ModelsEnd
