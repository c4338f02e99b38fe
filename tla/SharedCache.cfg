SPECIFICATION Spec
CONSTANTS
    Models = {m1, m2}
    NumRoots = 2
    Dirs <- MCDirs
    RootOf <- TwoRoots
    Files <- MCFiles
    DirOf <- OneFileEach
    Buffer = 1
    MaxFilesPerTrigger = 2
    StartingTimestamp = 0
    Configs <- OnlyProcessingTime
    Steady = TRUE
    Faults = {}
    MaxTime = 5
    MaxCarried = 0
    MaxProcesses = 1
    m1 = m1
    m2 = m2
INVARIANT BeginsWhatItDiscovered
