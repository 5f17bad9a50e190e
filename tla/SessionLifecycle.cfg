SPECIFICATION FairSpec
CONSTANTS
    MaxPanes = 3
    MaxCrashes = 2
    MaxHalts = 1
    MaxUnknown = 1
    MaxResumes = 2
    MaxFaults = 1
    MaxAttempts = 1
    Crossings = FALSE
INVARIANTS TypeOK  
PROPERTIES NoFalseExit RowTellsTruth
