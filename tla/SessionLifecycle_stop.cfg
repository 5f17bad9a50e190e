SPECIFICATION Spec
CONSTANTS
    MaxPanes = 3
    MaxCrashes = 2
    MaxHalts = 1
    MaxUnknown = 1
    MaxResumes = 2
    MaxFaults = 1
    MaxAttempts = 1
    Crossings = TRUE
PROPERTY NoResumeAgainstStop
