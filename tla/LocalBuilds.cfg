SPECIFICATION FairSpec
CONSTANTS
    Builds = {b1, b2}
    Sweepers = {server}
    MaxFiles = 2
    MaxCrashes = 2
    MaxFailures = 1
INVARIANTS TypeOK OneBuild LiveWorkKept 
 
CHECK_DEADLOCK FALSE
