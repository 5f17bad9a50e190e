SPECIFICATION FairSpec
CONSTANTS
    Messages = {m1, m2}
    maxAttempts = 1
    MaxPane = 3
    MaxTroubles = 1
INVARIANTS TypeOK ExactlyOnce
 
CHECK_DEADLOCK FALSE
