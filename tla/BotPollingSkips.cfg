SPECIFICATION FairSpec
CONSTANTS
    NumUpdates = 2
    MaxUpdateAttempts = 3
    MaxFaults = 0
INVARIANTS
    NoneSkipped
