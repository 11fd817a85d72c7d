CONSTANTS
    Updates = {u}
    MaxCalls = 0
    MaxDrops = 0
    MaxFaults = 2
SPECIFICATION FairSession
PROPERTIES
    BatchRetained
CHECK_DEADLOCK FALSE
