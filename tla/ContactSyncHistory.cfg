SPECIFICATION SyncSpec
CONSTANTS
    NumPeers = 2
    PageSize = 1
    Calls = {"call"}
    MaxCalls = 1
    MaxHand = 1
    MaxEvents = 1
    MaxFaults = 1
INVARIANTS
    HistoryStaysIn
CHECK_DEADLOCK FALSE
