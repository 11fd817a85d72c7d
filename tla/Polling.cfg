CONSTANTS
    ali = ali
    sara = sara
    Pushes = {u}
    Histories <- ThreeHistories
    NumEvents = 3
    NumUpdates = 3
    MaxUpdateAttempts = 3
    MaxRepeats = 1
    MaxFaults = 2
    MaxCalls = 2
    MaxDrops = 1
    SessionFaults = 1
SPECIFICATION Spec
INVARIANTS
    PeerOrder
    NothingSkipped
    OnlyOvertaken
    OneSocket
    UpdatesKept
PROPERTIES
    CatchesUp
    Reconnects
CHECK_DEADLOCK FALSE
