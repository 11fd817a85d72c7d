SPECIFICATION FairSpec
CONSTANTS
    send = send
    delete = delete
    chat = chat
    NoJob = NoJob
    Jobs <- Pair
    Conversation <- PairConversation
    Target <- PairTarget
    RetryIds = {r1}
    Slots = 2
    MaxLocks = 2
    MaxAttempts = 2
    MaxClicks = 2
    MaxFaults = 1
INVARIANTS
    ConversationMutex
    CancelledStaysOut
PROPERTIES
    DoneIsFinal
    Settles
