SPECIFICATION Spec
CONSTANTS
    send = send
    delete = delete
    chat = chat
    NoJob = NoJob
    Jobs <- Pair
    Conversation <- PairConversation
    Target <- PairTarget
    RetryIds = {r1}
    Slots = 2
    MaxLocks = 2
    MaxAttempts = 2
    MaxClicks = 1
    MaxFaults = 0
PROPERTIES
    ClickConsumed
