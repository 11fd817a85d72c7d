SPECIFICATION Spec
CONSTANTS
    NumParts = 2
    Platform = "eitaa"
    MaxAttempts = 2
    Failures <- AllFailures
    MaxFaults = 4
    MaxWebhooks = 3
INVARIANTS
    SentIsTruthful
    DeliveredInOrder
    NoStaleNote
PROPERTIES
    UncertaintyKept
    TruthfulSpec
