SPECIFICATION Spec
CONSTANTS
    NumParts = 1
    Platform = "bale"
    MaxAttempts = 2
    Failures <- AllFailures
    MaxFaults = 2
    MaxWebhooks = 2
PROPERTIES
    SentStays
