SPECIFICATION FairSpec
CONSTANTS
    NumParts = 2
    Platform = "bale"
    MaxAttempts = 3
    Failures <- LockedFailures
    MaxFaults = 2
    MaxWebhooks = 2
INVARIANTS
    AtMostOnce
PROPERTIES
    NoSendAfterCancel
    SentStays
    ConfirmedIsShown
