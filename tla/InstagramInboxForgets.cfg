SPECIFICATION InboxSpec
CONSTANTS
    ThreadOf <- OneThread
    Silent = {}
    Faults = {"login"}
    MaxRuntimes = 2
    MaxCalls = 1
    MaxFaults = 1
INVARIANTS
    AtLeastOnce
