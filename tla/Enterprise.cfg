CONSTANTS
    a1 = a1
    a2 = a2
    b1 = b1
SPECIFICATION Spec
INVARIANTS
    HandedOverOnReturn
    RepeatsAreRetries
    MenusFitCustomer
    SmsMarkHolds
    SecondInboxIsRace
    AssetsConsistent
PROPERTIES
    ResolvedNotReused
SYMMETRY Symmetry
CHECK_DEADLOCK FALSE
