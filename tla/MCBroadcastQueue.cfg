SPECIFICATION FairSpec
CONSTANTS
    logger = logger
    portal = portal
    Trusting <- MCTrusting
    Clamping <- MCClamping
    Capacity = 2
    StoreWindow = 2
    MaxItems = 5
INVARIANTS
    TypeOK
    DeliveredUnlessLapped
    NeverStale
PROPERTIES
    SkipsOnlyOverwritten
    ImplementsLog
    EveryItemIsPassed
