SPECIFICATION FairSpec
CONSTANTS
    logger = logger
    portal = portal
    bridge = bridge
    Bound <- MCBound
    Lazy <- MCLazy
    Once <- MCOnce
    MaxSegments = 2
    MaxItems = 2
INVARIANTS
    TypeOK
    BoundOnTheSegment
    NoReaderAhead
PROPERTY
    BoundCatchUp
