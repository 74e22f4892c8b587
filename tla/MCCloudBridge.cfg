SPECIFICATION FairSpec
CONSTANTS
    MaxEvents = 3
    Keys = {k1}
    SendInterval = 2
    GpsInterval = 2
    MaxRound = 3
INVARIANTS
    TypeOK
    FixIsNotBackdated
    NoValueForgotten
    FreshUnlessRefused
PROPERTIES
    PositionIsSent
