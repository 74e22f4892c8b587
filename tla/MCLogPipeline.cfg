SPECIFICATION FairSpec
CONSTANTS
    MaxSessions = 2
    MaxEntries = 2
INVARIANTS
    TypeOK
    MarkedIsFinal
    ShownIsTrue
PROPERTIES
    DeletedWhenSaved
    OnlyMarkedFilesAreDeleted
    ImplementsArchive
    MarkersAreWorkedOff
