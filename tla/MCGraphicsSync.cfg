SPECIFICATION FairSpec
CONSTANTS
    Threads = {t1, t2}
    MaxSaves = 2
INVARIANTS
    TypeOK
    FileIsWhole
    ShowsTheFile
    UploadedUnlessLate
PROPERTY
    EngineCatchesUp
