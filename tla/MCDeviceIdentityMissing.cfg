SPECIFICATION Spec
CONSTANTS
    Threads = {t1, t2}
    MaxIds = 2
    MaxLists = 1
PROPERTY
    GeneratedIfMissing
