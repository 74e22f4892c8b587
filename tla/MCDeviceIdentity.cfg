SPECIFICATION Spec
CONSTANTS
    Threads = {t1, t2, t3}
    MaxIds = 2
    MaxLists = 2
SYMMETRY
    ThreadSymmetry
INVARIANTS
    TypeOK
    OneIdentity
    CopiesAgree
