SPECIFICATION Spec
CONSTANTS
    MaxSessions = 2
    MaxEntries = 1
INVARIANT
    DeletedAfterEndSent
