SPECIFICATION Spec
CONSTANTS
    Pids = {p1, p2, p3}
    NoPid = NoPid
    MaxEvents = 4
    Signals = {"a", "b"}
    NoSignal = NoSignal
    Displays <- MCDisplays
    Messages <- MCMessages
SYMMETRY Identical
INVARIANTS
    TypeOK
    DrawnIsLastHeard
PROPERTIES
    PressArrives
    PressIsKept

