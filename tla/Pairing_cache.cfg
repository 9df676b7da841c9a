CONSTANTS
    c1 = c1
    c2 = c2
    p1 = p1
    p2 = p2
    h1 = h1
    h2 = h2
    none = none
    Reader <- OneReader
    Cards = {c1}
    Unsupported = {}
    Lettered = {}
    Halves = {h1, h2}
    NoHalf = none
    Callers = {p1, p2}
    Nobody = none
    Ops <- KeepingOps
    Faults = {"link", "data"}
    MaxTries = 3
    MaxCalls = 3
SPECIFICATION Spec
SYMMETRY Symmetry
INVARIANT CachedHalfCurrent
PROPERTY RightPinNotCharged
CHECK_DEADLOCK FALSE
