CONSTANTS
    c1 = c1
    c2 = c2
    p1 = p1
    p2 = p2
    h1 = h1
    h2 = h2
    none = none
    Reader <- TwoReaders
    Cards = {c1, c2}
    Unsupported = {c1}
    Lettered = {c2}
    Halves = {h1, h2}
    NoHalf = none
    Callers = {p1}
    Nobody = none
    Ops <- AllOps
    Faults = {"link", "lost", "crash", "disk"}
    MaxTries = 2
    MaxCalls = 2
SPECIFICATION FairSpec
INVARIANT OneAttemptPerCall
INVARIANT EnrolmentHasCertificate
PROPERTY OnlyEnableEnrols
PROPERTY CallsReturn
CHECK_DEADLOCK FALSE
