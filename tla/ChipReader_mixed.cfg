SPECIFICATION Spec
CHECK_DEADLOCK FALSE
CONSTANTS
    Chip <- ReadersMixed
    CANs = {"c1", "c2"}
    PINs = {"p1", "p2"}
    Size <- FileSizes
    Header = 2
    Chunk = 2
    SfiBit = 8
    Capacity = 5
    MaxCalls = 2
    MaxFaults = 2
    MaxPolls = 1
INVARIANTS
    ChannelInStep OneTryPerCall OutcomeTold
PROPERTIES
    Promise CallReturns
