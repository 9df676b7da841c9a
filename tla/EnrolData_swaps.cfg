SPECIFICATION Spec
CONSTANTS
    Cards = {"new", "old", "altered", "relisted", "selfsigned", "unparsed"}
    Issuers = {"signer"}
    Doc <- MCDoc
    Chunks <- MCChunks
    Blocks = 2
    MaxDrops = 3
    MaxSwaps = 2
    MaxCalls = 2
INVARIANT StoredIsVouched
INVARIANT GenuineIsAccepted
INVARIANT NeverCorrupt
CHECK_DEADLOCK FALSE
