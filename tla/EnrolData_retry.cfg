SPECIFICATION Spec
CONSTANTS
    Cards = {"new"}
    Issuers = {"signer"}
    Doc <- MCDoc
    Chunks <- MCChunks
    Blocks = 2
    MaxDrops = 2
    MaxSwaps = 0
    MaxCalls = 1
INVARIANT RetryRecovers
CHECK_DEADLOCK FALSE
