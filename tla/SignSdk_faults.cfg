SPECIFICATION Spec
CONSTANTS
    Certs <- MCCerts
    Bucket <- MCBucket
    BuiltIn <- MCBuiltIn
    RevokedAt <- MCRevokedAt
    OnHold <- MCOnHold
    Talkers = {}
    CrlLife = 0
    MaxNow = 1
    NoId = "none"
    Null = "null"
    Inputs <- MCInputs
    OptionSets <- MCOptionSets
    CardCerts = {"A", "B", "F"}
    ReaderLists <- MCReaderLists
    MaxCalls = 2
    MaxFaults = 1
PROPERTIES
    ZeroMeansSigned
    CheckedBeforeSigning
    TokenIsFresh
CHECK_DEADLOCK FALSE
