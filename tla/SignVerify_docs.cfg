SPECIFICATION Spec
CONSTANTS
    Certs <- MCCerts
    Bucket <- MCBucket
    BuiltIn <- MCBuiltIn
    RevokedAt <- MCRevokedAt
    OnHold <- MCOnHold
    Talkers = {"A", "D", "X"}
    CrlLife = 0
    MaxNow = 1
    NoId = "none"
    Null = "null"
    Docs <- MCDocs
    NoFile = "nofile"
    MaxOdd = 1
    MaxCalls = 2
INVARIANTS
    EntriesSound
    GoodAsOf
    ZeroMeansVerified
    AnswerIsOfThisFile
PROPERTIES
    CallReturns
CHECK_DEADLOCK FALSE
