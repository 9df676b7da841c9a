CONSTANTS
    r1 = r1
    c1 = c1
    c2 = c2
    none = none
    p1 = p1
    p2 = p2
    nopin = nopin
    d1 = d1
    d2 = d2
    Slots <- OneReader
    Cards <- TwoCards
    CieCards <- TwoCards
    NoCard = none
    AtrNeedsConnection = TRUE
    CardAnswers <- WorksOrNot
    MaxSessions = 2
    MaxInits = 1
    MaxHandles = 3
    Pins <- TwoPins
    NoPin = nopin
    FactoryPin = p1
    MaxTries = 1
    Data <- ShortAndLong
    Long <- OnlyLong
    DigestMechs <- OneDigest
    SignMechs <- BothFamilies
    Searches <- KeyPair
    Modes <- ReadWrite
    AnonymousSetPIN = FALSE
    MaxParts = 1
    MaxActive = 1
SPECIFICATION OpSpec
CHECK_DEADLOCK FALSE
SYMMETRY Sym
INVARIANT AnswersCoverGiven
INVARIANT SignaturesSound
INVARIANT OnlyStalePinCostsATry
INVARIANT SignVerifyAgree
INVARIANT FlagsAreHonest
