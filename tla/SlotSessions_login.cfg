CONSTANTS
    r1 = r1
    c1 = c1
    c2 = c2
    none = none
    Slots <- OneReader
    Cards <- TwoCards
    CieCards <- OneCard
    NoCard = none
    AtrNeedsConnection = TRUE
    CardAnswers <- AllAnswers
    MaxSessions = 2
    MaxInits = 2
    MaxHandles = 2
SPECIFICATION Spec
INVARIANT TypeOK
INVARIANT SessionsSound
INVARIANT LoginSound
INVARIANT HandlesSound
PROPERTY HandlesKeepMeaning
