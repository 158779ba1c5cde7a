SPECIFICATION FairSpec
CONSTANTS
    Locals <- MCLocals
    Services <- MCServices
    Texts <- MCTexts
    Masters <- MCMasters
    Users <- MCUsers
    Replies <- MCReplies
    BfOutput <- MCBfOutput
    Canon <- MCCanon
    DefaultService = "muc"
    ConfigNick = "cthulhu"
    ChunkMax = 2
    AutoJoin <- JoinTwice
    Rooms <- TwoRooms
    Assigned <- NoNicks
    UserBodies <- SpellingBodies
    MaxStimuli = 2
INVARIANTS RegistriesMatch OneObjectPerRoom LoggedOnceInOrder
PROPERTIES RequestsSettle SaidIsLogged
CHECK_DEADLOCK FALSE
