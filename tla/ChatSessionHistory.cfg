SPECIFICATION Spec
CONSTANTS
    Locals <- MCLocals
    Services <- MCServices
    Texts <- MCTexts
    Masters <- MCMasters
    Users <- MCUsers
    Replies <- MCReplies
    BfOutput <- MCBfOutput
    Canon <- MCCanon
    DefaultService = "muc"
    ConfigNick = "cthulhu"
    ChunkMax = 2
    AutoJoin <- JoinDen
    Rooms <- OneRoom
    Assigned <- NoNicks
    UserBodies <- TalkBodies
    MaxStimuli = 2
INVARIANTS HistoryIgnored
CHECK_DEADLOCK FALSE
