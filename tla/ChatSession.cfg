SPECIFICATION Spec
CONSTANTS
    Locals <- MCLocals
    Services <- MCServices
    Texts <- MCTexts
    Masters <- MCMasters
    Users <- MCUsers
    Replies <- MCReplies
    BfOutput <- MCBfOutput
    Canon <- MCCanon
    DefaultService = "muc"
    ConfigNick = "cthulhu"
    ChunkMax = 2
    AutoJoin <- JoinDen
    Rooms <- OneRoom
    Assigned <- OneNick
    UserBodies <- ChatBodies
    MaxStimuli = 3
INVARIANTS MembershipTrue LogComplete
PROPERTIES StrangersOnlyAnswered
CHECK_DEADLOCK FALSE
