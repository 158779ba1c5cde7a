SPECIFICATION ReadingSpec
CONSTANTS
    Documents <- MCDocuments
    RefValue <- MCRefValue
    MaxStreams = 2
    Following <- MCFollowing
    Resources = {"a", "b"}
    MaxSessions = 2
    MaxEvents = 3
    Remotes = {"friend", "stranger"}
    Trusted = {"friend"}
    Commands = {"c"}
    Features = {"f"}
    MaxCalls = 4
    MaxRequests = 2
INVARIANTS MeansWhatItSays SplitIndependent ElementsWhole TagsWhole HashesTrue RequestsAnswered
PROPERTIES ConversationsKept
CHECK_DEADLOCK FALSE
