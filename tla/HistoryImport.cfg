SPECIFICATION ImportSpec
CONSTANTS
    Files <- MCFiles
    Entries <- MCEntries
    InitialLogs <- MCInitialLogs
    IgnoreDups <- MCIgnoreDups
    Sources <- MCSources
    Options <- MCOptions
    MaxCalls = 40
    MaxRuns = 2
    MaxKills = 1
INVARIANTS SortSorts
PROPERTIES LinesSomewhere ImplementsDayLogs AloneIsNotDoubled ProcessEnds
CHECK_DEADLOCK FALSE
