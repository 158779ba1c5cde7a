SPECIFICATION CommandsSpec
CONSTANTS
    Programs <- MCPrograms
    MemSize = 2
    CellMod = 3
    FirstPrintable = 2
    TimeToLive = 12
    Files <- LogFiles
    Entries <- Imported
    InitialLogs <- Logs
    IgnoreDups = {TRUE}
    MaxCalls = 3
    Said <- SaidLater
    MaxAppends = 2
INVARIANTS LoopsAscending SaidIsUnderstood
PROPERTIES FlatLoopsRepeatThemselves EachReturns LogsShared
CHECK_DEADLOCK FALSE
