SPECIFICATION Spec
CONSTANTS
    Files <- MCFiles
    Entries <- MCEntries
    InitialLogs <- MCInitialLogs
    IgnoreDups <- MCIgnoreDups
    MaxCalls = 4
INVARIANTS AddedIsWritten
CHECK_DEADLOCK FALSE
