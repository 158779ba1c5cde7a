\* Every value of every kind in every stanza that can hold it, with one
\* change on the way, once and back again; searches in two elements.
SPECIFICATION Spec
CONSTANTS
    Sendable <- MCSendable
    Registered <- MCRegistered
    Changing <- MCChanging
    Trees <- MCTrees
    Paths <- MCPaths
    MaxHops = 2
    MaxChanges = 1
INVARIANTS WrittenIsRead ReachesItsReader FindsWhatThePathSays
\* An exchange ends with its last journey.
CHECK_DEADLOCK FALSE
