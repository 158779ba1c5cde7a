SPECIFICATION FairSpec
CONSTANTS
    Settings <- MCSettings
    Policies <- MCPolicies
    ChunkMax = 3
    MaxConnects = 2
INVARIANTS LayersTrue ToldTruth
PROPERTIES LoginEnds
CHECK_DEADLOCK FALSE
