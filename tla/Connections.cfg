SPECIFICATION ConnectionsSpec
CONSTANTS
    Setups <- MCSetups
    Hosts <- MCHosts
    MaxFds = 3
    MaxRecords = 2
    MaxConnects = 2
    MaxAccepts = 1
    Hostings <- MCHostings
    Sids = {1}
    SeqLimit = 2
    MaxChunks <- MCMaxChunks
INVARIANTS SocketsKept BoshDelivers LayersDeliver  
CHECK_DEADLOCK FALSE
