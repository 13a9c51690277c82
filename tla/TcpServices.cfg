SPECIFICATION FairSpec
CONSTANTS
    Service = {"nas", "dns", "browser", "search", "gamestats", "relay"}
    Marker <- MCMarker
    Declared <- MCDeclared
    Prefix = 2
    Limit = 5
    Chunk = 2
    SizeMod = 16
    SocketBuffer = 1
    MaxSent = 8
INVARIANTS
    TypeOK
    WholeRequests
    NoWholeRequestWaits
    RequestsBounded
    
PROPERTY
    EveryWorkerEnds
CHECK_DEADLOCK FALSE
