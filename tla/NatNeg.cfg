SPECIFICATION FairSpec
CONSTANTS
    pair = s1
    crowd = s2
    SessionId = {s1, s2}
    ClientIndex = {0, 1, 2}
    Inits <- MCInits
    e1 = e1
    e2 = e2
    Endpoint = {e1, e2}
    Timeout = 3
    Retry = 2
    Punctual <- MCPunctual
INVARIANTS
    TypeOK
    PairsAgree
PROPERTIES
    NoGhostPeer
    
    PunctualPairsMeet
