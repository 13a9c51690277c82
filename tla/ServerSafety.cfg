SPECIFICATION FairSpec
CONSTANTS
    health = health
    qr = qr
    profile = profile
    relay = relay
    Udp = {qr}
    Tcp = {profile, relay}
    Health = health
    OpenOrder <- MCOpenOrder
    DispatchOrder <- MCDispatchOrder
    Client = {c1, c2, c3}
    NoService = NoService
    Backlog = 2
    MaxAccepting = 2
INVARIANTS
    TypeOK
    MainNeverBlocks
    WorkersHaveTheirSockets
    NothingLeftBehind
PROPERTIES
    EveryArrivalTaken
    ShutdownEndsIfNobodyAccepts
CHECK_DEADLOCK FALSE
