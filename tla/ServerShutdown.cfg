SPECIFICATION FairSpec
CONSTANTS
    health = health
    qr = qr
    profile = profile
    relay = relay
    Udp = {qr}
    Tcp = {profile, relay}
    Health = health
    OpenOrder <- MCOpenOrder
    DispatchOrder <- MCDispatchOrder
    Client = {c1, c2}
    NoService = NoService
    Backlog = 2
    MaxAccepting = 2
PROPERTY
    ShutdownEnds
CHECK_DEADLOCK FALSE
