SPECIFICATION Spec
CONSTANTS
    Console = {c1, c2}
    Worker = {w1, w2}
    Token = {t1, t2}
    Ticket = {l1, l2}
    None = None
    MaxRestarts = 1
    MaxRecords = 1
INVARIANTS
    TypeOK
    ProfilesDistinct
    SessionsMatchAccounts
    
    RecordsPrivate
SYMMETRY Symmetry
