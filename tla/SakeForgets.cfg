SPECIFICATION Spec
CONSTANTS
    Console = {c1}
    Worker = {w1}
    Token = {t1, t2}
    Ticket = {l1, l2}
    None = None
    MaxRestarts = 0
    MaxRecords = 1
INVARIANT
    OwnRecordsReturned
