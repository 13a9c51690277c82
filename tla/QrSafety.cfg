SPECIFICATION Spec
CONSTANTS
    SessionId = {s1, s2}
    ProfileId = {p1}
    DecimalText <- MCDecimalText
    Challenge = {c1}
    WrongAnswer = WrongAnswer
    NoValue = NoValue
    Worker = {w1}
    MaxAge = 1
    MaxTime = 2
    MaxIssued = 2
INVARIANTS
    TypeOK
    RegistryConsistent
    SearchListsOnlyActive
PROPERTY
    ImplementsLease
