SPECIFICATION FairSpec
CONSTANTS
    SessionId = {s1, s2}
    ProfileId = {p1}
    DecimalText <- MCDecimalText
    Challenge = {c1}
    WrongAnswer = WrongAnswer
    NoValue = NoValue
    Worker = {}
    MaxAge = 1
    MaxTime = 1
    MaxIssued = 2

    
PROPERTY
    RegisteredUnlessLost
