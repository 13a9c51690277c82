SPECIFICATION Spec
CONSTANTS
    Conn = {c1, c2}
    Fd = {f1, f2}
    Profile = {p1, p2}
    DefaultProfile = p1
    None = None
    SocketBuffer = 1
    LoginFirst = TRUE
PROPERTY
    DisconnectKeepsOthers
