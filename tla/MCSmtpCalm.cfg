CONSTANTS
    m1 = m1
    m2 = m2
    m3 = m3
    Sends = {m1, m2, m3}
    NoSend = NoSend
    MaxClients = 2
    MaxConns = 1
    MsgsPerConn = 10
    MaxPrompts = 1
    Faults = {"perm", "auth", "refused"}
SPECIFICATION Spec

INVARIANT FreeIsIdle
PROPERTY EverySendAnswered
CHECK_DEADLOCK FALSE
