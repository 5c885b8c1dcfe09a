CONSTANTS
    m1 = m1
    m2 = m2
    m3 = m3
    Sends = {m1, m2, m3}
    NoSend = NoSend
    MaxClients = 2
    MaxConns = 1
    MsgsPerConn = 2
    MaxPrompts = 0
    Faults = {"perm", "temp", "reject", "auth", "authStep", "authHangup", "refused", "net", "tls", "hangup", "quit"}
SPECIFICATION Spec
SYMMETRY Symmetric
INVARIANTS TypeOK DeliveredOnce OkMeansDelivered
CHECK_DEADLOCK FALSE
