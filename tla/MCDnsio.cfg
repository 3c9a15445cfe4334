SPECIFICATION DnsioSpec
CONSTANTS
    Conn = {c1, c2, c3}
    MaxClients = 2
    RecvSize = 4
    MaxResp = 2
    Timeout = 2
    LateBind = TRUE
    OneByteSegments = FALSE
    Width = 4
    UdpLateBind = TRUE
INVARIANTS AcceptAccounting IdleBounded OnlyWholeQueries BatchAccounted
PROPERTIES SlotsTurnOver
CHECK_DEADLOCK FALSE
