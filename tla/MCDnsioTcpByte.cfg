SPECIFICATION Spec
CONSTANTS
    Conn = {c1}
    MaxClients = 1
    RecvSize = 4
    MaxResp = 2
    Timeout = 2
    LateBind = FALSE
    OneByteSegments = TRUE
INVARIANTS OnlyWholeQueries
CHECK_DEADLOCK FALSE
