SPECIFICATION Spec
CONSTANTS
    Ptr = {p1}
    Addr = {"v4"}
    V6 = {}
    SvcType = {"edge"}
    upThresh <- MCUp
    okThresh <- MCOk
    downThresh <- MCDown
    ForceV6Up = FALSE
    UINT = 5
INVARIANT DownThreshHonoured
CHECK_DEADLOCK FALSE
