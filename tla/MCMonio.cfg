SPECIFICATION Spec
CONSTANTS
    Ptr = {p1, p2, p3}
    Addr = {"v4", "v6"}
    V6 = {"v6"}
    SvcType = {"default", "web", "edge"}
    upThresh <- MCUp
    okThresh <- MCOk
    downThresh <- MCDown
    ForceV6Up = TRUE
    UINT = 5
INVARIANTS TypeOK WordsAgree OldOrNew
PROPERTIES OnlyMonitoredWordsChange ImplementsAntiFlap
CHECK_DEADLOCK FALSE
