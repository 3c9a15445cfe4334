SPECIFICATION SysSpec
CONSTANTS
    p1 = p1
    p2 = p2
    p3 = p3
    p4 = p4
    p5 = p5
    p6 = p6
    Ptr = {p1, p2, p3, p4, p5, p6}
    Addr = {"a", "b", "v6"}
    V6 = {"v6"}
    SvcType = {"web", "edge"}
    upThresh <- MCUp
    okThresh <- MCOk
    downThresh <- MCDown
    ForceV6Up = TRUE
    UINT = 5
    Regs <- MCRegs
    Lossy <- MCLossy
INVARIANTS WordsAgree OldOrNew NoUninitAtRuntime
PROPERTIES ImplementsAntiFlap Converges
CHECK_DEADLOCK FALSE
