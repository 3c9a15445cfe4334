SPECIFICATION PluginsFairSpec
CONSTANTS
    Mon = {m1}
    TcpMon = {t1, t2}
    REQ = 2
    RESP = 3
    UINT = 8
    MaxDone = 4
    PartialSends = FALSE
INVARIANTS PluginAssertions FreshSuccess
PROPERTIES ImplementsMonitorPoll PollsEnd InitialRoundEnds
