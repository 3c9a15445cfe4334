SPECIFICATION FairThreadsSpec
CONSTANTS
    unset = unset
    Unset = unset
    Setups <- MCSetups
    MaxThreads = 4
INVARIANT StatsReady
PROPERTIES StartupCompletes ShutdownCompletes
CHECK_DEADLOCK FALSE
