SPECIFICATION FairThreadsSpec
CONSTANTS
    unset = unset
    Unset = unset
    Setups <- MCSetups
    MaxThreads = 4
PROPERTY FatalExits
CHECK_DEADLOCK FALSE
