SPECIFICATION FairSpec
CONSTANTS
    Inv = {i1, i2}
    Pid = {p1, p2}
    Privileged = {i1}
    maxtries = 3
    PidReuse = TRUE
    none = none
    foreign = foreign
INVARIANTS OneDaemon StatusTruthful StopMeansStopped
PROPERTY CommandsEnd
CHECK_DEADLOCK FALSE
