SPECIFICATION Spec
CONSTANTS
    B4 = 2
    B6 = 6
    v4mapped <- MCmapped
    v4compat <- MCcompat
    siit <- MCsiit
    teredo <- MCteredo
    sixto4 <- MC6to4
    Base = 100
    Locations <- MCLocations
    none = none
    NoneSuch = none
    Configs <- NestedNets
    Contents <- MCContents
    Updates <- MCUpdates
    Clients <- MCClients
    Reader = {r1, r2}
    WAIT = 2
    MaxChanges = 2
    StartupGap = FALSE
    SameSecond = FALSE
INVARIANTS LookupMatches
CHECK_DEADLOCK FALSE
