CONSTANTS
    Zones <- MCZones
    Records <- MCRecords
    Mandatory <- MCMandatory
    Queries <- MCQueries
    DynAddrs <- MCDynAddrs
    DyncNames <- MCDyncNames
    max_cname_depth = 2
    max_addtl_rrsets = 2
    max_addrs = 2
    max_rrs = 2
    plain_max = 16
    max_response = 44
    UINT = 1000
    MaxPtr = 18
    COMPTARGETS_MAX = 5
    include_optional_ns = TRUE
SPECIFICATION Spec
CHECK_DEADLOCK FALSE
INVARIANTS Assertions WireMatches ResponseFits GlueOrTC ChainsBounded RcodeMatches
