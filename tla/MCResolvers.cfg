CONSTANTS
    Word = {1, 2, 3, 4, 5}
    Resources <- MCResources
    Clients <- MCClients
    Zero = "0.0.0.0"
    V6 = {"m", "x", "y", "z"}
    TTL = 4
    MaxAddrs = 3
    MAX_ITEMS = 3
    MAX_WEIGHT = 2
    MaxStores = 2
SPECIFICATION Spec
INVARIANTS Assertions OneDatacenter FailoverJustified TtlHalvedOnce
