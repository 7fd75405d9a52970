CONSTANTS
    NCOUNTERS = 3
    Goods <- FewGoods
    Initial <- Requests
    RATE = 1
    Sample = {1, 2}
SPECIFICATION Spec
INVARIANTS
    NothingLost
    WaitsExact
PROPERTIES
    EverythingSold
CHECK_DEADLOCK FALSE
