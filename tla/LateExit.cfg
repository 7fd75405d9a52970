CONSTANTS
    NCOUNTERS = 3
    Goods <- FewGoods
    Initial <- Requests
    RATE = 1
    Sample = {1, 2}
SPECIFICATION Spec
INVARIANT AllFinishedMove
CHECK_DEADLOCK FALSE
