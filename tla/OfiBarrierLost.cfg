\* Three ranks: a message of the next barrier, polled early, is forgotten.
CONSTANTS
    N = 3
    NSteps = 2
    Dist <- MCDist
    RECV_POOL_SIZE = 4
    MaxBarriers = 2
    Ordered = TRUE
SPECIFICATION FairSpec
PROPERTY BarriersReturn
CHECK_DEADLOCK FALSE
