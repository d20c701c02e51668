\* A client that goes on with the same barrier after wait_continuous().
CONSTANTS
    N = 2
    NRounds = 1
    Dist <- MCDist
    MaxBarriers = 3
    Modes <- MCContinuous
    Reuse = TRUE
SPECIFICATION Spec
INVARIANT BuilderReuseSafe
CHECK_DEADLOCK FALSE
