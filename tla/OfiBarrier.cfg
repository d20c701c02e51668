\* Three ranks, messages overtaking each other.  The barrier may hang
\* (see OfiBarrierLost.cfg), so a deadlock is not an error here.
CONSTANTS
    N = 3
    NSteps = 2
    Dist <- MCDist
    RECV_POOL_SIZE = 4
    MaxBarriers = 3
    Ordered = FALSE
SPECIFICATION Spec
INVARIANTS
    TypeOK
    ReceivesAccountedFor
    PhaseIsEnough
PROPERTY ImplementsBarrier
CHECK_DEADLOCK FALSE
