CONSTANTS
    N = 3
    Jobs <- AllJobs
SPECIFICATION FairSpec
INVARIANTS TypeOK ReceivesInOrder RingInStep ConstructedMeansConnected
PROPERTY EveryCallReturns
