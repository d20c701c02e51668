\* Three ranks: two rounds, and a last round that is not a power of two.
CONSTANTS
    N = 3
    NRounds = 2
    Dist <- MCDist
    MaxBarriers = 3
    Modes <- MCMixed
    Reuse = FALSE
SPECIFICATION FairSpec
INVARIANTS
    TypeOK
    BuilderReuseSafe
    SourceStable
    NoPutAfterRelease
    NoSignalOverwritten
    FullInv
PROPERTIES
    ImplementsBarrier
    AllRanksFinish
