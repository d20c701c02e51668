\* Three threads fill the ring of 3 and go round it and round the index of 4.
CONSTANTS
    Thread = {t1, t2, t3}
    Sizes = {1, 2}
    BatchSize = 2
    NWqes = 3
    IndexSpan = 4
    MaxWqes = 5
SPECIFICATION FairSpec
INVARIANTS
    TypeOK
    DoorbellInRange
    DoorbellsAgree
    NothingStranded
PROPERTIES
    ImplementsSendQueue
    EveryPutExecuted
