\* The index wraps after 16 puts, the CQ after 4, the work queue after 2.
CONSTANTS
    IndexSpan = 16
    NWqes = 2
    NCqes = 4
    MaxPuts = 36
    Signals = {TRUE}
    QuietAtWrap = FALSE
SPECIFICATION FairSpec
INVARIANTS
    TypeOK
    QuietIsCompletion
    EntriesExecutedAsBuilt
PROPERTY QuietReturns
