\* Three slots reused by three batches.
CONSTANTS
    POOL_SIZE = 3
    MaxBatches = 3
SPECIFICATION FairSpec
INVARIANTS
    TypeOK
    BuildersOutliveWork
    NothingFiresEarly
    CompletionsAreFresh
PROPERTY BatchesEnd
