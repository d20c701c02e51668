CONSTANTS
    Requester = A
    Responder = B
    Rank = {A, B}
    NSlots = 2
    StagingSize = 2
    MaxBatches = 2
SPECIFICATION Spec
INVARIANT WaitIsCompletion
