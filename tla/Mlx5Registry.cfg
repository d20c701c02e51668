\* Two ranks; the third malloc finds memory only after a free.
CONSTANTS
    Ranks = {0, 1}
    Senders = {0}
    Cells <- MCCells
    Sizes <- MCSizes
    GICC_MAX_BUFS = 3
SPECIFICATION Spec
INVARIANTS
    TablesAgree
    LookupIsExact
    NoRankAborts
CHECK_DEADLOCK FALSE
