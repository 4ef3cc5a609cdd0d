\* A reorg of one block after the day was found to be over.
CONSTANTS
    Tasks = {t1}
    NoTask = NoTask
    Days = {0}
    DayLength = 2
    Ranges <- NoRanges
    EagerHead = TRUE
    Monotonic = TRUE
    ReorgDepth = 1
    MaxTime = 4
    MaxBlocks = 4
SPECIFICATION Spec
INVARIANT PersistedIsFinal
