\* A day before the chain began.
CONSTANTS
    Tasks = {t1}
    NoTask = NoTask
    Days = {0}
    DayLength = 2
    Ranges <- NoRanges
    EagerHead = TRUE
    Monotonic = TRUE
    ReorgDepth = 0
    MaxTime = 4
    MaxBlocks = 4
SPECIFICATION Spec
INVARIANT PersistedIsTheDay
