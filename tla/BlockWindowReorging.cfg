\* Two daily calls over a chain whose clock may go back and whose last blocks may be
\* replaced: whatever the probes find, no call waits forever.
CONSTANTS
    Tasks = {t1, t2}
    NoTask = NoTask
    Days = {0}
    DayLength = 1
    Ranges <- NoRanges
    EagerHead = TRUE
    Monotonic = FALSE
    ReorgDepth = 2
    MaxTime = 1
    MaxBlocks = 3
SPECIFICATION FairSpec
PROPERTIES EveryCallReturns
