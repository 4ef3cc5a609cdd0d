\* What the statistics and the clock make of the entries; each of the three
\* properties is violated.
CONSTANTS
    Callers = {c1}
    NoCaller = NoCaller
    Keys = {k1, k2, k3}
    Windows = {w1}
    NoWindow = NoWindow
    Limits = {2}
    Ttl = 1
    MaxTime = 2
    ClockSteps = TRUE
    MaxGets = 2
    MaxSeq = 4
    MaxSkips = 0
CHECK_DEADLOCK FALSE
SPECIFICATION Spec
INVARIANTS
    EveryGetCountsOnce
    EntriesIsCurrent
PROPERTY EvictsLruUnderAnyClock
