\* Three keys, room for none, one or two, and entries that expire.
CONSTANTS
    Callers = {c1, c2}
    NoCaller = NoCaller
    Keys = {k1, k2, k3}
    Windows = {w1, w2}
    NoWindow = NoWindow
    Limits = {0, 1, 2}
    Ttl = 0
    MaxTime = 1
    ClockSteps = TRUE
    MaxGets = 2
    MaxSeq = 4
    MaxSkips = 1
CHECK_DEADLOCK FALSE
SPECIFICATION FairSpec
INVARIANT NeverOverLimit
PROPERTIES EvictsLeastRecentlyUsed InsertEndsIfThereIsRoom IsBlockWindowCache
