\* Two instances on one file with room for two of three entries, a TTL, and a
\* clock that may be set back; one of them cannot always read the file.
CONSTANTS
    Callers = {c1, c2}
    PathOf <- OnePath
    TempOf <- OneTemp
    Keys = {1, 2, 3}
    Windows = {w1}
    NoWindow = NoWindow
    MaxEntries = 2
    Ttl = 0
    MaxTime = 1
    ClockSteps = TRUE
    FailingReaders = {c2}
SPECIFICATION Spec
INVARIANT FileIsWhole
PROPERTIES SoundInsertsKeepTheRest IsBlockWindowCache
