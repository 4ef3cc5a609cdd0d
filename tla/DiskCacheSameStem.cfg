\* Two cache files whose names differ in the extension.
CONSTANTS
    Callers = {c1, c2}
    PathOf <- TwoPaths
    TempOf <- SameStem
    Keys = {1, 2}
    Windows = {w1}
    NoWindow = NoWindow
    MaxEntries = 2
    Ttl = 9
    MaxTime = 0
    ClockSteps = FALSE
    FailingReaders = {}
SPECIFICATION Spec
INVARIANT FileIsWhole
