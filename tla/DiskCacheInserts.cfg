\* One instance whose load may fail, and inserts in one millisecond; both
\* properties are violated.
CONSTANTS
    Callers = {c1}
    PathOf <- OnePath
    TempOf <- OneTemp
    Keys = {1, 2, 3}
    Windows = {w1}
    NoWindow = NoWindow
    MaxEntries = 2
    Ttl = 9
    MaxTime = 0
    ClockSteps = FALSE
    FailingReaders = {c1}
SPECIFICATION Spec
PROPERTIES
    NewEntryStays
    KeepsTheRest
