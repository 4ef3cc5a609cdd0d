\* A window with start > end inside another.
CONSTANTS
    t1 = t1  t2 = t2  j1 = j1  j2 = j2  k1 = k1  k2 = k2
    Keys = {k1}
    Jobs = {j1}
    KeyOf <- OneJob
    Tasks = {t1}
    U64Max = 4
    Ranges <- InvertedRanges
    ChunkSize = 2
    FirstHead = 3
    PastHead = FALSE
    Degradable = FALSE
    ClearedKeys = {}
    ClearedBelow = {}
SPECIFICATION Spec
INVARIANTS NeverDoubleCounted
