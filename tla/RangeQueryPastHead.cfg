\* Windows past the head.
CONSTANTS
    t1 = t1  t2 = t2  j1 = j1  j2 = j2  k1 = k1  k2 = k2
    Keys = {k1}
    Jobs = {j1}
    KeyOf <- OneJob
    Tasks = {t1}
    U64Max = 3
    Ranges <- Ranges0to2
    ChunkSize = 2
    FirstHead = 1
    PastHead = TRUE
    Degradable = FALSE
    ClearedKeys = {}
    ClearedBelow = {}
SPECIFICATION Spec
INVARIANTS AnswerIsWhole
