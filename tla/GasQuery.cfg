\* Two concurrent calls over one shared GasCache, which anyone may clear.
CONSTANTS
    t1 = t1  t2 = t2  j1 = j1  k1 = k1
    Keys = {k1}
    Jobs = {j1}
    KeyOf <- OneJob
    Tasks = {t1, t2}
    U64Max = 4
    Ranges <- MCRanges
    ChunkSize = 2
    FirstHead = 2
    PastHead = FALSE
    Degradable = FALSE
    ClearedKeys = {k1}
    ClearedBelow = {1, 2}
    WeiMax = 6
    TxsOf <- MCTxsOf
    NoFee = NoFee
SPECIFICATION GasSpec
SYMMETRY Symmetry
INVARIANTS TypeOK RangesDisjoint NeverDoubleCounted CachedIsWhole AnswerIsWhole OnlyWhatWasAsked BillIsTheSum
PROPERTY CoverageOnlyGrows
